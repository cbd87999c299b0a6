---------------------------- MODULE ArenaJobProofs --------------------------
(***************************************************************************)
(* What the system promises about the records of the games and about the   *)
(* engine's jobs, for every number of handlers and workers and every set   *)
(* of rules: how a record can end, whose moves it holds, when a job may be *)
(* acknowledged, and that no move of the engine is forgotten.              *)
(*                                                                         *)
(* The argument: JobsFit says what a handler or a worker knows about its   *)
(* game at each point of its code.  All of it survives the writes of the   *)
(* others, because a write keeps the player's colour and never lowers the  *)
(* ply (Keeps); so JobsFit is an invariant, and the theorems follow from   *)
(* it one step at a time.                                                  *)
(***************************************************************************)
EXTENDS ArenaSafetyProofs, SequenceTheorems, FiniteSetTheorems

Side(n) == IF n % 2 = 0 THEN "white" ELSE "black"

(***************************************************************************)
(* A job belongs to a game that has reached its ply, and its ply is one at *)
(* which the engine moves.                                                 *)
(***************************************************************************)
JobFits(job) ==
  /\ job.game \in issued
  /\ Exists(job.game) => /\ job.ply <= live[job.game].ply
                         /\ Side(job.ply) = EngineColor(live[job.game])

(***************************************************************************)
(* A delivery: the message it came from, if it is still stored, has its job.*)
(***************************************************************************)
Identified(d) ==
  /\ d.id < sent
  /\ \A m \in queue : m.id = d.id => m.job = d.job

SameGame(id, g) ==
  /\ id \in issued
  /\ Exists(id) => g.playerColor = live[id].playerColor

Reached(id, g) == Exists(id) => g.ply <= live[id].ply

(***************************************************************************)
(* A copy at "update" is a move of the side to move, or a resignation.     *)
(***************************************************************************)
HandlerFits(r) ==
  /\ SameGame(r.id, r.g)
  /\ Coherent(r.g)
  /\ r.pc = "update" =>
       \/ r.g.ply = r.prev /\ r.g.status = "finished"
       \/ r.g.ply = r.prev + 1 /\ Side(r.prev) = r.g.playerColor
  /\ r.pc # "update" => Reached(r.id, r.g)
  /\ r.pc = "enqueue" => Side(r.g.ply) = EngineColor(r.g)
  /\ r.pc = "archive" => r.g.status = "finished"

WorkerFits(r) ==
  /\ \A d \in r.batch : JobFits(d.job) /\ Identified(d)
  /\ r.pc # "loop" => JobFits(r.cur.job) /\ Identified(r.cur)
  /\ r.pc = "update" => /\ SameGame(r.cur.job.game, r.g)
                        /\ r.cur.job.ply = r.prev
                        /\ r.g.ply = r.prev + 1
  /\ r.pc \in {"update", "publish", "archive"} => Coherent(r.g)
  /\ r.pc = "archive" => r.g.status = "finished"
  /\ r.pc \in {"publish", "archive", "ack"} => Settled(r.cur.job)

JobsFit ==
  /\ RecordsCoherent
  /\ \A m \in queue : JobFits(m.job) /\ Identified(m)
  /\ \A h \in Handlers : \A r \in {api[h]} : r.pc # "idle" => HandlerFits(r)
  /\ \A w \in Workers  : \A r \in {wrk[w]} : WorkerFits(r)

(***************************************************************************)
(* What a step may do to the stored games.                                 *)
(***************************************************************************)
KeepsGame(id) ==
  \/ live'[id] = live[id]
  \/ ~Exists(id)'
  \/ /\ id \notin issued /\ Coherent(live'[id])
  \/ /\ Exists(id)
     /\ Coherent(live'[id])
     /\ live'[id].playerColor = live[id].playerColor
     /\ \/ live'[id].ply = live[id].ply + 1
        \/ live'[id].ply = live[id].ply /\ live'[id].status = "finished"

Keeps ==
  /\ issued \subseteq issued'
  /\ \A id \in GameIds : KeepsGame(id)

(***************************************************************************)
(* What a step may do to the queue.                                        *)
(***************************************************************************)
OldMessage(n) == \E m \in queue : m.id = n.id /\ m.job = n.job

NewMessage(n) ==
  /\ sent <= n.id /\ n.id < sent'
  /\ JobFits(n.job)
  /\ \A k \in queue' : k.id = n.id => k.job = n.job

QueueKeeps ==
  /\ sent <= sent'
  /\ \A n \in queue' : OldMessage(n) \/ NewMessage(n)

-----------------------------------------------------------------------------
(***************************************************************************)
(* What was known before a step is known after it.                         *)
(***************************************************************************)
LEMMA JobFitsStable ==
  ASSUME LiveTypeOK, LiveTypeOK', Keeps, NEW job \in Job, JobFits(job)
  PROVE  JobFits(job)'
<1> DEFINE id == job.game
<1>1. id \in GameIds /\ job.ply \in Nat /\ KeepsGame(id) /\ id \in issued /\ id \in issued'
  BY DEF Job, Keeps, JobFits
<1> SUFFICES ASSUME Exists(id)'
             PROVE  job.ply <= live'[id].ply /\ Side(job.ply) = EngineColor(live'[id])
  BY <1>1 DEF JobFits, EngineColor
<1>2. live'[id] \in Game
  BY <1>1 DEF LiveTypeOK, Exists
<1>3. CASE live'[id] = live[id]
  BY <1>3 DEF JobFits, Exists
<1>4. CASE /\ Exists(id)
           /\ live'[id].playerColor = live[id].playerColor
           /\ live'[id].ply \in {live[id].ply, live[id].ply + 1}
  <2>1. live[id].ply \in Nat
    BY <1>1, <1>4, StoredGame DEF Game
  <2> QED
    BY <1>1, <1>4, <2>1 DEF JobFits, EngineColor
<1> QED
  BY <1>1, <1>3, <1>4 DEF KeepsGame

LEMMA SettledStable ==
  ASSUME LiveTypeOK, LiveTypeOK', Keeps, NEW job \in Job, JobFits(job), Settled(job)
  PROVE  Settled(job)'
<1> DEFINE id == job.game
<1>1. id \in GameIds /\ job.ply \in Nat /\ KeepsGame(id) /\ id \in issued
  BY DEF Job, Keeps, JobFits
<1> SUFFICES ASSUME Exists(id)'
             PROVE  live'[id].ply > job.ply \/ live'[id].status = "finished"
  BY DEF Settled
<1>2. CASE live'[id] = live[id]
  BY <1>2 DEF Settled, Exists
<1>3. CASE /\ Exists(id)
           /\ \/ live'[id].ply = live[id].ply + 1
              \/ live'[id].ply = live[id].ply /\ live'[id].status = "finished"
  <2>1. live[id].ply \in Nat /\ job.ply <= live[id].ply
    BY <1>1, <1>3, StoredGame DEF Game, JobFits
  <2> QED
    BY <1>1, <1>3, <2>1
<1> QED
  BY <1>1, <1>2, <1>3 DEF KeepsGame

LEMMA SameGameStable ==
  ASSUME Keeps, NEW id \in GameIds, NEW g, SameGame(id, g)
  PROVE  SameGame(id, g)'
<1>1. id \in issued /\ id \in issued' /\ KeepsGame(id)
  BY DEF SameGame, Keeps
<1> QED
  BY <1>1 DEF KeepsGame, SameGame, Exists

LEMMA ReachedStable ==
  ASSUME LiveTypeOK, Keeps, NEW id \in GameIds, NEW g \in Game,
         id \in issued, Reached(id, g)
  PROVE  Reached(id, g)'
<1>1. KeepsGame(id) /\ g.ply \in Nat
  BY DEF Keeps, Game
<1>2. Exists(id) => live[id].ply \in Nat
  BY StoredGame DEF Game
<1> QED
  BY <1>1, <1>2 DEF KeepsGame, Reached, Exists

LEMMA IdentifiedStable ==
  ASSUME QueueTypeOK, QueueTypeOK', QueueKeeps, NEW d \in Message, Identified(d)
  PROVE  Identified(d)'
<1>1. d.id \in Nat /\ sent \in Nat /\ sent' \in Nat /\ \A n \in queue' : n.id \in Nat
  BY DEF QueueTypeOK, Message
<1> QED
  BY <1>1 DEF Identified, QueueKeeps, OldMessage, NewMessage

LEMMA HandlerStable ==
  ASSUME LiveTypeOK, Keeps, NEW r \in BusyHandler, HandlerFits(r)
  PROVE  HandlerFits(r)'
<1>1. r.id \in GameIds /\ r.g \in Game
  BY DEF BusyHandler
<1>2. SameGame(r.id, r.g) /\ SameGame(r.id, r.g)'
  BY <1>1, SameGameStable DEF HandlerFits
<1>3. r.pc # "update" => Reached(r.id, r.g)'
  BY <1>1, <1>2, ReachedStable DEF HandlerFits, SameGame
<1> QED
  BY <1>2, <1>3 DEF HandlerFits, Coherent, NoMoveAfterEnd

WorkerRecord == Looping \cup Working \cup Acking

LEMMA WorkerStable ==
  ASSUME LiveTypeOK, LiveTypeOK', QueueTypeOK, QueueTypeOK', Keeps, QueueKeeps,
         NEW r \in WorkerRecord, WorkerFits(r)
  PROVE  WorkerFits(r)'
<1>1. \A d \in r.batch : JobFits(d.job)' /\ Identified(d)'
  <2> SUFFICES ASSUME NEW d \in r.batch PROVE JobFits(d.job)' /\ Identified(d)'
    OBVIOUS
  <2>1. d \in Message /\ d.job \in Job
    BY DEF WorkerRecord, Looping, Working, Acking, Message
  <2> QED
    BY <2>1, JobFitsStable, IdentifiedStable DEF WorkerFits
<1>2. ASSUME r.pc # "loop"
      PROVE  /\ r.cur \in Message /\ r.cur.job \in Job /\ r.cur.job.game \in GameIds
             /\ JobFits(r.cur.job) /\ JobFits(r.cur.job)' /\ Identified(r.cur)'
  <2>1. r.cur \in Message /\ r.cur.job \in Job /\ r.cur.job.game \in GameIds
    BY <1>2 DEF WorkerRecord, Looping, Working, Acking, Message, Job
  <2> QED
    BY <1>2, <2>1, JobFitsStable, IdentifiedStable DEF WorkerFits
<1>3. r.pc = "update" => SameGame(r.cur.job.game, r.g)'
  BY <1>2, SameGameStable DEF WorkerFits
<1>4. r.pc \in {"publish", "archive", "ack"} => Settled(r.cur.job)'
  BY <1>2, SettledStable DEF WorkerFits
<1> QED
  BY <1>1, <1>2, <1>3, <1>4 DEF WorkerFits, Coherent, NoMoveAfterEnd

-----------------------------------------------------------------------------
(***************************************************************************)
(* New games, moves and resignations are coherent.                         *)
(***************************************************************************)
LEMMA NewGameCoherent ==
  ASSUME NEW color \in Colors
  PROVE  Coherent(NewGame(color))
BY RulesAssumption DEF NewGame, Coherent, NoMoveAfterEnd

LEMMA MoveCoherent ==
  ASSUME NEW g \in Game, Coherent(g), NEW color, NEW uci \in Moves,
         CanApplyMove(g, color, uci)
  PROVE  Coherent(ApplyMove(g, uci))
<1> DEFINE after == ApplyMove(g, uci)
           moves == Append(g.moves, uci)
<1>1. /\ g.moves \in Seq(Moves) /\ g.status = "ongoing" /\ g.ply = Len(g.moves)
      /\ Outcome[g.moves] = NoOutcome /\ NoMoveAfterEnd(g.moves)
      /\ g.result = "" /\ g.termination = ""
  BY DEF Game, Coherent, CanApplyMove
<1>2. /\ after \in Game /\ after.moves = moves /\ moves \in Positions
      /\ after.ply = Len(g.moves) + 1
      /\ after.status = "ongoing" <=> Outcome[moves] = NoOutcome
  BY ApplyMoveType
<1>0. g.moves \in Seq(Moves)
  BY DEF Game
<1>3. Len(moves) = Len(g.moves) + 1 /\ Len(g.moves) \in Nat
  BY <1>0
<1>4. NoMoveAfterEnd(moves)
  <2> SUFFICES ASSUME NEW n \in 0..Len(g.moves)
               PROVE  Outcome[SubSeq(moves, 1, n)] = NoOutcome
    BY <1>3 DEF NoMoveAfterEnd
  <2>1. SubSeq(moves, 1, n) = SubSeq(g.moves, 1, n)
    BY <1>1, PrefixOfAppend
  <2>2. CASE n = Len(g.moves)
    BY <1>1, <2>1, <2>2, SubSeqFull
  <2>3. CASE n \in 0..Len(g.moves) - 1
    BY <1>1, <2>1, <2>3 DEF NoMoveAfterEnd
  <2> QED
    BY <1>3, <2>2, <2>3
<1>5. /\ after.result = IF Outcome[moves] # NoOutcome THEN Outcome[moves] ELSE g.result
      /\ after.termination =
           IF Outcome[moves] # NoOutcome THEN "board" ELSE g.termination
  BY DEF ApplyMove, Game
<1> HIDE DEF after, moves
<1> QED
  BY <1>1, <1>2, <1>3, <1>4, <1>5 DEF Coherent, after

LEMMA ResignCoherent ==
  ASSUME NEW g \in Game, Coherent(g), CanResign(g)
  PROVE  Coherent(Resign(g, g.playerColor))
<1> DEFINE after == Resign(g, g.playerColor)
<1>1. g.playerColor \in Colors /\ g.status = "ongoing"
  BY DEF Game, CanResign
<1>2. /\ after.moves = g.moves /\ after.ply = g.ply /\ after.status = "finished"
      /\ after.playerColor = g.playerColor
  BY <1>1, ResignType
<1>3. /\ after.termination = "resignation"
      /\ after.result = WinOf(OtherColor(g.playerColor))
  BY <1>1 DEF Resign, Game, WinOf, OtherColor, Colors
<1> HIDE DEF after
<1> QED
  BY <1>1, <1>2, <1>3 DEF Coherent, after

-----------------------------------------------------------------------------
(***************************************************************************)
(* A conditional write, however it returns, keeps the games.               *)
(***************************************************************************)
LEMMA WriteKeeps ==
  ASSUME LiveTypeOK, UNCHANGED issued,
         NEW id \in GameIds, NEW g \in Game, NEW prev \in Nat,
         SameGame(id, g), Coherent(g),
         g.ply = prev + 1 \/ (g.ply = prev /\ g.status = "finished"),
         \/ WriteOk(id, g, prev)
         \/ WriteConflict(id, g, prev)
         \/ WriteError(id, g, prev)
  PROVE  Keeps
<1>1. CASE UNCHANGED live
  BY <1>1 DEF Keeps, KeepsGame
<1>2. CASE CasApplies(id, g, prev)
  <2>1. /\ Exists(id) /\ live[id].ply = prev
        /\ live' = [live EXCEPT ![id] = g]
        /\ live'[id] = g /\ \A k \in GameIds \ {id} : live'[k] = live[k]
    BY <1>2 DEF CasApplies, CasAccepts, LiveTypeOK
  <2> QED
    BY <2>1 DEF Keeps, KeepsGame, SameGame
<1> QED
  BY <1>1, <1>2 DEF WriteOk, WriteConflict, WriteError

LEMMA QueueUntouched ==
  ASSUME QueueTypeOK, UNCHANGED queueVars
  PROVE  QueueKeeps
BY DEF QueueTypeOK, queueVars, QueueKeeps, OldMessage

LEMMA LiveUntouched ==
  ASSUME UNCHANGED <<live, issued>>
  PROVE  Keeps
BY DEF Keeps, KeepsGame

(***************************************************************************)
(* The queue's own steps, and a worker's receipts and acknowledgements.    *)
(***************************************************************************)
LEMMA QueueStepKeeps ==
  ASSUME QueueTypeOK,
         \/ \E batch : Receive(batch)
         \/ \E d : Delete(d)
         \/ DeleteFails
         \/ \E m : VisibilityEnds(m)
         \/ \E m : Redrive(m)
  PROVE  QueueKeeps
<1>1. sent \in Nat
  BY DEF QueueTypeOK
<1>2. CASE \E batch : Receive(batch)
  <2>1. PICK batch : Receive(batch)
    BY <1>2
  <2>2. \A m \in batch : m \in queue /\ Deliver(m).id = m.id /\ Deliver(m).job = m.job
    BY <2>1 DEF Receive, Receivable, Deliver, QueueTypeOK, Message
  <2>3. sent' = sent /\ queue' = (queue \ batch) \cup {Deliver(m) : m \in batch}
    BY <2>1 DEF Receive
  <2> QED
    BY <1>1, <2>2, <2>3 DEF QueueKeeps, OldMessage
<1>3. CASE \E m : VisibilityEnds(m)
  <2>1. PICK m : VisibilityEnds(m)
    BY <1>3
  <2> DEFINE again == [m EXCEPT !.visible = TRUE]
  <2>2. m \in queue /\ again.id = m.id /\ again.job = m.job
    BY <2>1 DEF VisibilityEnds, QueueTypeOK, Message
  <2>3. sent' = sent /\ queue' = (queue \ {m}) \cup {again}
    BY <2>1 DEF VisibilityEnds
  <2> HIDE DEF again
  <2> QED
    BY <1>1, <2>2, <2>3 DEF QueueKeeps, OldMessage
<1>4. CASE (\E d : Delete(d)) \/ DeleteFails \/ \E m : Redrive(m)
  <2>1. sent' = sent /\ queue' \subseteq queue
    BY <1>4 DEF Delete, DeleteFails, Redrive, queueVars
  <2> QED
    BY <1>1, <2>1 DEF QueueKeeps, OldMessage
<1> QED
  BY <1>2, <1>3, <1>4

LEMMA EnqueueKeeps ==
  ASSUME QueueTypeOK, NEW job \in Job, JobFits(job),
         \A m \in queue : Identified(m),
         Enqueue(job) \/ EnqueueTwice(job) \/ EnqueueFails
  PROVE  QueueKeeps
<1>1. sent \in Nat /\ \A m \in queue : m.id \in Nat /\ m.id < sent
  BY DEF QueueTypeOK, Message, Identified
<1>2. CASE EnqueueFails
  BY <1>2, QueueUntouched DEF EnqueueFails
<1>3. CASE Enqueue(job) \/ EnqueueTwice(job)
  <2>1. \A n : Fresh(n, job).id = n /\ Fresh(n, job).job = job
    BY DEF Fresh
  <2>2. sent <= sent'
    BY <1>1, <1>3 DEF Enqueue, EnqueueTwice
  <2>3. \A n \in queue' : n \in queue \/ (sent <= n.id /\ n.id < sent' /\ n.job = job)
    <3> DEFINE first == Fresh(sent, job)
               second == Fresh(sent + 1, job)
    <3>0. /\ first.id = sent /\ first.job = job
          /\ second.id = sent + 1 /\ second.job = job
      BY <2>1
    <3>1. CASE Enqueue(job)
      <4>1. queue' = queue \cup {first} /\ sent' = sent + 1
        BY <3>1 DEF Enqueue
      <4> HIDE DEF first, second
      <4> QED
        BY <1>1, <3>0, <4>1
    <3>2. CASE EnqueueTwice(job)
      <4>1. queue' = queue \cup {first, second} /\ sent' = sent + 2
        BY <3>2 DEF EnqueueTwice
      <4> HIDE DEF first, second
      <4> QED
        BY <1>1, <3>0, <4>1
    <3> QED
      BY <1>3, <3>1, <3>2
  <2> QED
    BY <1>1, <2>2, <2>3 DEF QueueKeeps, OldMessage, NewMessage
<1> QED
  BY <1>2, <1>3

-----------------------------------------------------------------------------
(***************************************************************************)
(* The handlers.  A record a handler takes on fits, if not in the old      *)
(* state then in the new one.                                              *)
(***************************************************************************)
NewHandlers ==
  \A h \in Handlers : \A r \in {api'[h]} :
    r.pc # "idle" => HandlerFits(r) \/ HandlerFits(r)'

ApiFits == Keeps /\ QueueKeeps /\ NewHandlers

LEMMA KnownHandler ==
  ASSUME TypeOK, JobsFit, NEW h \in Handlers, api[h].pc # "idle"
  PROVE  api[h] \in BusyHandler /\ HandlerFits(api[h])
BY HandlerBusy DEF TypeOK, JobsFit

LEMMA OneHandler ==
  ASSUME TypeOK, JobsFit, NEW h \in Handlers, NEW t,
         api' = [api EXCEPT ![h] = t],
         t.pc # "idle" => HandlerFits(t) \/ HandlerFits(t)'
  PROVE  NewHandlers
<1> SUFFICES ASSUME NEW k \in Handlers, NEW r \in {api'[k]}, r.pc # "idle"
             PROVE  HandlerFits(r) \/ HandlerFits(r)'
  BY DEF NewHandlers
<1>1. CASE k = h
  <2>1. r = t
    BY <1>1 DEF TypeOK, ApiTypeOK
  <2> QED
    BY <2>1
<1>2. CASE k # h
  <2>1. r \in {api[k]}
    BY <1>2 DEF TypeOK, ApiTypeOK
  <2> QED
    BY <2>1 DEF JobsFit
<1> QED
  BY <1>1, <1>2

LEMMA FinishFits ==
  ASSUME TypeOK, JobsFit, NEW h \in Handlers, Finish(h)
  PROVE  NewHandlers
BY OneHandler DEF Finish, IdleHandler

LEMMA CreateFits ==
  ASSUME TypeOK, CopiesFit, JobsFit, NEW h \in Handlers, NEW id \in GameIds,
         NEW color \in Colors, HandleCreate(h, id, color)
  PROVE  ApiFits
<1> DEFINE g == NewGame(color)
           created == [pc |-> "enqueue", id |-> id, g |-> g, prev |-> 0]
<1>1. /\ LiveTypeOK /\ QueueTypeOK /\ id \notin issued
      /\ issued' = issued \cup {id} /\ UNCHANGED queueVars
  BY DEF TypeOK, HandleCreate
<1>2. g \in Game /\ Coherent(g) /\ g.playerColor = color /\ g.ply = 0
  BY NewGameType, NewGameCoherent DEF NewGame
<1>3. UNCHANGED live \/ (live' = [live EXCEPT ![id] = g])
  BY DEF HandleCreate, WriteOk, WriteConflict, WriteError, CasApplies
<1> HIDE DEF g
<1>4. Keeps
  BY <1>1, <1>2, <1>3 DEF Keeps, KeepsGame, LiveTypeOK
<1>5. QueueKeeps
  BY <1>1, QueueUntouched
<1>6. NewHandlers
  <2>1. CASE UNCHANGED api
    BY <2>1 DEF NewHandlers, JobsFit
  <2>2. CASE /\ color = "black" /\ live' = [live EXCEPT ![id] = g]
             /\ api' = [api EXCEPT ![h] = created]
    <3>1. live'[id] = g /\ id \in issued'
      BY <1>1, <2>2 DEF LiveTypeOK
    <3>2. PICK t : t = created
      OBVIOUS
    <3>3. t.pc = "enqueue" /\ t.id = id /\ t.g = g
      BY <3>2
    <3>4. Side(0) = EngineColor(g)
      BY <1>2, <2>2 DEF Side, EngineColor, OtherColor
    <3>5. SameGame(t.id, t.g)' /\ Reached(t.id, t.g)'
      BY <1>2, <3>1, <3>3 DEF SameGame, Reached
    <3>6. HandlerFits(t)'
      BY <1>2, <3>3, <3>4, <3>5 DEF HandlerFits, Coherent, NoMoveAfterEnd
    <3> QED
      BY <2>2, <3>2, <3>6, OneHandler
  <2>3. CASE api' = [api EXCEPT ![h] = IdleHandler]
    BY <2>3, FinishFits DEF Finish
  <2> QED
    BY <2>1, <2>2, <2>3 DEF HandleCreate, WriteOk, CasApplies, g
<1> QED
  BY <1>4, <1>5, <1>6 DEF ApiFits

(***************************************************************************)
(* A request that has made its copy.                                       *)
(***************************************************************************)
LEMMA RequestFits ==
  ASSUME TypeOK, JobsFit, NEW h \in Handlers, NEW id \in GameIds, Exists(id),
         id \in issued, NEW g \in Game, StartUpdate(h, id, g),
         UNCHANGED <<live, issued, queueVars>>,
         Coherent(g), g.playerColor = live[id].playerColor,
         \/ g.ply = live[id].ply /\ g.status = "finished"
         \/ g.ply = live[id].ply + 1 /\ Side(live[id].ply) = g.playerColor
  PROVE  ApiFits
<1>1. PICK t : t = [pc |-> "update", id |-> id, g |-> g, prev |-> live[id].ply]
  OBVIOUS
<1>2. t.pc = "update" /\ t.id = id /\ t.g = g /\ t.prev = live[id].ply
  BY <1>1
<1>3. HandlerFits(t)
  BY <1>2 DEF HandlerFits, SameGame
<1>4. NewHandlers
  BY <1>1, <1>3, OneHandler DEF StartUpdate
<1> QED
  BY <1>4, LiveUntouched, QueueUntouched DEF ApiFits, TypeOK

LEMMA MoveRequestFits ==
  ASSUME TypeOK, CopiesFit, JobsFit, NEW h \in Handlers, NEW id \in GameIds,
         NEW uci \in Moves, HandleMove(h, id, uci)
  PROVE  ApiFits
<1> DEFINE g == ApplyMove(live[id], uci)
<1>1. /\ Exists(id) /\ live[id] \in Game /\ id \in issued /\ Coherent(live[id])
      /\ CanApplyMove(live[id], live[id].playerColor, uci)
  BY StoredGame DEF HandleMove, TypeOK, CopiesFit, StoredOK, JobsFit, RecordsCoherent
<1>2. g \in Game /\ Coherent(g) /\ g.playerColor = live[id].playerColor
      /\ g.ply = Len(live[id].moves) + 1
  BY <1>1, ApplyMoveType, MoveCoherent
<1>3. live[id].ply = Len(live[id].moves) /\ Side(live[id].ply) = live[id].playerColor
  BY <1>1 DEF Coherent, CanApplyMove, Turn, Side
<1>4. StartUpdate(h, id, g) /\ UNCHANGED <<live, issued, queueVars>>
  BY DEF HandleMove
<1> HIDE DEF g
<1> QED
  BY <1>1, <1>2, <1>3, <1>4, RequestFits

LEMMA ResignRequestFits ==
  ASSUME TypeOK, CopiesFit, JobsFit, NEW h \in Handlers, NEW id \in GameIds,
         HandleResign(h, id)
  PROVE  ApiFits
<1> DEFINE g == Resign(live[id], live[id].playerColor)
<1>1. /\ Exists(id) /\ live[id] \in Game /\ id \in issued /\ Coherent(live[id])
      /\ CanResign(live[id]) /\ live[id].playerColor \in Colors
  BY StoredGame DEF HandleResign, TypeOK, CopiesFit, StoredOK, JobsFit,
                    RecordsCoherent, Game
<1>2. g \in Game /\ Coherent(g) /\ g.playerColor = live[id].playerColor
      /\ g.ply = live[id].ply /\ g.status = "finished"
  BY <1>1, ResignType, ResignCoherent
<1>3. StartUpdate(h, id, g) /\ UNCHANGED <<live, issued, queueVars>>
  BY DEF HandleResign
<1> HIDE DEF g
<1> QED
  BY <1>1, <1>2, <1>3, RequestFits

(***************************************************************************)
(* The record of a handler that goes on to the next point of its code.     *)
(***************************************************************************)
LEMMA GotoRecord ==
  ASSUME TypeOK, NEW h \in Handlers, api[h] \in BusyHandler,
         NEW pc \in {"publish", "archive", "enqueue"}, Goto(h, pc)
  PROVE  \E t \in BusyHandler :
           /\ api' = [api EXCEPT ![h] = t]
           /\ t.pc = pc /\ t.id = api[h].id /\ t.g = api[h].g
<1> DEFINE t == [api[h] EXCEPT !.pc = pc]
<1>1. t \in BusyHandler /\ t.pc = pc /\ t.id = api[h].id /\ t.g = api[h].g
  BY DEF BusyHandler
<1>2. api' = [api EXCEPT ![h] = t]
  BY DEF Goto
<1> HIDE DEF t
<1> QED
  BY <1>1, <1>2

LEMMA UpdateFits ==
  ASSUME TypeOK, JobsFit, NEW h \in Handlers, Update(h)
  PROVE  ApiFits
<1>1. api[h] \in BusyHandler /\ HandlerFits(api[h]) /\ api[h].pc = "update"
  BY KnownHandler DEF Update
<1>2. PICK r \in BusyHandler : r = api[h]
  BY <1>1
<1>3. /\ r.id \in GameIds /\ r.g \in Game /\ r.g.ply \in Nat /\ r.prev \in Nat
      /\ SameGame(r.id, r.g) /\ Coherent(r.g)
      /\ r.g.ply = r.prev + 1 \/ (r.g.ply = r.prev /\ r.g.status = "finished")
  <2>1. HandlerFits(r) /\ r.pc = "update"
    BY <1>1, <1>2
  <2>2. r.id \in GameIds /\ r.g \in Game /\ r.prev \in Nat
    BY DEF BusyHandler
  <2> QED
    BY <2>1, <2>2 DEF HandlerFits, Game
<1>4. LiveTypeOK /\ QueueTypeOK /\ UNCHANGED issued /\ UNCHANGED queueVars
  BY DEF TypeOK, Update
<1>5. /\ \/ WriteOk(r.id, r.g, r.prev)
         \/ WriteConflict(r.id, r.g, r.prev)
         \/ WriteError(r.id, r.g, r.prev)
      /\ Finish(h) \/ (WriteOk(r.id, r.g, r.prev) /\ Goto(h, "publish"))
  BY <1>2 DEF Update
<1>6. Keeps
  BY <1>3, <1>4, <1>5, WriteKeeps
<1>7. NewHandlers
  <2>1. CASE Finish(h)
    BY <2>1, FinishFits
  <2>2. CASE WriteOk(r.id, r.g, r.prev) /\ Goto(h, "publish")
    <3>1. PICK t \in BusyHandler :
            /\ api' = [api EXCEPT ![h] = t]
            /\ t.pc = "publish" /\ t.id = r.id /\ t.g = r.g
      BY <1>1, <1>2, <2>2, GotoRecord
    <3>2. live'[r.id] = r.g
      BY <1>3, <1>4, <2>2 DEF WriteOk, CasApplies, LiveTypeOK
    <3>3. SameGame(t.id, t.g)' /\ Reached(t.id, t.g)'
      BY <1>3, <1>4, <3>1, <3>2 DEF SameGame, Reached
    <3>4. HandlerFits(t)'
      BY <1>3, <3>1, <3>3 DEF HandlerFits, Coherent, NoMoveAfterEnd
    <3> QED
      BY <3>1, <3>4, OneHandler
  <2> QED
    BY <1>5, <2>1, <2>2
<1> QED
  BY <1>4, <1>6, <1>7, QueueUntouched DEF ApiFits

LEMMA AfterUpdateFits ==
  ASSUME TypeOK, JobsFit, NEW h \in Handlers,
         PublishState(h) \/ ArchiveGame(h) \/ EnqueueJob(h) \/ CrashApi(h)
  PROVE  ApiFits
<1>1. api[h] \in BusyHandler /\ HandlerFits(api[h])
  BY KnownHandler DEF PublishState, ArchiveGame, EnqueueJob, CrashApi
<1>2. PICK r \in BusyHandler : r = api[h]
  BY <1>1
<1>3. HandlerFits(r) /\ QueueTypeOK
  BY <1>1, <1>2 DEF TypeOK
<1>4. Keeps
  BY LiveUntouched DEF PublishState, ArchiveGame, EnqueueJob, CrashApi
<1>5. QueueKeeps
  <2>1. CASE UNCHANGED queueVars
    BY <1>3, <2>1, QueueUntouched
  <2>2. CASE EnqueueJob(h)
    <3> DEFINE job == JobOf(r.id, r.g)
    <3>1. r.pc = "enqueue" /\ (Enqueue(job) \/ EnqueueTwice(job) \/ EnqueueFails)
      BY <1>2, <2>2 DEF EnqueueJob
    <3>2. job \in Job /\ job.game = r.id /\ job.ply = r.g.ply
      BY DEF JobOf, Job, BusyHandler, Game
    <3>3. JobFits(job)
      BY <1>3, <3>1, <3>2
         DEF HandlerFits, SameGame, Reached, JobFits, EngineColor
    <3>4. \A m \in queue : Identified(m)
      BY DEF JobsFit
    <3> HIDE DEF job
    <3> QED
      BY <1>3, <3>1, <3>2, <3>3, <3>4, EnqueueKeeps
  <2> QED
    BY <2>1, <2>2 DEF PublishState, ArchiveGame, CrashApi
<1>6. NewHandlers
  <2>1. CASE Finish(h)
    BY <2>1, FinishFits
  <2>2. CASE PublishState(h) /\ ~Finish(h)
    <3>1. /\ r.pc = "publish" /\ AfterPublish(r.g) \in {"archive", "enqueue"}
          /\ Goto(h, AfterPublish(r.g))
      BY <1>2, <2>2 DEF PublishState, AfterPublish
    <3>2. PICK t \in BusyHandler :
            /\ api' = [api EXCEPT ![h] = t]
            /\ t.pc = AfterPublish(r.g) /\ t.id = r.id /\ t.g = r.g
      BY <1>1, <1>2, <3>1, GotoRecord
    <3>3. /\ t.pc = "enqueue" => Side(r.g.ply) = EngineColor(r.g)
          /\ t.pc = "archive" => r.g.status = "finished"
      BY <1>3, <3>2 DEF AfterPublish, HandlerFits, Coherent, Turn, Side
    <3>4. HandlerFits(t)
      BY <1>3, <3>1, <3>2, <3>3 DEF HandlerFits
    <3> QED
      BY <3>2, <3>4, OneHandler
  <2> QED
    BY <2>1, <2>2 DEF PublishState, ArchiveGame, EnqueueJob, CrashApi
<1> QED
  BY <1>4, <1>5, <1>6 DEF ApiFits

-----------------------------------------------------------------------------
(***************************************************************************)
(* The workers, in the same way.                                           *)
(***************************************************************************)
NewWorkers ==
  \A w \in Workers : \A r \in {wrk'[w]} : WorkerFits(r) \/ WorkerFits(r)'

WorkFits == Keeps /\ QueueKeeps /\ NewWorkers

LEMMA OneWorker ==
  ASSUME TypeOK, JobsFit, NEW w \in Workers, NEW t,
         wrk' = [wrk EXCEPT ![w] = t], WorkerFits(t) \/ WorkerFits(t)'
  PROVE  NewWorkers
<1> SUFFICES ASSUME NEW k \in Workers, NEW r \in {wrk'[k]}
             PROVE  WorkerFits(r) \/ WorkerFits(r)'
  BY DEF NewWorkers
<1>1. CASE k = w
  <2>1. r = t
    BY <1>1 DEF TypeOK, WorkerTypeOK
  <2> QED
    BY <2>1
<1>2. CASE k # w
  <2>1. r \in {wrk[k]}
    BY <1>2 DEF TypeOK, WorkerTypeOK
  <2> QED
    BY <2>1 DEF JobsFit
<1> QED
  BY <1>1, <1>2

(***************************************************************************)
(* A worker that drops what it is at keeps only messages of its batch.     *)
(***************************************************************************)
LEMMA ResumeFits ==
  ASSUME TypeOK, JobsFit, NEW w \in Workers,
         NEW batch, \A d \in batch : JobFits(d.job) /\ Identified(d),
         wrk' = [wrk EXCEPT ![w] = Resume(batch)]
  PROVE  NewWorkers
<1>1. WorkerFits(Resume(batch))
  BY DEF WorkerFits, Resume
<1> QED
  BY <1>1, OneWorker

(***************************************************************************)
(* The record of a worker that goes on to acknowledge d.                   *)
(***************************************************************************)
LEMMA AckingFits ==
  ASSUME TypeOK, JobsFit, NEW w \in Workers, NEW d \in wrk[w].batch,
         Settled(d.job),
         wrk' = [wrk EXCEPT ![w] = [Resume(@.batch \ {d}) EXCEPT
                                      !.pc = "ack", !.cur = d]]
  PROVE  NewWorkers
<1>1. PICK t : t = [Resume(wrk[w].batch \ {d}) EXCEPT !.pc = "ack", !.cur = d]
  OBVIOUS
<1>2. t.pc = "ack" /\ t.cur = d /\ t.batch \subseteq wrk[w].batch
  BY <1>1 DEF Resume
<1>3. \A e \in wrk[w].batch : JobFits(e.job) /\ Identified(e)
  BY DEF JobsFit, WorkerFits
<1>4. WorkerFits(t)
  BY <1>2, <1>3 DEF WorkerFits
<1> QED
  BY <1>1, <1>4, OneWorker

LEMMA TakeFits ==
  ASSUME TypeOK, CopiesFit, JobsFit, NEW w \in Workers, NEW d \in wrk[w].batch,
         \/ DropStaleJob(w, d)
         \/ \E uci \in Moves : ChooseMove(w, d, uci)
         \/ FailJob(w, d),
         UNCHANGED issued
  PROVE  WorkFits
<1> DEFINE id == d.job.game
<1>1. /\ JobFits(d.job) /\ d \in Message /\ id \in GameIds /\ d.job.ply \in Nat
      /\ \A e \in wrk[w].batch : JobFits(e.job) /\ Identified(e)
  BY WorkerKinds DEF TypeOK, JobsFit, WorkerFits, Message, Job
<1>2. Keeps /\ QueueKeeps
  BY LiveUntouched, QueueUntouched DEF TypeOK, DropStaleJob, ChooseMove, FailJob
<1>3. Exists(id) => live[id] \in Game /\ Coherent(live[id]) /\ id \in issued
  BY <1>1, StoredGame DEF TypeOK, JobsFit, RecordsCoherent, CopiesFit, StoredOK
<1>4. CASE DropStaleJob(w, d)
  <2>1. Settled(d.job)
    <3> SUFFICES ASSUME Exists(id)
                 PROVE  live[id].ply > d.job.ply \/ live[id].status = "finished"
      BY DEF Settled
    <3>1. Stale(live[id], d.job) /\ live[id] \in Game /\ Coherent(live[id])
      BY <1>3, <1>4 DEF DropStaleJob
    <3>2. /\ live[id].ply \in Nat /\ live[id].status \in {"ongoing", "finished"}
          /\ Turn(live[id]) = Side(live[id].ply)
      BY <3>1 DEF Game, Coherent, Turn, Side
    <3> QED
      BY <1>1, <3>1, <3>2 DEF Stale, JobFits
  <2> QED
    BY <1>2, <1>4, <2>1, AckingFits DEF WorkFits, DropStaleJob
<1>5. CASE FailJob(w, d)
  <2> DEFINE rest == wrk[w].batch \ {d}
  <2>1. wrk' = [wrk EXCEPT ![w] = Resume(rest)]
    BY <1>5 DEF FailJob
  <2>2. \A e \in rest : JobFits(e.job) /\ Identified(e)
    BY <1>1
  <2> HIDE DEF rest
  <2> QED
    BY <1>2, <2>1, <2>2, ResumeFits DEF WorkFits
<1>6. ASSUME NEW uci \in Moves, ChooseMove(w, d, uci)
      PROVE  WorkFits
  <2>1. /\ Exists(id) /\ live[id].ply = d.job.ply
        /\ CanApplyMove(live[id], EngineColor(live[id]), uci)
    BY <1>6 DEF ChooseMove, Stale
  <2> DEFINE g == ApplyMove(live[id], uci)
  <2>2. /\ g \in Game /\ Coherent(g) /\ g.playerColor = live[id].playerColor
        /\ g.ply = Len(live[id].moves) + 1
    BY <1>3, <2>1, ApplyMoveType, MoveCoherent
  <2>0. live[id].ply = Len(live[id].moves)
    BY <1>3, <2>1 DEF Coherent
  <2>3. PICK t : t = [pc |-> "update", batch |-> wrk[w].batch \ {d}, cur |-> d,
                      g |-> g, prev |-> live[id].ply]
    OBVIOUS
  <2>4. wrk' = [wrk EXCEPT ![w] = t]
    BY <1>6, <2>3 DEF ChooseMove
  <2> HIDE DEF g
  <2>5. /\ t.pc = "update" /\ t.batch = wrk[w].batch \ {d} /\ t.cur = d
        /\ t.g = g /\ t.prev = live[id].ply
    BY <2>3
  <2>6. SameGame(id, g)
    BY <1>3, <2>1, <2>2 DEF SameGame
  <2>7. WorkerFits(t)
    BY <1>1, <2>0, <2>1, <2>2, <2>5, <2>6 DEF WorkerFits
  <2> QED
    BY <1>2, <2>4, <2>7, OneWorker DEF WorkFits
<1> QED
  BY <1>4, <1>5, <1>6

LEMMA PollFits ==
  ASSUME TypeOK, JobsFit, NEW w \in Workers, Poll(w), UNCHANGED issued
  PROVE  WorkFits
<1>1. PICK batch \in SUBSET Receivable :
        /\ Receive(batch)
        /\ wrk' = [wrk EXCEPT ![w] = Resume({Deliver(m) : m \in batch})]
  BY DEF Poll
<1>2. \A m \in batch : JobFits(Deliver(m).job) /\ Identified(Deliver(m))
  <2> SUFFICES ASSUME NEW m \in batch
               PROVE  JobFits(Deliver(m).job) /\ Identified(Deliver(m))
    OBVIOUS
  <2>1. m \in queue /\ Deliver(m).id = m.id /\ Deliver(m).job = m.job
    BY DEF Receivable, Deliver, TypeOK, QueueTypeOK, Message
  <2>2. JobFits(m.job) /\ Identified(m)
    BY <2>1 DEF JobsFit
  <2> QED
    BY <2>1, <2>2 DEF Identified
<1>3. NewWorkers
  BY <1>1, <1>2, ResumeFits
<1> QED
  BY <1>1, <1>3, LiveUntouched, QueueStepKeeps DEF WorkFits, Poll, TypeOK

LEMMA WriteFits ==
  ASSUME TypeOK, CopiesFit, JobsFit, NEW w \in Workers, WriteMove(w),
         UNCHANGED issued, TypeOK'
  PROVE  WorkFits
<1>1. PICK r : r = wrk[w]
  OBVIOUS
<1>2. /\ r.pc = "update" /\ r \in Working /\ WorkerFits(r)
      /\ Fits(r.cur.job.game, r.g, r.prev)
  BY <1>1, WorkerKinds DEF WriteMove, TypeOK, JobsFit, CopiesFit
<1> DEFINE job == r.cur.job
           id == r.cur.job.game
<1>3. /\ r.g \in Game /\ r.prev \in Nat /\ job \in Job /\ id \in GameIds
      /\ r.g.ply \in Nat /\ job.ply \in Nat
  BY <1>2 DEF Working, Message, Job, Game
<1>4. /\ SameGame(id, r.g) /\ Coherent(r.g) /\ r.g.ply = r.prev + 1
      /\ job.ply = r.prev /\ JobFits(job) /\ Identified(r.cur)
      /\ \A d \in r.batch : JobFits(d.job) /\ Identified(d)
  BY <1>2 DEF WorkerFits
<1>5. LiveTypeOK /\ LiveTypeOK' /\ QueueTypeOK /\ QueueTypeOK' /\ UNCHANGED queueVars
  BY DEF TypeOK, WriteMove
<1>6. \/ WriteOk(id, r.g, r.prev) /\ WGoto(w, "publish")
      \/ WriteConflict(id, r.g, r.prev) /\ WGoto(w, "ack")
      \/ WriteError(id, r.g, r.prev) /\ DropCurrent(w)
  BY <1>1 DEF WriteMove
<1>7. Keeps /\ QueueKeeps
  BY <1>3, <1>4, <1>5, <1>6, WriteKeeps, QueueUntouched
<1>8. CASE DropCurrent(w)
  BY <1>1, <1>4, <1>7, <1>8, ResumeFits DEF WorkFits, DropCurrent
<1>9. ASSUME NEW pc \in {"publish", "ack"}, WGoto(w, pc), Settled(job)'
      PROVE  WorkFits
  <2> DEFINE t == [r EXCEPT !.pc = pc]
  <2>1. /\ wrk' = [wrk EXCEPT ![w] = t]
        /\ t.pc = pc /\ t.batch = r.batch /\ t.cur = r.cur /\ t.g = r.g
        /\ t.cur \in Message /\ \A d \in t.batch : d \in Message /\ d.job \in Job
    BY <1>1, <1>2, <1>9 DEF WGoto, Working, Message
  <2> HIDE DEF t
  <2>2. PICK u : u = t
    OBVIOUS
  <2>3. \A d \in u.batch : JobFits(d.job)' /\ Identified(d)'
    BY <1>4, <1>5, <1>7, <2>1, <2>2, JobFitsStable, IdentifiedStable
  <2>4. JobFits(u.cur.job)' /\ Identified(u.cur)' /\ Settled(u.cur.job)'
    BY <1>3, <1>4, <1>5, <1>7, <1>9, <2>1, <2>2, JobFitsStable, IdentifiedStable
  <2>5. WorkerFits(u)'
    BY <1>4, <2>1, <2>2, <2>3, <2>4 DEF WorkerFits, Coherent, NoMoveAfterEnd
  <2> QED
    BY <1>7, <2>1, <2>2, <2>5, OneWorker DEF WorkFits
<1>10. ASSUME CasApplies(id, r.g, r.prev) PROVE Settled(job)'
  <2>1. live'[id] = r.g
    BY <1>3, <1>5, <1>10 DEF CasApplies, LiveTypeOK
  <2> QED
    BY <1>3, <1>4, <2>1 DEF Settled
<1>11. ASSUME ~CasAccepts(id, r.prev), UNCHANGED live PROVE Settled(job)'
  <2>1. ASSUME Exists(id) PROVE live[id].ply > job.ply
    <3>1. live[id] \in Game
      BY <1>3, <1>5, <2>1, StoredGame
    <3>2. live[id].ply \in Nat
      BY <3>1 DEF Game
    <3>3. r.prev <= live[id].ply
      BY <1>2, <2>1 DEF Fits
    <3>4. live[id].ply # r.prev
      BY <1>3, <1>11, <2>1 DEF CasAccepts
    <3> QED
      BY <1>3, <1>4, <3>2, <3>3, <3>4
  <2> QED
    BY <1>11, <2>1 DEF Settled, Exists
<1> QED
  BY <1>6, <1>8, <1>9, <1>10, <1>11 DEF WriteOk, WriteConflict

LEMMA AfterWriteFits ==
  ASSUME TypeOK, JobsFit, NEW w \in Workers,
         PublishMove(w) \/ ArchiveMove(w) \/ Ack(w) \/ CrashWorker(w),
         UNCHANGED issued
  PROVE  WorkFits
<1>1. PICK r : r = wrk[w]
  OBVIOUS
<1>2. WorkerFits(r) /\ QueueTypeOK
  BY <1>1 DEF JobsFit, TypeOK
<1>3. Keeps
  BY LiveUntouched DEF PublishMove, ArchiveMove, Ack, CrashWorker
<1>4. QueueKeeps
  BY <1>2, QueueUntouched, QueueStepKeeps DEF PublishMove, ArchiveMove, Ack, CrashWorker
<1>5. CASE Ack(w) \/ CrashWorker(w)
  <2>1. \A d \in r.batch : JobFits(d.job) /\ Identified(d)
    BY <1>2 DEF WorkerFits
  <2>2. CASE Ack(w)
    BY <1>1, <2>1, <2>2, <1>3, <1>4, ResumeFits DEF Ack, DropCurrent, WorkFits
  <2>3. CASE CrashWorker(w)
    <3>1. PICK none : none = {}
      OBVIOUS
    <3>2. wrk' = [wrk EXCEPT ![w] = Resume(none)]
      BY <2>3, <3>1 DEF CrashWorker
    <3>3. \A d \in none : JobFits(d.job) /\ Identified(d)
      BY <3>1
    <3>4. NewWorkers
      BY <3>2, <3>3, ResumeFits
    <3> QED
      BY <1>3, <1>4, <3>4 DEF WorkFits
  <2> QED
    BY <1>5, <2>2, <2>3
<1>6. CASE PublishMove(w) \/ ArchiveMove(w)
  <2>1. r \in Working /\ r.pc \in {"publish", "archive"}
    BY <1>1, <1>6, WorkerKinds DEF PublishMove, ArchiveMove, TypeOK
  <2>2. PICK pc \in {"archive", "ack"} :
          WGoto(w, pc) /\ (pc = "archive" => r.g.status = "finished")
    BY <1>1, <1>6 DEF PublishMove, ArchiveMove
  <2>3. PICK t : t = [r EXCEPT !.pc = pc]
    OBVIOUS
  <2>4. t.pc = pc /\ t.batch = r.batch /\ t.cur = r.cur /\ t.g = r.g
    BY <2>1, <2>3 DEF Working
  <2>5. wrk' = [wrk EXCEPT ![w] = t]
    BY <1>1, <2>2, <2>3 DEF WGoto
  <2>6. WorkerFits(t)
    BY <1>2, <2>1, <2>2, <2>4 DEF WorkerFits
  <2> QED
    BY <1>3, <1>4, <2>5, <2>6, OneWorker DEF WorkFits
<1> QED
  BY <1>5, <1>6

-----------------------------------------------------------------------------
(***************************************************************************)
(* Every step of the system, together.                                     *)
(***************************************************************************)
LEMMA StepFits ==
  ASSUME TypeOK, CopiesFit, JobsFit, [Next]_vars
  PROVE  Keeps /\ QueueKeeps /\ NewHandlers /\ NewWorkers
<1>1. TypeOK' /\ QueueTypeOK /\ LiveTypeOK
  BY TypeStep DEF TypeOK
<1>2. UNCHANGED api => NewHandlers
  BY DEF NewHandlers, JobsFit
<1>3. UNCHANGED wrk => NewWorkers
  BY DEF NewWorkers, JobsFit
<1>4. CASE ApiStep
  <2>1. ApiFits
    BY <1>4, CreateFits, MoveRequestFits, ResignRequestFits, UpdateFits, AfterUpdateFits
       DEF ApiStep, ApiNext, Request, Serve
  <2> QED
    BY <1>3, <1>4, <2>1 DEF ApiStep, ApiFits
<1>5. CASE WorkerStep
  <2>1. WorkFits
    BY <1>1, <1>5, PollFits, TakeFits, WriteFits, AfterWriteFits
       DEF WorkerStep, WorkerNext, Process
  <2> QED
    BY <1>2, <1>5, <2>1 DEF WorkerStep, WorkFits
<1>6. CASE QueueStep
  BY <1>1, <1>2, <1>3, <1>6, LiveUntouched, QueueStepKeeps
     DEF QueueStep, VisibilityTimeout, DeadLetter
<1>7. CASE \E id \in GameIds : Expire(id)
  <2>1. Keeps
    BY <1>1, <1>7 DEF Expire, ExpireKey, Keeps, KeepsGame, LiveTypeOK, Exists
  <2> QED
    BY <1>1, <1>2, <1>3, <1>7, <2>1, QueueUntouched DEF Expire
<1>8. CASE (\E c \in Watchers : Relay(c) \/ Browser(c)) \/ UNCHANGED vars
  BY <1>1, <1>2, <1>3, <1>8, LiveUntouched, QueueUntouched
     DEF Relay, Browser, vars, queueVars
<1> QED
  BY <1>4, <1>5, <1>6, <1>7, <1>8 DEF Next

LEMMA JobsFitStep ==
  ASSUME TypeOK, CopiesFit, JobsFit, [Next]_vars
  PROVE  JobsFit'
<1>1. Keeps /\ QueueKeeps /\ NewHandlers /\ NewWorkers
  BY StepFits
<1>2. TypeOK' /\ LiveTypeOK /\ LiveTypeOK' /\ QueueTypeOK /\ QueueTypeOK'
  BY TypeStep DEF TypeOK
<1>3. RecordsCoherent'
  BY <1>1 DEF Keeps, KeepsGame, RecordsCoherent, Exists, JobsFit
<1>4. ASSUME NEW n \in queue' PROVE JobFits(n.job)' /\ Identified(n)'
  <2>1. n \in Message /\ n.job \in Job /\ n.id \in Nat /\ sent \in Nat /\ sent' \in Nat
    BY <1>2, <1>4 DEF QueueTypeOK, Message
  <2>2. CASE OldMessage(n)
    <3>1. JobFits(n.job) /\ Identified(n)
      BY <2>2 DEF OldMessage, JobsFit, Identified
    <3> QED
      BY <1>1, <1>2, <2>1, <3>1, JobFitsStable, IdentifiedStable
  <2>3. CASE NewMessage(n)
    <3>1. JobFits(n.job)'
      BY <1>1, <1>2, <2>1, <2>3, JobFitsStable DEF NewMessage
    <3>2. Identified(n)'
      BY <2>3 DEF NewMessage, Identified
    <3> QED
      BY <3>1, <3>2
  <2> QED
    BY <1>1, <1>4, <2>2, <2>3 DEF QueueKeeps
<1>5. ASSUME NEW h \in Handlers, NEW r \in {api'[h]}, r.pc # "idle"
      PROVE  HandlerFits(r)'
  <2>1. r \in BusyHandler
    BY <1>2, <1>5 DEF TypeOK, ApiTypeOK, IdleHandler
  <2> QED
    BY <1>1, <1>2, <1>5, <2>1, HandlerStable DEF NewHandlers
<1>6. ASSUME NEW w \in Workers, NEW r \in {wrk'[w]} PROVE WorkerFits(r)'
  <2>1. r \in WorkerRecord
    BY <1>2, <1>6 DEF TypeOK, WorkerTypeOK, WorkerRecord
  <2> QED
    BY <1>1, <1>2, <1>6, <2>1, WorkerStable DEF NewWorkers
<1> QED
  BY <1>3, <1>4, <1>5, <1>6 DEF JobsFit

LEMMA JobsAlwaysFit == Spec => [](TypeOK /\ CopiesFit /\ JobsFit)
<1>1. Init => JobsFit
  BY DEF Init, LiveInit, QueueInit, ApiInit, WorkerInit, IdleHandler, Resume,
         JobsFit, RecordsCoherent, WorkerFits, Exists
<1>2. TypeOK /\ CopiesFit /\ JobsFit /\ [Next]_vars => JobsFit'
  BY JobsFitStep
<1> QED
  BY <1>1, <1>2, TypeCorrect, CopiesAlwaysFit, PTL DEF Spec

(***************************************************************************)
(* Every stored record is coherent, whatever order its writers won in:     *)
(* status, result and termination tell how the moves ended, and nobody     *)
(* moved after the end.                                                    *)
(***************************************************************************)
THEOREM CoherentRecords == Spec => []RecordsCoherent
<1>1. JobsFit => RecordsCoherent
  BY DEF JobsFit
<1> QED
  BY <1>1, JobsAlwaysFit, PTL

-----------------------------------------------------------------------------
(***************************************************************************)
(* Who changes a stored game.                                              *)
(***************************************************************************)
ByCreate(h, id, color) == HandleCreate(h, id, color) /\ live'[id] = NewGame(color)

ByHandler(h, id) ==
  /\ Update(h) /\ api[h].id = id
  /\ CasApplies(id, api[h].g, api[h].prev)

ByWorker(w, id) ==
  /\ WriteMove(w) /\ wrk[w].cur.job.game = id
  /\ CasApplies(id, wrk[w].g, wrk[w].prev)

LEMMA WhoWrites ==
  ASSUME TypeOK, [Next]_vars, NEW id \in GameIds
  PROVE  \/ live'[id] = live[id]
         \/ ~Exists(id)'
         \/ \E h \in Handlers, color \in Colors : ApiStep /\ ByCreate(h, id, color)
         \/ \E h \in Handlers : ApiStep /\ ByHandler(h, id)
         \/ \E w \in Workers : WorkerStep /\ ByWorker(w, id)
<1>1. \A k \in GameIds : \A g, e : CasApplies(k, g, e) =>
        /\ live'[k] = g
        /\ k # id => live'[id] = live[id]
  BY DEF CasApplies, TypeOK, LiveTypeOK
<1>2. CASE ApiStep
  <2>1. ASSUME NEW h \in Handlers, NEW k \in GameIds, NEW color \in Colors,
               HandleCreate(h, k, color), live'[id] # live[id]
        PROVE  ByCreate(h, id, color)
    <3>1. CasApplies(k, NewGame(color), -1)
      BY <2>1 DEF HandleCreate, WriteOk, WriteConflict, WriteError
    <3> QED
      BY <1>1, <2>1, <3>1 DEF ByCreate
  <2>2. ASSUME NEW h \in Handlers, Update(h), live'[id] # live[id]
        PROVE  ByHandler(h, id)
    <3>1. CasApplies(api[h].id, api[h].g, api[h].prev)
      BY <2>2 DEF Update, WriteOk, WriteConflict, WriteError
    <3>2. api[h].id \in GameIds
      BY <2>2, HandlerBusy DEF Update, TypeOK, BusyHandler
    <3> QED
      BY <1>1, <2>2, <3>1, <3>2 DEF ByHandler
  <2>3. ASSUME NEW h \in Handlers, NEW k \in GameIds,
               \/ \E uci \in Moves : HandleMove(h, k, uci)
               \/ HandleResign(h, k)
        PROVE  UNCHANGED live
    BY <2>3 DEF HandleMove, HandleResign
  <2>4. ASSUME NEW h \in Handlers,
               PublishState(h) \/ ArchiveGame(h) \/ EnqueueJob(h) \/ CrashApi(h)
        PROVE  UNCHANGED live
    BY <2>4 DEF PublishState, ArchiveGame, EnqueueJob, CrashApi
  <2> QED
    BY <1>2, <2>1, <2>2, <2>3, <2>4 DEF ApiStep, ApiNext, Request, Serve
<1>3. CASE WorkerStep
  <2>1. ASSUME NEW w \in Workers, WriteMove(w), live'[id] # live[id]
        PROVE  ByWorker(w, id)
    <3>1. CasApplies(wrk[w].cur.job.game, wrk[w].g, wrk[w].prev)
      BY <2>1 DEF WriteMove, WriteOk, WriteConflict, WriteError
    <3>2. wrk[w].cur.job.game \in GameIds
      BY <2>1, WorkerKinds DEF WriteMove, TypeOK, Working, Message, Job
    <3> QED
      BY <1>1, <2>1, <3>1, <3>2 DEF ByWorker
  <2>2. ASSUME NEW w \in Workers,
               \/ Poll(w) \/ PublishMove(w) \/ ArchiveMove(w) \/ Ack(w) \/ CrashWorker(w)
               \/ \E d \in wrk[w].batch :
                    \/ DropStaleJob(w, d) \/ FailJob(w, d)
                    \/ \E uci \in Moves : ChooseMove(w, d, uci)
        PROVE  UNCHANGED live
    BY <2>2 DEF Poll, PublishMove, ArchiveMove, Ack, CrashWorker, DropStaleJob,
                FailJob, ChooseMove
  <2> QED
    BY <1>3, <2>1, <2>2 DEF WorkerStep, WorkerNext, Process
<1>4. CASE \E k \in GameIds : Expire(k)
  BY <1>4 DEF Expire, ExpireKey, Exists, TypeOK, LiveTypeOK
<1>5. CASE QueueStep \/ (\E c \in Watchers : Relay(c) \/ Browser(c)) \/ UNCHANGED vars
  BY <1>5 DEF QueueStep, VisibilityTimeout, DeadLetter, Relay, Browser, vars
<1> QED
  BY <1>2, <1>3, <1>4, <1>5 DEF Next

(***************************************************************************)
(* Sides alternate.                                                        *)
(***************************************************************************)
LEMMA SidesAlternate ==
  ASSUME NEW n \in Nat
  PROVE  Side(n + 1) = OtherColor(Side(n))
BY DEF Side, OtherColor

(***************************************************************************)
(* Each side's moves are made by that side: a move of the engine only by a *)
(* worker that holds the job for exactly this ply, a move of the player    *)
(* only by a handler of the api, whatever was in flight when it was made.  *)
(***************************************************************************)
THEOREM SidesMoveThemselves == Spec => MovedByItsSide
<1> DEFINE Mover(id) ==
             IF Turn(live[id]) = EngineColor(live[id])
             THEN \E w \in Workers : /\ wrk[w].pc = "update" /\ wrk'[w] # wrk[w]
                                     /\ wrk[w].cur.job = JobOf(id, live[id])
             ELSE \E h \in Handlers : /\ api[h].pc = "update" /\ api'[h] # api[h]
                                      /\ api[h].id = id
           Step == \A id \in GameIds : Grows(id) => Mover(id)
<1>1. ASSUME TypeOK, CopiesFit, JobsFit, [Next]_vars, NEW id \in GameIds, Grows(id)
      PROVE  Mover(id)
  <2>1. /\ Exists(id) /\ live[id] \in Game /\ Coherent(live[id]) /\ id \in issued
        /\ live[id].playerColor \in Colors /\ live[id].ply \in Nat
        /\ Turn(live[id]) = Side(live[id].ply)
    <3>1. Exists(id) /\ live[id] \in Game /\ Coherent(live[id]) /\ id \in issued
      BY <1>1, StoredGame DEF Grows, TypeOK, JobsFit, RecordsCoherent, CopiesFit, StoredOK
    <3> QED
      BY <3>1 DEF Game, Coherent, Turn, Side
  <2>2. ASSUME NEW h \in Handlers, ByHandler(h, id) PROVE Mover(id)
    <3>1. /\ api[h] \in BusyHandler /\ HandlerFits(api[h])
          /\ api[h].pc = "update" /\ api[h].id = id
          /\ Fits(id, api[h].g, api[h].prev)
      BY <1>1, <2>2, KnownHandler DEF ByHandler, Update, CopiesFit
    <3>2. live[id].ply = api[h].prev /\ live'[id] = api[h].g
      BY <1>1, <2>1, <2>2, <3>1 DEF ByHandler, CasApplies, CasAccepts, TypeOK,
                                    LiveTypeOK, BusyHandler
    <3>3. api[h].g.ply # api[h].prev
      <4>1. live'[id].moves # live[id].moves
        BY <1>1 DEF Grows
      <4>2. Continues(live[id].moves, api[h].g.moves)
        BY <2>1, <3>1, <3>2 DEF Fits
      <4>3. PICK uci \in Moves : api[h].g.moves = Append(live[id].moves, uci)
        BY <3>2, <4>1, <4>2 DEF Continues, LegalMoves
      <4>4. live[id].moves \in Seq(Moves)
        BY <2>1 DEF Game
      <4>5. Len(api[h].g.moves) = Len(live[id].moves) + 1 /\ Len(live[id].moves) \in Nat
        BY <4>3, <4>4
      <4>6. api[h].g.ply = Len(api[h].g.moves) /\ live[id].ply = Len(live[id].moves)
        BY <2>1, <3>1 DEF HandlerFits, Coherent
      <4> QED
        BY <3>2, <4>5, <4>6
    <3>4. Side(live[id].ply) = live[id].playerColor
      BY <2>1, <3>1, <3>2, <3>3 DEF HandlerFits, SameGame
    <3>5. Turn(live[id]) # EngineColor(live[id])
      BY <2>1, <3>4 DEF EngineColor, OtherColor, Colors
    <3>6. api'[h] # api[h]
      <4>1. api'[h].pc # "update"
        <5>1. CASE Finish(h)
          BY <1>1, <5>1 DEF Finish, IdleHandler, TypeOK, ApiTypeOK
        <5>2. CASE Goto(h, "publish")
          BY <1>1, <3>1, <5>2 DEF Goto, TypeOK, ApiTypeOK, BusyHandler
        <5> QED
          BY <2>2, <5>1, <5>2 DEF ByHandler, Update
      <4> QED
        BY <3>1, <4>1
    <3> QED
      BY <3>1, <3>5, <3>6
  <2>3. ASSUME NEW w \in Workers, ByWorker(w, id) PROVE Mover(id)
    <3>1. /\ wrk[w] \in Working /\ WorkerFits(wrk[w]) /\ wrk[w].pc = "update"
          /\ wrk[w].cur.job.game = id /\ wrk[w].cur.job \in Job
      BY <1>1, <2>3, WorkerKinds DEF ByWorker, WriteMove, TypeOK, JobsFit, Working, Message
    <3>2. live[id].ply = wrk[w].prev
      BY <2>1, <2>3, <3>1 DEF ByWorker, CasApplies, CasAccepts, Working
    <3>3. /\ wrk[w].cur.job.ply = live[id].ply
          /\ Side(live[id].ply) = EngineColor(live[id])
      BY <2>1, <3>1, <3>2 DEF WorkerFits, JobFits
    <3>4. wrk[w].cur.job = JobOf(id, live[id])
      BY <3>1, <3>3 DEF Job, JobOf
    <3>5. wrk'[w] # wrk[w]
      <4>1. wrk'[w].pc # "update"
        <5>1. CASE DropCurrent(w)
          BY <1>1, <5>1 DEF DropCurrent, Resume, TypeOK, WorkerTypeOK
        <5>2. ASSUME NEW pc \in {"publish", "ack"}, WGoto(w, pc) PROVE wrk'[w].pc # "update"
          BY <1>1, <3>1, <5>2 DEF WGoto, TypeOK, WorkerTypeOK, Working
        <5> QED
          BY <2>3, <5>1, <5>2 DEF ByWorker, WriteMove
      <4> QED
        BY <3>1, <4>1
    <3> QED
      BY <2>1, <3>1, <3>3, <3>4, <3>5
  <2>4. ~\E h \in Handlers, color \in Colors : ByCreate(h, id, color)
    BY <2>1 DEF ByCreate, HandleCreate
  <2> QED
    BY <1>1, <2>2, <2>3, <2>4, WhoWrites DEF Grows
<1>2. TypeOK /\ CopiesFit /\ JobsFit /\ [Next]_vars => [Step]_vars
  BY <1>1
<1> QED
  BY <1>2, JobsAlwaysFit, PTL DEF Spec, MovedByItsSide

-----------------------------------------------------------------------------
(***************************************************************************)
(* How a message can leave the queue.                                      *)
(***************************************************************************)
Stays(m) == \E n \in queue' : n.id = m.id

LEMMA WhoRemoves ==
  ASSUME TypeOK, [Next]_vars, NEW m \in queue
  PROVE  \/ Stays(m)
         \/ \E w \in Workers : wrk[w].pc = "ack" /\ m.id = wrk[w].cur.id
         \/ \E k \in queue : k.id = m.id /\ k.job \in dead'
<1>1. CASE UNCHANGED queueVars
  BY <1>1 DEF Stays, queueVars
<1>2. CASE \E h \in Handlers : EnqueueJob(h)
  BY <1>2 DEF EnqueueJob, Enqueue, EnqueueTwice, EnqueueFails, Stays, queueVars
<1>3. ASSUME NEW h \in Handlers,
             \/ Update(h) \/ PublishState(h) \/ ArchiveGame(h) \/ CrashApi(h)
             \/ \E id \in GameIds :
                  \/ \E color \in Colors : HandleCreate(h, id, color)
                  \/ \E uci \in Moves : HandleMove(h, id, uci)
                  \/ HandleResign(h, id)
      PROVE  UNCHANGED queueVars
  BY <1>3 DEF Update, PublishState, ArchiveGame, CrashApi, HandleCreate, HandleMove,
              HandleResign
<1>4. ASSUME NEW w \in Workers,
             \/ WriteMove(w) \/ PublishMove(w) \/ ArchiveMove(w) \/ CrashWorker(w)
             \/ \E d \in wrk[w].batch :
                  \/ DropStaleJob(w, d) \/ FailJob(w, d)
                  \/ \E uci \in Moves : ChooseMove(w, d, uci)
      PROVE  UNCHANGED queueVars
  BY <1>4 DEF WriteMove, PublishMove, ArchiveMove, CrashWorker, DropStaleJob, FailJob,
              ChooseMove
<1>5. ASSUME NEW w \in Workers, Poll(w)
      PROVE  Stays(m)
  <2>1. PICK batch \in SUBSET Receivable : Receive(batch)
    BY <1>5 DEF Poll
  <2>2. Deliver(m).id = m.id
    BY DEF Deliver, TypeOK, QueueTypeOK, Message
  <2>3. queue' = (queue \ batch) \cup {Deliver(k) : k \in batch}
    BY <2>1 DEF Receive
  <2> QED
    BY <2>2, <2>3 DEF Stays
<1>6. ASSUME NEW w \in Workers, Ack(w)
      PROVE  Stays(m) \/ (wrk[w].pc = "ack" /\ m.id = wrk[w].cur.id)
  BY <1>6 DEF Ack, Delete, DeleteFails, Stays, queueVars
<1>7. ASSUME NEW k \in queue, VisibilityTimeout(k)
      PROVE  Stays(m)
  <2> DEFINE again == [k EXCEPT !.visible = TRUE]
  <2>1. again.id = k.id
    BY DEF TypeOK, QueueTypeOK, Message
  <2>2. queue' = (queue \ {k}) \cup {again}
    BY <1>7 DEF VisibilityTimeout, VisibilityEnds
  <2> HIDE DEF again
  <2> QED
    BY <2>1, <2>2 DEF Stays
<1>8. ASSUME NEW k \in queue, DeadLetter(k)
      PROVE  Stays(m) \/ (k.id = m.id /\ k.job \in dead')
  BY <1>8 DEF DeadLetter, Redrive, Stays
<1>9. CASE (\E id \in GameIds : Expire(id)) \/ (\E c \in Watchers : Relay(c) \/ Browser(c))
           \/ UNCHANGED vars
  BY <1>1, <1>9 DEF Expire, Relay, Browser, vars, queueVars
<1>10. CASE ApiStep
  BY <1>1, <1>2, <1>3, <1>10 DEF ApiStep, ApiNext, Request, Serve
<1>11. CASE WorkerStep
  BY <1>1, <1>4, <1>5, <1>6, <1>11 DEF WorkerStep, WorkerNext, Process
<1>12. CASE QueueStep
  BY <1>7, <1>8, <1>12 DEF QueueStep
<1> QED
  BY <1>9, <1>10, <1>11, <1>12 DEF Next

LEMMA RemovedIsSettled ==
  ASSUME TypeOK, JobsFit, [Next]_vars, NEW m \in queue, ~Stays(m)
  PROVE  Settled(m.job) \/ m.job \in dead'
<1>1. CASE \E w \in Workers : wrk[w].pc = "ack" /\ m.id = wrk[w].cur.id
  <2>1. PICK w \in Workers : wrk[w].pc = "ack" /\ m.id = wrk[w].cur.id
    BY <1>1
  <2>2. Identified(wrk[w].cur) /\ Settled(wrk[w].cur.job)
    BY <2>1 DEF JobsFit, WorkerFits
  <2>3. m.job = wrk[w].cur.job
    BY <2>1, <2>2 DEF Identified
  <2> QED
    BY <2>2, <2>3
<1>2. CASE \E k \in queue : k.id = m.id /\ k.job \in dead'
  BY <1>2 DEF JobsFit, Identified
<1> QED
  BY <1>1, <1>2, WhoRemoves

(***************************************************************************)
(* A message leaves the queue only when its job is settled or dead:        *)
(* duplicates, redeliveries, failures, crashes and lost replies never      *)
(* acknowledge a move that is still to be played.                          *)
(***************************************************************************)
THEOREM AcknowledgedWhenSettled == Spec => AckOnlySettled
<1> DEFINE Step == \A m \in queue : (\A n \in queue' : n.id # m.id) =>
                     Settled(m.job) \/ m.job \in dead'
<1>1. TypeOK /\ CopiesFit /\ JobsFit /\ [Next]_vars => [Step]_vars
  BY RemovedIsSettled DEF Stays
<1> QED
  BY <1>1, JobsAlwaysFit, PTL DEF Spec, AckOnlySettled

(***************************************************************************)
(* The dead-letter queue only grows.                                       *)
(***************************************************************************)
LEMMA DeadGrows ==
  ASSUME [Next]_vars
  PROVE  dead \subseteq dead'
<1>1. CASE ApiStep
  BY <1>1 DEF ApiStep, ApiNext, Request, Serve, HandleCreate, HandleMove, HandleResign,
              Update, PublishState, ArchiveGame, EnqueueJob, CrashApi, Enqueue,
              EnqueueTwice, EnqueueFails, queueVars
<1>2. CASE WorkerStep
  BY <1>2 DEF WorkerStep, WorkerNext, Process, Poll, DropStaleJob, ChooseMove, FailJob,
              WriteMove, PublishMove, ArchiveMove, Ack, CrashWorker, Receive, Delete,
              DeleteFails, queueVars
<1> QED
  BY <1>1, <1>2 DEF Next, QueueStep, VisibilityTimeout, VisibilityEnds, DeadLetter, Redrive,
                    Expire, Relay, Browser, vars, queueVars

(***************************************************************************)
(* A step on which a handler's hand-off survives.                          *)
(***************************************************************************)
LEMMA HandingOffStep ==
  ASSUME TypeOK, JobsFit, ~May("apiCrash"), ~May("sqsSend"), [Next]_vars,
         NEW id \in GameIds, Exists(id), live'[id] = live[id], HandingOff(id)
  PROVE  HandingOff(id)' \/ \E m \in queue' : m.job = JobOf(id, live[id])
<1>1. PICK h \in Handlers : /\ api[h].pc \in {"publish", "enqueue"}
                            /\ api[h].id = id
                            /\ api[h].g.ply = live[id].ply
                            /\ AfterPublish(api[h].g) = "enqueue"
  BY DEF HandingOff
<1>2. api[h] \in BusyHandler
  BY <1>1, KnownHandler
<1>3. CASE api'[h] = api[h]
  BY <1>1, <1>3 DEF HandingOff, AfterPublish
<1>4. CASE PublishState(h)
  <2>1. PICK t \in BusyHandler :
          /\ api' = [api EXCEPT ![h] = t]
          /\ t.pc = "enqueue" /\ t.id = id /\ t.g = api[h].g
    BY <1>1, <1>2, <1>4, GotoRecord DEF PublishState
  <2>2. api'[h] = t
    BY <2>1 DEF TypeOK, ApiTypeOK
  <2> QED
    BY <1>1, <2>1, <2>2 DEF HandingOff, AfterPublish
<1>5. CASE EnqueueJob(h)
  <2> DEFINE job == JobOf(id, api[h].g)
  <2>1. job = JobOf(id, live[id])
    BY <1>1 DEF JobOf
  <2>2. Enqueue(job) \/ EnqueueTwice(job)
    BY <1>1, <1>5 DEF EnqueueJob, EnqueueFails
  <2>3. \A n : Fresh(n, job).job = job
    BY DEF Fresh
  <2> HIDE DEF job
  <2>4. \E m \in queue' : m.job = job
    BY <2>2, <2>3 DEF Enqueue, EnqueueTwice
  <2> QED
    BY <2>1, <2>4
<1>6. ASSUME NEW k \in Handlers, k # h,
             \/ \E t : api' = [api EXCEPT ![k] = t]
             \/ \E pc : api' = [api EXCEPT ![k].pc = pc]
             \/ UNCHANGED api
      PROVE  api'[h] = api[h]
  BY <1>6 DEF TypeOK, ApiTypeOK
<1>7. CASE ApiStep
  <2>1. PICK k \in Handlers : Request(k) \/ Serve(k) \/ CrashApi(k)
    BY <1>7 DEF ApiStep, ApiNext
  <2>2. CASE k # h
    <3>1. CASE Request(k)
      <4>1. UNCHANGED api \/ \E t : api' = [api EXCEPT ![k] = t]
        BY <3>1 DEF Request, HandleCreate, HandleMove, HandleResign, StartUpdate
      <4> QED
        BY <1>3, <1>6, <2>2, <4>1
    <3>2. CASE Serve(k) \/ CrashApi(k)
      <4>1. Finish(k) \/ \E pc : Goto(k, pc)
        BY <3>2 DEF Serve, CrashApi, Update, PublishState, ArchiveGame, EnqueueJob
      <4> QED
        BY <1>3, <1>6, <2>2, <4>1 DEF Finish, Goto
    <3> QED
      BY <2>1, <3>1, <3>2
  <2>3. CASE k = h
    BY <1>1, <1>4, <1>5, <2>1, <2>3
       DEF Request, Serve, CrashApi, HandleCreate, HandleMove, HandleResign, Update,
           ArchiveGame
  <2> QED
    BY <2>2, <2>3
<1>8. CASE UNCHANGED api
  BY <1>3, <1>8
<1> QED
  BY <1>7, <1>8 DEF Next, WorkerStep, QueueStep, VisibilityTimeout, DeadLetter, Expire,
                    Relay, Browser, vars

(***************************************************************************)
(* The engine's turn comes only from a handler, which then hands it on.    *)
(***************************************************************************)
LEMMA NewTurnStep ==
  ASSUME TypeOK, CopiesFit, JobsFit, ~May("redisLost"), ~May("redisRetry"), [Next]_vars,
         NEW id \in GameIds, live'[id] # live[id], EngineToMoveIn(id)'
  PROVE  HandingOff(id)'
<1>1. /\ Exists(id)' /\ live'[id].status = "ongoing"
      /\ Turn(live'[id]) = EngineColor(live'[id])
  BY DEF EngineToMoveIn, Turn, EngineColor
<1>2. ASSUME NEW h \in Handlers, NEW color \in Colors, ByCreate(h, id, color)
      PROVE  HandingOff(id)'
  <2> DEFINE g == NewGame(color)
             created == [pc |-> "enqueue", id |-> id, g |-> g, prev |-> 0]
  <2>1. live'[id] = g
    BY <1>2 DEF ByCreate
  <2>2. color = "black" /\ AfterPublish(g) = "enqueue"
    <3>1. Turn(g) = EngineColor(g)
      BY <1>1, <2>1
    <3>2. Turn(g) = "white" /\ g.status = "ongoing" /\ g.playerColor = color
      BY DEF NewGame, Turn
    <3> QED
      BY <3>1, <3>2 DEF EngineColor, OtherColor, AfterPublish, Colors
  <2>3. PICK t : t = created
    OBVIOUS
  <2>4. api' = [api EXCEPT ![h] = t]
    <3>1. api' = [api EXCEPT ![h] = created]
      BY <1>2, <2>2 DEF ByCreate, HandleCreate, WriteConflict, WriteError
    <3> QED
      BY <2>3, <3>1
  <2>5. t.pc = "enqueue" /\ t.id = id /\ t.g = g
    BY <2>3
  <2> HIDE DEF g, created
  <2>6. api'[h] = t
    BY <2>4 DEF TypeOK, ApiTypeOK
  <2> QED
    BY <2>1, <2>2, <2>5, <2>6 DEF HandingOff, AfterPublish
<1>3. ASSUME NEW h \in Handlers, ByHandler(h, id)
      PROVE  HandingOff(id)'
  <2>1. api[h] \in BusyHandler /\ HandlerFits(api[h]) /\ api[h].id = id
    BY <1>3, KnownHandler DEF ByHandler, Update
  <2>2. live'[id] = api[h].g
    BY <1>3, <2>1 DEF ByHandler, CasApplies, TypeOK, LiveTypeOK
  <2>3. Goto(h, "publish")
    <3>1. CasAccepts(id, api[h].prev) /\ ~UNCHANGED live
      BY <1>3 DEF ByHandler, CasApplies
    <3> QED
      BY <1>3, <2>1, <3>1 DEF ByHandler, Update, WriteConflict, WriteError
  <2>4. PICK t \in BusyHandler :
          /\ api' = [api EXCEPT ![h] = t]
          /\ t.pc = "publish" /\ t.id = id /\ t.g = api[h].g
    BY <2>1, <2>3, GotoRecord
  <2>5. api'[h] = t
    BY <2>4 DEF TypeOK, ApiTypeOK
  <2>6. AfterPublish(t.g) = "enqueue"
    BY <1>1, <2>2, <2>4 DEF AfterPublish
  <2> QED
    BY <2>2, <2>4, <2>5, <2>6 DEF HandingOff, AfterPublish
<1>4. ASSUME NEW w \in Workers, ByWorker(w, id)
      PROVE  FALSE
  <2>1. /\ wrk[w] \in Working /\ WorkerFits(wrk[w]) /\ wrk[w].pc = "update"
        /\ wrk[w].cur.job.game = id
    BY <1>4, WorkerKinds DEF ByWorker, WriteMove, TypeOK, JobsFit
  <2>2. /\ live'[id] = wrk[w].g /\ Exists(id) /\ wrk[w].g \in Game
        /\ wrk[w].prev \in Nat
    BY <1>4, <2>1 DEF ByWorker, CasApplies, CasAccepts, TypeOK, LiveTypeOK, Working
  <2>3. /\ SameGame(id, wrk[w].g) /\ wrk[w].g.ply = wrk[w].prev + 1
        /\ Coherent(wrk[w].g)
        /\ wrk[w].cur.job.ply = wrk[w].prev /\ JobFits(wrk[w].cur.job)
    BY <2>1 DEF WorkerFits
  <2>4. /\ Side(wrk[w].prev) = EngineColor(wrk[w].g)
        /\ Turn(wrk[w].g) = Side(wrk[w].prev + 1)
    BY <2>1, <2>2, <2>3 DEF SameGame, JobFits, EngineColor, Coherent, Turn, Side
  <2>5. OtherColor(Side(wrk[w].prev)) # Side(wrk[w].prev)
    BY DEF Side, OtherColor
  <2> QED
    BY <1>1, <2>2, <2>4, <2>5, SidesAlternate
<1> QED
  BY <1>1, <1>2, <1>3, <1>4, WhoWrites

(***************************************************************************)
(* Nobody forgets that the engine is to move, however often workers crash  *)
(* and jobs are duplicated, delayed, failed or redelivered, as long as the *)
(* handlers of the api get through: no api task dies between its write and *)
(* Enqueue, SendMessage succeeds, and the reply to the write is not lost.  *)
(***************************************************************************)
THEOREM HandoffIsKept ==
  ASSUME ~May("apiCrash"), ~May("sqsSend"), ~May("redisLost"), ~May("redisRetry")
  PROVE  Spec => []HandoffNotLost
<1> DEFINE IInv == TypeOK /\ CopiesFit /\ JobsFit
           Covered(id) == \/ \E m \in queue : m.job = JobOf(id, live[id])
                          \/ JobOf(id, live[id]) \in dead
                          \/ HandingOff(id)
<1>1. Init => HandoffNotLost
  BY DEF Init, LiveInit, HandoffNotLost, EngineToMoveIn, Exists
<1>2. ASSUME IInv, HandoffNotLost, [Next]_vars PROVE HandoffNotLost'
  <2> SUFFICES ASSUME NEW id \in GameIds, EngineToMoveIn(id)'
               PROVE  Covered(id)'
    BY DEF HandoffNotLost
  <2>1. CASE live'[id] # live[id]
    BY <1>2, <2>1, NewTurnStep
  <2>2. CASE live'[id] = live[id]
    <3> DEFINE job == JobOf(id, live[id])
    <3>1. EngineToMoveIn(id) /\ Covered(id) /\ Exists(id)
      <4>1. EngineToMoveIn(id) /\ Exists(id)
        BY <2>2 DEF EngineToMoveIn, Exists, Turn, EngineColor
      <4> QED
        BY <1>2, <4>1 DEF HandoffNotLost
    <3>2. JobOf(id, live[id])' = job
      BY <2>2 DEF JobOf
    <3>3. ASSUME NEW m \in queue, m.job = job
          PROVE  (\E n \in queue' : n.job = job) \/ job \in dead'
      <4>1. CASE Stays(m)
        <5>1. PICK n \in queue' : n.id = m.id
          BY <4>1 DEF Stays
        <5>2. Identified(m) /\ QueueTypeOK
          BY <1>2 DEF JobsFit, TypeOK
        <5>3. m.id \in Nat /\ sent \in Nat
          BY <5>2 DEF QueueTypeOK, Message
        <5>4. OldMessage(n)
          BY <1>2, <5>1, <5>2, <5>3, StepFits DEF QueueKeeps, NewMessage, Identified
        <5> QED
          BY <3>3, <5>1, <5>2, <5>4 DEF OldMessage, Identified
      <4>2. CASE ~Stays(m)
        <5>1. ~Settled(job)
          <6>1. live[id] \in Game /\ live[id].status = "ongoing"
            BY <1>2, <3>1, StoredGame DEF EngineToMoveIn, TypeOK
          <6>2. job.game = id /\ job.ply = live[id].ply /\ live[id].ply \in Nat
            BY <6>1 DEF JobOf, Game
          <6> QED
            BY <3>1, <6>1, <6>2 DEF Settled
        <5> QED
          BY <1>2, <3>3, <4>2, <5>1, RemovedIsSettled
      <4> QED
        BY <4>1, <4>2
    <3>4. ASSUME job \in dead PROVE job \in dead'
      BY <1>2, <3>4, DeadGrows
    <3>5. ASSUME HandingOff(id)
          PROVE  HandingOff(id)' \/ \E m \in queue' : m.job = job
      BY <1>2, <2>2, <3>1, <3>5, HandingOffStep
    <3> HIDE DEF job
    <3> QED
      BY <3>1, <3>2, <3>3, <3>4, <3>5 DEF job
  <2> QED
    BY <2>1, <2>2
<1>3. IInv /\ HandoffNotLost /\ [Next]_vars => HandoffNotLost'
  BY <1>2
<1> QED
  BY <1>1, <1>3, JobsAlwaysFit, PTL DEF Spec

-----------------------------------------------------------------------------
(***************************************************************************)
(* Only finished games are archived, so each row has a result.             *)
(***************************************************************************)
RowsFit == \A id \in Archived : archive[id].result \in Results

LEMMA FinishedHasResult ==
  ASSUME NEW g \in Game, Coherent(g), g.status = "finished"
  PROVE  RowOf(g).result \in Results
<1>1. g.playerColor \in Colors /\ g.moves \in Positions
  BY DEF Game, Coherent
<1>2. Outcome[g.moves] \in Results \cup {NoOutcome}
  BY <1>1, RulesAssumption
<1> QED
  BY <1>1, <1>2 DEF Coherent, RowOf, WinOf, Results

LEMMA SaveFits ==
  ASSUME ArchiveTypeOK, RowsFit, NEW id \in GameIds, NEW g \in Game,
         Coherent(g), g.status = "finished", SaveFinished(id, g) \/ SaveFails
  PROVE  RowsFit'
<1>1. CASE UNCHANGED archive
  BY <1>1 DEF RowsFit, Archived
<1>2. CASE archive' = [archive EXCEPT ![id] = RowOf(g)]
  BY <1>2, FinishedHasResult DEF RowsFit, Archived, ArchiveTypeOK
<1> QED
  BY <1>1, <1>2 DEF SaveFinished, SaveFails

LEMMA RowsFitStep ==
  ASSUME TypeOK, JobsFit, RowsFit, [Next]_vars
  PROVE  RowsFit'
<1>1. CASE UNCHANGED archive
  BY <1>1 DEF RowsFit, Archived
<1>2. ASSUME NEW h \in Handlers, ArchiveGame(h) PROVE RowsFit'
  <2>1. /\ api[h] \in BusyHandler /\ Coherent(api[h].g)
        /\ api[h].g.status = "finished"
    BY <1>2, KnownHandler DEF ArchiveGame, HandlerFits
  <2>2. SaveFinished(api[h].id, api[h].g) \/ SaveFails
    BY <1>2 DEF ArchiveGame
  <2> QED
    BY <2>1, <2>2, SaveFits DEF BusyHandler, TypeOK
<1>3. ASSUME NEW w \in Workers, ArchiveMove(w) PROVE RowsFit'
  <2>1. /\ wrk[w] \in Working /\ Coherent(wrk[w].g) /\ wrk[w].g.status = "finished"
    BY <1>3, WorkerKinds DEF ArchiveMove, TypeOK, JobsFit, WorkerFits
  <2>2. SaveFinished(wrk[w].cur.job.game, wrk[w].g) \/ SaveFails
    BY <1>3 DEF ArchiveMove
  <2> QED
    BY <2>1, <2>2, SaveFits DEF Working, Message, Job, TypeOK
<1>4. CASE ApiStep
  BY <1>1, <1>2, <1>4 DEF ApiStep, ApiNext, Request, Serve, HandleCreate, HandleMove,
     HandleResign, Update, PublishState, EnqueueJob, CrashApi
<1>5. CASE WorkerStep
  BY <1>1, <1>3, <1>5 DEF WorkerStep, WorkerNext, Process, Poll, DropStaleJob, ChooseMove,
     FailJob, WriteMove, PublishMove, Ack, CrashWorker
<1> QED
  BY <1>1, <1>4, <1>5 DEF Next, QueueStep, VisibilityTimeout, DeadLetter, Expire, Relay,
     Browser, vars

(***************************************************************************)
(* The stats count every archived game exactly once, in a database of any  *)
(* finite size: no game is archived without a result, and a result is a    *)
(* win of exactly one side or a draw.                                      *)
(***************************************************************************)
THEOREM StatsAddUp ==
  ASSUME IsFiniteSet(GameIds)
  PROVE  Spec => []StatsPartition
<1>1. Init => RowsFit
  BY DEF Init, ArchiveInit, RowsFit, Archived
<1>2. TypeOK /\ CopiesFit /\ JobsFit /\ RowsFit /\ [Next]_vars => RowsFit'
  BY RowsFitStep
<1>3. ASSUME TypeOK, RowsFit PROVE StatsPartition
  <2> DEFINE lost  == {id \in Archived : archive[id].result =
                                   WinOf(OtherColor(archive[id].playerColor))}
             won   == {id \in Archived : archive[id].result =
                                   WinOf(archive[id].playerColor)}
             drawn == {id \in Archived : archive[id].result = "1/2-1/2"}
  <2>1. \A id \in Archived : /\ archive[id].playerColor \in Colors
                             /\ archive[id].result \in Results
    BY <1>3 DEF RowsFit, TypeOK, ArchiveTypeOK, Archived, Row
  <2>2. Archived = (lost \cup won) \cup drawn
    BY <2>1 DEF WinOf, OtherColor, Colors, Results
  <2>3. lost \cap won = {} /\ (lost \cup won) \cap drawn = {}
    BY <2>1 DEF WinOf, OtherColor, Colors, Results
  <2>4. IsFiniteSet(Archived)
    <3>1. Archived \in SUBSET GameIds
      BY DEF Archived
    <3> QED
      BY <3>1, FS_Subset
  <2>5. /\ IsFiniteSet(lost) /\ IsFiniteSet(won) /\ IsFiniteSet(drawn)
        /\ IsFiniteSet(lost \cup won)
    <3>1. /\ lost \in SUBSET Archived /\ won \in SUBSET Archived
          /\ drawn \in SUBSET Archived /\ (lost \cup won) \in SUBSET Archived
      OBVIOUS
    <3> HIDE DEF lost, won, drawn
    <3> QED
      BY <2>4, <3>1, FS_Subset
  <2>6. /\ Cardinality(lost) \in Nat /\ Cardinality(won) \in Nat
        /\ Cardinality(drawn) \in Nat
    BY <2>5, FS_CardinalityType
  <2>7. Total = Cardinality(Archived) /\ EngineWins = Cardinality(lost)
        /\ PlayerWins = Cardinality(won) /\ Draws = Cardinality(drawn)
    BY DEF Total, EngineWins, PlayerWins, Draws
  <2> HIDE DEF lost, won, drawn
  <2>8. Cardinality(lost \cup won) = Cardinality(lost) + Cardinality(won)
    <3>1. Cardinality(lost \cap won) = 0
      BY <2>3, FS_EmptySet
    <3>2. Cardinality(lost \cup won) =
            Cardinality(lost) + Cardinality(won) - Cardinality(lost \cap won)
      BY <2>5, FS_Union
    <3> QED
      BY <2>6, <3>1, <3>2
  <2>9. Cardinality((lost \cup won) \cup drawn)
          = Cardinality(lost \cup won) + Cardinality(drawn)
    <3>1. Cardinality((lost \cup won) \cap drawn) = 0
      BY <2>3, FS_EmptySet
    <3>2. Cardinality((lost \cup won) \cup drawn) =
            Cardinality(lost \cup won) + Cardinality(drawn)
              - Cardinality((lost \cup won) \cap drawn)
      BY <2>5, FS_Union
    <3> QED
      BY <2>6, <2>8, <3>1, <3>2
  <2> QED
    BY <2>2, <2>6, <2>7, <2>8, <2>9 DEF StatsPartition
<1>4. TypeOK /\ RowsFit => StatsPartition
  BY <1>3
<1> QED
  BY <1>1, <1>2, <1>4, JobsAlwaysFit, PTL DEF Spec

=============================================================================
