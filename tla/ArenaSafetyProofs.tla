-------------------------- MODULE ArenaSafetyProofs -------------------------
(***************************************************************************)
(* Type correctness, and what the conditional write guarantees, for every  *)
(* number of handlers and workers, every set of rules and every            *)
(* combination of failures.                                                *)
(*                                                                         *)
(* The argument: every step of the system changes the stored games in one  *)
(* of four ways (LiveStep); a copy that fits stays fitting under each of   *)
(* them (FitsStable); a copy fits when it is made; so CopiesFit is an      *)
(* invariant, and with it every accepted write continues the stored list.  *)
(***************************************************************************)
EXTENDS Arena, GameProofs

-----------------------------------------------------------------------------
(***************************************************************************)
(* Type correctness.  First what the operations of each component keep.    *)
(***************************************************************************)

(***************************************************************************)
(* Every outcome of a conditional write of a game keeps LiveTypeOK.        *)
(***************************************************************************)
LEMMA WriteType ==
  ASSUME LiveTypeOK, NEW id, NEW g \in Game, NEW expected,
         \/ WriteOk(id, g, expected)
         \/ WriteConflict(id, g, expected)
         \/ WriteError(id, g, expected)
  PROVE  LiveTypeOK'
BY DEF LiveTypeOK, WriteOk, WriteConflict, WriteError, CasApplies

LEMMA StoredGame ==
  ASSUME LiveTypeOK, NEW id \in GameIds, Exists(id)
  PROVE  live[id] \in Game
BY DEF LiveTypeOK, Exists

(***************************************************************************)
(* Sending a job, in any of its outcomes, keeps QueueTypeOK.               *)
(***************************************************************************)
LEMMA EnqueueType ==
  ASSUME QueueTypeOK, NEW job \in Job,
         Enqueue(job) \/ EnqueueTwice(job) \/ EnqueueFails
  PROVE  QueueTypeOK'
<1>1. \A n \in Nat : Fresh(n, job) \in Message
  BY DEF Fresh, Message
<1>2. sent \in Nat /\ sent + 1 \in Nat /\ sent + 2 \in Nat
  BY DEF QueueTypeOK
<1> QED
  BY <1>1, <1>2 DEF QueueTypeOK, Enqueue, EnqueueTwice, EnqueueFails, queueVars

LEMMA DeliverType ==
  ASSUME NEW m \in Message
  PROVE  Deliver(m) \in Message
<1> DEFINE n == m.received + 1
<1>1. n \in Nat
  BY DEF Message
<1>2. Deliver(m) = [m EXCEPT !.received = n, !.visible = FALSE]
  BY DEF Deliver
<1> HIDE DEF n
<1> QED
  BY <1>1, <1>2 DEF Message

LEMMA QueueStepType ==
  ASSUME QueueTypeOK,
         \/ \E batch : Receive(batch)
         \/ \E d : Delete(d)
         \/ DeleteFails
         \/ \E m : VisibilityEnds(m)
         \/ \E m : Redrive(m)
         \/ UNCHANGED queueVars
  PROVE  QueueTypeOK'
<1>1. CASE \E batch : Receive(batch)
  <2>1. PICK batch : Receive(batch)
    BY <1>1
  <2>2. \A m \in batch : Deliver(m) \in Message
    BY <2>1, DeliverType DEF Receive, Receivable, QueueTypeOK
  <2> QED
    BY <2>1, <2>2 DEF Receive, QueueTypeOK
<1>2. CASE \E d : Delete(d)
  BY <1>2 DEF Delete, QueueTypeOK
<1>3. CASE DeleteFails \/ UNCHANGED queueVars
  BY <1>3 DEF DeleteFails, QueueTypeOK, queueVars
<1>4. CASE \E m : VisibilityEnds(m)
  <2>1. PICK m : VisibilityEnds(m)
    BY <1>4
  <2>2. [m EXCEPT !.visible = TRUE] \in Message
    BY <2>1 DEF VisibilityEnds, QueueTypeOK, Message
  <2> QED
    BY <2>1, <2>2 DEF VisibilityEnds, QueueTypeOK
<1>5. CASE \E m : Redrive(m)
  <2>1. PICK m : Redrive(m)
    BY <1>5
  <2>2. m.job \in Job
    BY <2>1 DEF Redrive, QueueTypeOK, Message
  <2> QED
    BY <2>1, <2>2 DEF Redrive, QueueTypeOK
<1> QED
  BY <1>1, <1>2, <1>3, <1>4, <1>5

(***************************************************************************)
(* Archiving keeps ArchiveTypeOK, publishing keeps FanoutTypeOK.           *)
(***************************************************************************)
LEMMA SaveType ==
  ASSUME ArchiveTypeOK, NEW id, NEW g \in Game,
         SaveFinished(id, g) \/ SaveFails
  PROVE  ArchiveTypeOK'
<1>1. RowOf(g) \in Row
  BY DEF RowOf, Row, Game
<1> QED
  BY <1>1 DEF ArchiveTypeOK, SaveFinished, SaveFails

LEMMA PublishType ==
  ASSUME FanoutTypeOK, NEW id, NEW g \in Game,
         Publish(id, g) \/ PublishFails
  PROVE  FanoutTypeOK'
<1>1. CASE PublishFails
  BY <1>1 DEF PublishFails, FanoutTypeOK
<1>2. CASE Publish(id, g)
  <2>1. \A c \in Watchers :
          [session[c] EXCEPT !.channel = Append(@, g)] \in Session
    <3> SUFFICES ASSUME NEW c \in Watchers
                 PROVE  [session[c] EXCEPT !.channel = Append(@, g)] \in Session
      OBVIOUS
    <3>1. session[c] \in Session
      BY DEF FanoutTypeOK
    <3>2. Append(session[c].channel, g) \in Seq(Game)
      BY <3>1 DEF Session
    <3> QED
      BY <3>1, <3>2 DEF Session
  <2> QED
    BY <1>2, <2>1 DEF Publish, FanoutTypeOK
<1> QED
  BY <1>1, <1>2

(***************************************************************************)
(* The handlers' local variables.                                          *)
(***************************************************************************)
LEMMA HandlerBusy ==
  ASSUME ApiTypeOK, NEW h \in Handlers, api[h].pc # "idle"
  PROVE  api[h] \in BusyHandler
BY DEF ApiTypeOK, IdleHandler

LEMMA GotoType ==
  ASSUME ApiTypeOK, UNCHANGED issued, NEW h \in Handlers, api[h].pc # "idle",
         NEW pc \in {"update", "publish", "archive", "enqueue"}, Goto(h, pc)
  PROVE  ApiTypeOK'
<1>1. api[h] \in BusyHandler
  BY HandlerBusy
<1>2. [api[h] EXCEPT !.pc = pc] \in BusyHandler
  BY <1>1 DEF BusyHandler
<1> QED
  BY <1>2 DEF ApiTypeOK, Goto

LEMMA FinishType ==
  ASSUME ApiTypeOK, UNCHANGED issued, NEW h \in Handlers, Finish(h)
  PROVE  ApiTypeOK'
BY DEF ApiTypeOK, Finish

LEMMA StartUpdateType ==
  ASSUME ApiTypeOK, LiveTypeOK, UNCHANGED issued, NEW h \in Handlers,
         NEW id \in GameIds, Exists(id), NEW g \in Game, StartUpdate(h, id, g)
  PROVE  ApiTypeOK'
<1>1. live[id].ply \in Nat
  BY StoredGame DEF Game
<1>2. [pc |-> "update", id |-> id, g |-> g, prev |-> live[id].ply] \in BusyHandler
  BY <1>1 DEF BusyHandler
<1> QED
  BY <1>2 DEF ApiTypeOK, StartUpdate

LEMMA CreateType ==
  ASSUME TypeOK, NEW h \in Handlers, NEW id \in GameIds, NEW color \in Colors,
         HandleCreate(h, id, color), UNCHANGED wrk
  PROVE  TypeOK'
<1> DEFINE g == NewGame(color)
           created == [pc |-> "enqueue", id |-> id, g |-> g, prev |-> 0]
<1>1. g \in Game
  BY NewGameType
<1>2. created \in BusyHandler
  BY <1>1 DEF BusyHandler
<1>3. LiveTypeOK'
  BY <1>1, WriteType DEF HandleCreate, TypeOK
<1> HIDE DEF created
<1>4. ApiTypeOK'
  BY <1>2 DEF HandleCreate, TypeOK, ApiTypeOK, created
<1> QED
  BY <1>3, <1>4 DEF HandleCreate, TypeOK, QueueTypeOK, queueVars, ArchiveTypeOK,
                    FanoutTypeOK, WorkerTypeOK

LEMMA MoveType ==
  ASSUME TypeOK, NEW h \in Handlers, NEW id \in GameIds, NEW uci \in Moves,
         HandleMove(h, id, uci), UNCHANGED wrk
  PROVE  TypeOK'
<1>1. live[id] \in Game
  BY StoredGame DEF HandleMove, TypeOK
<1>2. ApplyMove(live[id], uci) \in Game
  BY <1>1, ApplyMoveType DEF HandleMove
<1>3. ApiTypeOK'
  BY <1>2, StartUpdateType DEF HandleMove, TypeOK
<1> QED
  BY <1>3 DEF HandleMove, TypeOK, LiveTypeOK, QueueTypeOK, queueVars,
              ArchiveTypeOK, FanoutTypeOK, WorkerTypeOK

LEMMA ResignationType ==
  ASSUME TypeOK, NEW h \in Handlers, NEW id \in GameIds,
         HandleResign(h, id), UNCHANGED wrk
  PROVE  TypeOK'
<1>1. live[id] \in Game
  BY StoredGame DEF HandleResign, TypeOK
<1>2. live[id].playerColor \in Colors
  BY <1>1 DEF Game
<1>3. Resign(live[id], live[id].playerColor) \in Game
  BY <1>1, <1>2, ResignType
<1>4. ApiTypeOK'
  BY <1>3, StartUpdateType DEF HandleResign, TypeOK
<1> QED
  BY <1>4 DEF HandleResign, TypeOK, LiveTypeOK, QueueTypeOK, queueVars,
              ArchiveTypeOK, FanoutTypeOK, WorkerTypeOK

LEMMA ServeType ==
  ASSUME TypeOK, NEW h \in Handlers, Serve(h) \/ CrashApi(h), UNCHANGED wrk
  PROVE  TypeOK'
<1>1. CASE Update(h)
  <2>1. api[h] \in BusyHandler
    BY <1>1, HandlerBusy DEF Update, TypeOK
  <2>2. LiveTypeOK'
    BY <1>1, <2>1, WriteType DEF Update, TypeOK, BusyHandler
  <2>3. ApiTypeOK'
    BY <1>1, <2>1, GotoType, FinishType DEF Update, TypeOK, BusyHandler
  <2> QED
    BY <1>1, <2>2, <2>3 DEF Update, TypeOK, QueueTypeOK, queueVars,
                            ArchiveTypeOK, FanoutTypeOK, WorkerTypeOK
<1>2. CASE PublishState(h)
  <2>1. api[h] \in BusyHandler
    BY <1>2, HandlerBusy DEF PublishState, TypeOK
  <2>2. FanoutTypeOK'
    BY <1>2, <2>1, PublishType DEF PublishState, TypeOK, BusyHandler
  <2>3. AfterPublish(api[h].g) \in {"archive", "enqueue", "idle"}
    BY DEF AfterPublish
  <2>4. ApiTypeOK'
    BY <1>2, <2>1, <2>3, GotoType, FinishType DEF PublishState, TypeOK, BusyHandler
  <2> QED
    BY <1>2, <2>2, <2>4 DEF PublishState, TypeOK, LiveTypeOK, QueueTypeOK,
                            queueVars, ArchiveTypeOK, WorkerTypeOK
<1>3. CASE ArchiveGame(h)
  <2>1. api[h] \in BusyHandler
    BY <1>3, HandlerBusy DEF ArchiveGame, TypeOK
  <2>2. ArchiveTypeOK'
    BY <1>3, <2>1, SaveType DEF ArchiveGame, TypeOK, BusyHandler
  <2>3. ApiTypeOK'
    BY <1>3, FinishType DEF ArchiveGame, TypeOK
  <2> QED
    BY <1>3, <2>2, <2>3 DEF ArchiveGame, TypeOK, LiveTypeOK, QueueTypeOK,
                            queueVars, FanoutTypeOK, WorkerTypeOK
<1>4. CASE EnqueueJob(h)
  <2>1. api[h] \in BusyHandler
    BY <1>4, HandlerBusy DEF EnqueueJob, TypeOK
  <2>2. JobOf(api[h].id, api[h].g) \in Job
    BY <2>1 DEF BusyHandler, Game, JobOf, Job
  <2>3. QueueTypeOK'
    BY <1>4, <2>2, EnqueueType DEF EnqueueJob, TypeOK
  <2>4. ApiTypeOK'
    BY <1>4, FinishType DEF EnqueueJob, TypeOK
  <2> QED
    BY <1>4, <2>3, <2>4 DEF EnqueueJob, TypeOK, LiveTypeOK, ArchiveTypeOK,
                            FanoutTypeOK, WorkerTypeOK
<1>5. CASE CrashApi(h)
  <2>1. ApiTypeOK'
    BY <1>5, FinishType DEF CrashApi, TypeOK
  <2> QED
    BY <1>5, <2>1 DEF CrashApi, TypeOK, LiveTypeOK, QueueTypeOK, queueVars,
                      ArchiveTypeOK, FanoutTypeOK, WorkerTypeOK
<1> QED
  BY <1>1, <1>2, <1>3, <1>4, <1>5 DEF Serve

(***************************************************************************)
(* The workers' local variables.                                           *)
(***************************************************************************)
LEMMA WorkerKinds ==
  ASSUME WorkerTypeOK, NEW w \in Workers
  PROVE  /\ wrk[w].pc \in {"update", "publish", "archive"} => wrk[w] \in Working
         /\ wrk[w].pc = "ack" => wrk[w] \in Acking
         /\ wrk[w].pc = "loop" => wrk[w] \in Looping
         /\ wrk[w].batch \subseteq Message
BY DEF WorkerTypeOK, Looping, Working, Acking

LEMMA ResumeType ==
  ASSUME WorkerTypeOK, NEW w \in Workers, NEW batch \in SUBSET Message,
         wrk' = [wrk EXCEPT ![w] = Resume(batch)]
  PROVE  WorkerTypeOK'
<1>1. Resume(batch) \in Looping
  BY DEF Resume, Looping
<1> QED
  BY <1>1 DEF WorkerTypeOK

LEMMA WGotoType ==
  ASSUME WorkerTypeOK, NEW w \in Workers, wrk[w] \in Working,
         NEW pc \in {"publish", "archive", "ack"}, WGoto(w, pc)
  PROVE  WorkerTypeOK'
<1>1. [wrk[w] EXCEPT !.pc = pc] \in Working \cup Acking
  BY DEF Working, Acking
<1> QED
  BY <1>1 DEF WorkerTypeOK, WGoto

LEMMA PollType ==
  ASSUME TypeOK, NEW w \in Workers, Poll(w), UNCHANGED <<api, issued>>
  PROVE  TypeOK'
<1>1. PICK batch \in SUBSET Receivable :
        /\ Receive(batch)
        /\ wrk' = [wrk EXCEPT ![w] = Resume({Deliver(m) : m \in batch})]
  BY DEF Poll
<1>2. {Deliver(m) : m \in batch} \in SUBSET Message
  BY DeliverType DEF Receivable, TypeOK, QueueTypeOK
<1>3. WorkerTypeOK'
  BY <1>1, <1>2, ResumeType DEF TypeOK
<1>4. QueueTypeOK'
  BY <1>1, QueueStepType DEF TypeOK
<1> QED
  BY <1>3, <1>4 DEF Poll, TypeOK, LiveTypeOK, ArchiveTypeOK, FanoutTypeOK, ApiTypeOK

LEMMA ProcessType ==
  ASSUME TypeOK, NEW w \in Workers, Process(w) \/ CrashWorker(w),
         UNCHANGED <<api, issued>>
  PROVE  TypeOK'
<1> USE DEF TypeOK
<1>0. wrk[w].batch \subseteq Message
  BY WorkerKinds
<1>1. CASE \E d \in wrk[w].batch : DropStaleJob(w, d)
  <2>1. PICK d \in wrk[w].batch : DropStaleJob(w, d)
    BY <1>1
  <2>2. [Resume(wrk[w].batch \ {d}) EXCEPT !.pc = "ack", !.cur = d] \in Acking
    BY <1>0, <2>1 DEF Resume, Acking
  <2>3. WorkerTypeOK'
    BY <2>1, <2>2 DEF DropStaleJob, WorkerTypeOK
  <2> QED
    BY <2>1, <2>3 DEF DropStaleJob, LiveTypeOK, QueueTypeOK, queueVars,
                      ArchiveTypeOK, FanoutTypeOK, ApiTypeOK
<1>2. CASE \E d \in wrk[w].batch : \E uci \in Moves : ChooseMove(w, d, uci)
  <2>1. PICK d \in wrk[w].batch, uci \in Moves : ChooseMove(w, d, uci)
    BY <1>2
  <2> DEFINE g == live[d.job.game]
             chosen == [pc |-> "update", batch |-> wrk[w].batch \ {d}, cur |-> d,
                        g |-> ApplyMove(g, uci), prev |-> g.ply]
  <2>2. d \in Message /\ d.job.game \in GameIds
    BY <1>0, <2>1 DEF Message, Job
  <2>3. g \in Game
    BY <2>1, <2>2, StoredGame DEF ChooseMove
  <2>4. ApplyMove(g, uci) \in Game
    BY <2>1, <2>3, ApplyMoveType DEF ChooseMove
  <2>5. chosen \in Working
    BY <1>0, <2>2, <2>3, <2>4 DEF Working, Game
  <2>6. wrk' = [wrk EXCEPT ![w] = chosen]
    BY <2>1 DEF ChooseMove
  <2> HIDE DEF chosen
  <2>7. WorkerTypeOK'
    BY <2>5, <2>6 DEF WorkerTypeOK
  <2> QED
    BY <2>1, <2>7 DEF ChooseMove, LiveTypeOK, QueueTypeOK, queueVars,
                      ArchiveTypeOK, FanoutTypeOK, ApiTypeOK
<1>3. CASE \E d \in wrk[w].batch : FailJob(w, d)
  <2>1. PICK d \in wrk[w].batch : FailJob(w, d)
    BY <1>3
  <2>2. WorkerTypeOK'
    BY <1>0, <2>1, ResumeType DEF FailJob
  <2> QED
    BY <2>1, <2>2 DEF FailJob, LiveTypeOK, QueueTypeOK, queueVars,
                      ArchiveTypeOK, FanoutTypeOK, ApiTypeOK
<1>4. CASE WriteMove(w)
  <2>1. wrk[w] \in Working
    BY <1>4, WorkerKinds DEF WriteMove
  <2>2. wrk[w].g \in Game
    BY <2>1 DEF Working
  <2>3. LiveTypeOK'
    BY <1>4, <2>2, WriteType DEF WriteMove
  <2>4. WorkerTypeOK'
    BY <1>0, <1>4, <2>1, WGotoType, ResumeType DEF WriteMove, DropCurrent
  <2> QED
    BY <1>4, <2>3, <2>4 DEF WriteMove, QueueTypeOK, queueVars,
                            ArchiveTypeOK, FanoutTypeOK, ApiTypeOK
<1>5. CASE PublishMove(w)
  <2>1. wrk[w] \in Working
    BY <1>5, WorkerKinds DEF PublishMove
  <2>2. wrk[w].g \in Game
    BY <2>1 DEF Working
  <2>3. FanoutTypeOK'
    BY <1>5, <2>2, PublishType DEF PublishMove
  <2>4. WorkerTypeOK'
    BY <1>5, <2>1, WGotoType DEF PublishMove
  <2> QED
    BY <1>5, <2>3, <2>4 DEF PublishMove, LiveTypeOK, QueueTypeOK, queueVars,
                            ArchiveTypeOK, ApiTypeOK
<1>6. CASE ArchiveMove(w)
  <2>1. wrk[w] \in Working
    BY <1>6, WorkerKinds DEF ArchiveMove
  <2>2. wrk[w].g \in Game
    BY <2>1 DEF Working
  <2>3. ArchiveTypeOK'
    BY <1>6, <2>2, SaveType DEF ArchiveMove
  <2>4. WorkerTypeOK'
    BY <1>6, <2>1, WGotoType DEF ArchiveMove
  <2> QED
    BY <1>6, <2>3, <2>4 DEF ArchiveMove, LiveTypeOK, QueueTypeOK, queueVars,
                            FanoutTypeOK, ApiTypeOK
<1>7. CASE Ack(w)
  <2>1. QueueTypeOK'
    BY <1>7, QueueStepType DEF Ack
  <2>2. WorkerTypeOK'
    BY <1>0, <1>7, ResumeType DEF Ack, DropCurrent
  <2> QED
    BY <1>7, <2>1, <2>2 DEF Ack, LiveTypeOK, ArchiveTypeOK, FanoutTypeOK, ApiTypeOK
<1>8. CASE CrashWorker(w)
  <2>1. WorkerTypeOK'
    BY <1>8, {} \in SUBSET Message, ResumeType DEF CrashWorker
  <2> QED
    BY <1>8, <2>1 DEF CrashWorker, LiveTypeOK, QueueTypeOK, queueVars,
                      ArchiveTypeOK, FanoutTypeOK, ApiTypeOK
<1> QED
  BY <1>1, <1>2, <1>3, <1>4, <1>5, <1>6, <1>7, <1>8 DEF Process

-----------------------------------------------------------------------------
(***************************************************************************)
(* The services' own steps and the WebSockets.                             *)
(***************************************************************************)
LEMMA SessionType ==
  ASSUME FanoutTypeOK, LiveTypeOK, NEW c \in Watchers,
         \/ Subscribe(c) \/ SendSnapshot(c) \/ SendEvent(c) \/ CloseWS(c)
         \/ \E id \in GameIds : OpenWS(c, id)
  PROVE  FanoutTypeOK'
<1>1. session[c] \in Session
  BY DEF FanoutTypeOK
<1>2. ASSUME NEW t \in Session, session' = [session EXCEPT ![c] = t]
      PROVE  FanoutTypeOK'
  BY <1>2 DEF FanoutTypeOK
<1>3. CASE Subscribe(c)
  <2> DEFINE t == [session[c] EXCEPT !.subscribed = TRUE]
  <2>1. t \in Session
    BY <1>1 DEF Session
  <2>2. session' = [session EXCEPT ![c] = t]
    BY <1>3 DEF Subscribe, FanoutTypeOK
  <2> QED
    BY <1>2, <2>1, <2>2
<1>4. CASE SendSnapshot(c)
  <2> DEFINE t == [session[c] EXCEPT !.view = session[c].snapshot, !.snapshot = Absent]
  <2>1. t \in Session
    BY <1>1 DEF Session
  <2>2. session' = [session EXCEPT ![c] = t]
    BY <1>4 DEF SendSnapshot, FanoutTypeOK
  <2> QED
    BY <1>2, <2>1, <2>2
<1>5. CASE SendEvent(c)
  <2> DEFINE t == [session[c] EXCEPT !.view = Head(session[c].channel),
                                     !.channel = Tail(session[c].channel)]
  <2>1. session[c].channel \in Seq(Game) /\ session[c].channel # <<>>
    BY <1>1, <1>5 DEF SendEvent, Session
  <2>2. Head(session[c].channel) \in Game /\ Tail(session[c].channel) \in Seq(Game)
    BY <2>1
  <2>3. t \in Session
    BY <1>1, <2>2 DEF Session
  <2>4. session' = [session EXCEPT ![c] = t]
    BY <1>5 DEF SendEvent, FanoutTypeOK
  <2> QED
    BY <1>2, <2>3, <2>4
<1>6. CASE CloseWS(c)
  <2> DEFINE t == [ClosedSession EXCEPT !.pc = "gone", !.view = session[c].view]
  <2>1. <<>> \in Seq(Game)
    OBVIOUS
  <2>2. t \in Session
    BY <1>1, <2>1 DEF Session, ClosedSession
  <2>3. session' = [session EXCEPT ![c] = t]
    BY <1>6 DEF CloseWS
  <2> QED
    BY <1>2, <2>2, <2>3
<1>7. CASE \E id \in GameIds : OpenWS(c, id)
  <2>1. PICK id \in GameIds : OpenWS(c, id)
    BY <1>7
  <2> DEFINE t == [session[c] EXCEPT !.pc = "open", !.game = id,
                                     !.snapshot = live[id]]
  <2>2. live[id] \in Game
    BY <2>1, StoredGame DEF OpenWS
  <2>3. t \in Session
    BY <1>1, <2>2 DEF Session
  <2>4. session' = [session EXCEPT ![c] = t]
    BY <2>1 DEF OpenWS, FanoutTypeOK
  <2> QED
    BY <1>2, <2>3, <2>4
<1> QED
  BY <1>3, <1>4, <1>5, <1>6, <1>7

(***************************************************************************)
(* Every step of the system keeps TypeOK.                                  *)
(***************************************************************************)
LEMMA TypeStep ==
  ASSUME TypeOK, [Next]_vars
  PROVE  TypeOK'
<1>1. CASE ApiStep
  BY <1>1, CreateType, MoveType, ResignationType, ServeType
     DEF ApiStep, ApiNext, Request
<1>2. CASE WorkerStep
  BY <1>2, PollType, ProcessType DEF WorkerStep, WorkerNext
<1>3. CASE QueueStep
  <2>1. QueueTypeOK'
    BY <1>3, QueueStepType DEF QueueStep, VisibilityTimeout, DeadLetter, TypeOK
  <2> QED
    BY <1>3, <2>1 DEF QueueStep, VisibilityTimeout, DeadLetter, TypeOK,
       LiveTypeOK, ArchiveTypeOK, FanoutTypeOK, ApiTypeOK, WorkerTypeOK
<1>4. CASE \E id \in GameIds : Expire(id)
  BY <1>4 DEF Expire, ExpireKey, TypeOK, LiveTypeOK, QueueTypeOK, queueVars,
     ArchiveTypeOK, FanoutTypeOK, ApiTypeOK, WorkerTypeOK
<1>5. CASE \E c \in Watchers : Relay(c) \/ Browser(c)
  <2>1. PICK c \in Watchers : Relay(c) \/ Browser(c)
    BY <1>5
  <2>2. FanoutTypeOK'
    BY <2>1, SessionType DEF Relay, Browser, TypeOK
  <2> QED
    BY <2>1, <2>2 DEF Relay, Browser, TypeOK, LiveTypeOK, QueueTypeOK,
       queueVars, ArchiveTypeOK, ApiTypeOK, WorkerTypeOK
<1>6. CASE UNCHANGED vars
  BY <1>6 DEF vars, TypeOK, LiveTypeOK, QueueTypeOK, queueVars,
     ArchiveTypeOK, FanoutTypeOK, ApiTypeOK, WorkerTypeOK
<1> QED
  BY <1>1, <1>2, <1>3, <1>4, <1>5, <1>6 DEF Next

(***************************************************************************)
(* Every variable has its type in every reachable state: no interleaving   *)
(* or failure makes a handler, a worker, the queue, the archive or a       *)
(* session hold something its code could not.                              *)
(***************************************************************************)
THEOREM TypeCorrect == Spec => []TypeOK
<1>1. Init => TypeOK
  <2> SUFFICES ASSUME Init PROVE TypeOK
    OBVIOUS
  <2>1. Resume({}) \in Looping
    BY {} \in SUBSET Message DEF Resume, Looping
  <2>2. ClosedSession \in Session
    BY <<>> \in Seq(Game) DEF ClosedSession, Session
  <2> QED
    BY <2>1, <2>2 DEF Init, TypeOK, LiveInit, LiveTypeOK, QueueInit, QueueTypeOK,
       ArchiveInit, ArchiveTypeOK, FanoutInit, FanoutTypeOK, ApiInit, ApiTypeOK,
       WorkerInit, WorkerTypeOK
<1>2. TypeOK /\ [Next]_vars => TypeOK'
  BY TypeStep
<1> QED
  BY <1>1, <1>2, PTL DEF Spec

-----------------------------------------------------------------------------
Creates(id) ==
  /\ id \notin issued
  /\ issued' = issued \cup {id}
  /\ \/ UNCHANGED live
     \/ \E color \in Colors : live' = [live EXCEPT ![id] = NewGame(color)]

Writes(id) ==
  /\ Exists(id)
  /\ UNCHANGED issued
  /\ \E g \in Game : /\ CopyOK(g)
                     /\ live[id].ply <= g.ply
                     /\ Continues(live[id].moves, g.moves)
                     /\ live' = [live EXCEPT ![id] = g]

Drops(id) ==
  /\ Exists(id)
  /\ UNCHANGED issued
  /\ live' = [live EXCEPT ![id] = Absent]

LiveStep ==
  \/ UNCHANGED <<live, issued>>
  \/ \E id \in GameIds : Creates(id) \/ Writes(id) \/ Drops(id)

(***************************************************************************)
(* Continuing a list never shortens it.                                    *)
(***************************************************************************)
LEMMA ContinuesLength ==
  ASSUME NEW before \in Seq(Moves), NEW after, Continues(before, after)
  PROVE  Len(before) <= Len(after)
BY DEF Continues, LegalMoves

(***************************************************************************)
(* Whatever a conditional write of a fitting copy returns, it is a LiveStep.*)
(***************************************************************************)
LEMMA WriteSteps ==
  ASSUME LiveTypeOK, StoredOK, UNCHANGED issued,
         NEW id \in GameIds, NEW g \in Game, NEW prev \in Nat, Fits(id, g, prev),
         \/ WriteOk(id, g, prev)
         \/ WriteConflict(id, g, prev)
         \/ WriteError(id, g, prev)
  PROVE  LiveStep
<1>1. CASE UNCHANGED live
  BY <1>1 DEF LiveStep
<1>2. CASE CasApplies(id, g, prev)
  <2>1. Exists(id) /\ live[id].ply = prev /\ live' = [live EXCEPT ![id] = g]
    BY <1>2 DEF CasApplies, CasAccepts
  <2>2. live[id] \in Game /\ CopyOK(live[id])
    BY <2>1, StoredGame DEF StoredOK
  <2>3. Continues(live[id].moves, g.moves) /\ CopyOK(g)
    BY <2>1 DEF Fits
  <2>4. live[id].ply <= g.ply
    BY <2>2, <2>3, ContinuesLength DEF CopyOK, Game
  <2> QED
    BY <2>1, <2>3, <2>4 DEF LiveStep, Writes
<1> QED
  BY <1>1, <1>2 DEF WriteOk, WriteConflict, WriteError

(***************************************************************************)
(* A copy that fits goes on fitting, whatever happens to its game.         *)
(***************************************************************************)
LEMMA FitsStable ==
  ASSUME LiveTypeOK, StoredOK, LiveStep,
         NEW id \in GameIds, NEW g \in Game, NEW prev \in Nat, Fits(id, g, prev)
  PROVE  Fits(id, g, prev)'
<1>1. CASE UNCHANGED <<live, issued>>
  BY <1>1 DEF Fits, CopyOK, Exists
<1>2. ASSUME NEW k \in GameIds, Creates(k) PROVE Fits(id, g, prev)'
  <2>1. k # id
    BY <1>2 DEF Creates, Fits
  <2> QED
    BY <1>2, <2>1 DEF Creates, Fits, CopyOK, Exists, LiveTypeOK
<1>3. ASSUME NEW k \in GameIds, Drops(k) PROVE Fits(id, g, prev)'
  BY <1>3 DEF Drops, Fits, CopyOK, Exists, LiveTypeOK
<1>4. ASSUME NEW k \in GameIds, Writes(k) PROVE Fits(id, g, prev)'
  <2>1. CASE k # id
    BY <1>4, <2>1 DEF Writes, Fits, CopyOK, Exists, LiveTypeOK
  <2>2. CASE k = id
    <3>1. PICK n \in Game : /\ CopyOK(n)
                            /\ live[id].ply <= n.ply
                            /\ Continues(live[id].moves, n.moves)
                            /\ live' = [live EXCEPT ![id] = n]
      BY <1>4, <2>2 DEF Writes
    <3>2. live'[id] = n /\ issued' = issued /\ Exists(id)
      BY <1>4, <2>2, <3>1 DEF Writes, LiveTypeOK
    <3>3. live[id] \in Game /\ CopyOK(live[id])
      BY <3>2, StoredGame DEF StoredOK
    <3>4. prev <= live[id].ply /\ live[id].ply \in Nat /\ n.ply \in Nat
      <4>1. prev <= live[id].ply
        BY <3>2 DEF Fits
      <4> QED
        BY <3>3, <4>1 DEF Game
    <3>5. prev <= n.ply
      BY <3>1, <3>4
    <3>6. ASSUME prev = n.ply PROVE Continues(n.moves, g.moves)
      <4>1. prev = live[id].ply /\ n.ply = live[id].ply
        BY <3>1, <3>4, <3>6
      <4>2. Len(n.moves) = Len(live[id].moves)
        BY <3>1, <3>3, <4>1 DEF CopyOK
      <4>3. live[id].moves \in Seq(Moves)
        BY <3>3 DEF Game
      <4>4. n.moves = live[id].moves
        <5> SUFFICES ASSUME NEW uci \in Moves,
                            n.moves = Append(live[id].moves, uci)
                     PROVE  FALSE
          BY <3>1 DEF Continues, LegalMoves
        <5>1. Len(n.moves) = Len(live[id].moves) + 1 /\ Len(live[id].moves) \in Nat
          BY <4>3
        <5> QED
          BY <4>2, <5>1
      <4> QED
        BY <3>2, <4>1, <4>4 DEF Fits
    <3> QED
      BY <3>2, <3>5, <3>6 DEF Fits, CopyOK, Continues
  <2> QED
    BY <2>1, <2>2
<1> QED
  BY <1>1, <1>2, <1>3, <1>4 DEF LiveStep

(***************************************************************************)
(* Stored games stay coherent under every LiveStep.                        *)
(***************************************************************************)
LEMMA StoredStable ==
  ASSUME LiveTypeOK, StoredOK, LiveStep
  PROVE  StoredOK'
<1> SUFFICES ASSUME NEW id \in GameIds, Exists(id)'
             PROVE  id \in issued' /\ CopyOK(live'[id])
  BY DEF StoredOK, CopyOK
<1>1. CASE UNCHANGED <<live, issued>>
  BY <1>1 DEF StoredOK, Exists
<1>2. ASSUME NEW k \in GameIds, Creates(k)
      PROVE  id \in issued' /\ CopyOK(live'[id])
  <2>1. \A color \in Colors : CopyOK(NewGame(color))
    BY RulesAssumption DEF CopyOK, NewGame
  <2> QED
    BY <1>2, <2>1 DEF Creates, StoredOK, Exists, LiveTypeOK
<1>3. ASSUME NEW k \in GameIds, Writes(k) \/ Drops(k)
      PROVE  id \in issued' /\ CopyOK(live'[id])
  BY <1>3 DEF Writes, Drops, StoredOK, Exists, LiveTypeOK
<1> QED
  BY <1>1, <1>2, <1>3 DEF LiveStep

-----------------------------------------------------------------------------
(***************************************************************************)
(* A copy fits when it is made, from a game of the store.                  *)
(***************************************************************************)
LEMMA MoveFits ==
  ASSUME LiveTypeOK, StoredOK, NEW id \in GameIds, NEW color, NEW uci \in Moves,
         Exists(id), CanApplyMove(live[id], color, uci)
  PROVE  Fits(id, ApplyMove(live[id], uci), live[id].ply)
<1>1. live[id] \in Game /\ id \in issued /\ CopyOK(live[id])
  BY StoredGame DEF StoredOK
<1> DEFINE g == ApplyMove(live[id], uci)
<1>2. /\ g.moves = Append(live[id].moves, uci)
      /\ g.moves \in Positions
      /\ g.ply = Len(live[id].moves) + 1
      /\ g.status = "ongoing" <=> Outcome[Append(live[id].moves, uci)] = NoOutcome
  BY <1>1, ApplyMoveType
<1>3. live[id].moves \in Seq(Moves) /\ live[id].ply \in Nat
      /\ live[id].status \in {"ongoing", "finished"}
  BY <1>1 DEF Game
<1> HIDE DEF g
<1>4. CopyOK(g)
  BY <1>2, <1>3 DEF CopyOK
<1>5. Continues(live[id].moves, g.moves)
  BY <1>1, <1>2, <1>3 DEF Continues, CopyOK, CanApplyMove
<1>6. live[id].ply <= live[id].ply
  BY <1>3
<1> QED
  BY <1>1, <1>4, <1>5, <1>6 DEF Fits, g

LEMMA ResignFits ==
  ASSUME LiveTypeOK, StoredOK, NEW id \in GameIds, NEW color \in Colors, Exists(id)
  PROVE  Fits(id, Resign(live[id], color), live[id].ply)
<1>1. live[id] \in Game /\ id \in issued /\ CopyOK(live[id])
  BY StoredGame DEF StoredOK
<1>2. CopyOK(Resign(live[id], color))
  BY <1>1, ResignType DEF CopyOK
<1>3. Continues(live[id].moves, Resign(live[id], color).moves)
  BY <1>1, ResignType DEF Continues
<1>4. live[id].ply \in Nat
  BY <1>1 DEF Game
<1>5. live[id].ply <= live[id].ply
  BY <1>4
<1> QED
  BY <1>1, <1>2, <1>3, <1>5 DEF Fits

(***************************************************************************)
(* The new values a handler or a worker can have at "update": the old ones *)
(* or a copy it just made.                                                 *)
(***************************************************************************)
HandlersFit ==
  \A h \in Handlers : api'[h].pc = "update" =>
    \/ api'[h] = api[h]
    \/ /\ UNCHANGED <<live, issued>>
       /\ Fits(api'[h].id, api'[h].g, api'[h].prev)

WorkersFit ==
  \A w \in Workers : wrk'[w].pc = "update" =>
    \/ wrk'[w] = wrk[w]
    \/ /\ UNCHANGED <<live, issued>>
       /\ Fits(wrk'[w].cur.job.game, wrk'[w].g, wrk'[w].prev)

LEMMA StartFits ==
  ASSUME TypeOK, UNCHANGED <<live, issued>>, NEW h \in Handlers,
         NEW id \in GameIds, NEW g, StartUpdate(h, id, g),
         Fits(id, g, live[id].ply)
  PROVE  HandlersFit
BY DEF HandlersFit, StartUpdate, TypeOK, ApiTypeOK

LEMMA HandlerLeaves ==
  ASSUME ApiTypeOK, NEW h \in Handlers, api[h].pc # "idle",
         Finish(h) \/ \E pc \in {"publish", "archive", "enqueue"} : Goto(h, pc)
  PROVE  HandlersFit
<1>1. CASE Finish(h)
  BY <1>1 DEF Finish, HandlersFit, ApiTypeOK, IdleHandler
<1>2. ASSUME NEW pc \in {"publish", "archive", "enqueue"}, Goto(h, pc)
      PROVE  HandlersFit
  <2> DEFINE r == [api[h] EXCEPT !.pc = pc]
  <2>1. api[h] \in BusyHandler
    BY HandlerBusy
  <2>2. r.pc = pc
    BY <2>1 DEF BusyHandler
  <2>3. api' = [api EXCEPT ![h] = r]
    BY <1>2 DEF Goto
  <2> HIDE DEF r
  <2> QED
    BY <2>2, <2>3 DEF HandlersFit, ApiTypeOK
<1> QED
  BY <1>1, <1>2

LEMMA WorkerLeaves ==
  ASSUME WorkerTypeOK, NEW w \in Workers,
         \/ \E r : r.pc # "update" /\ wrk' = [wrk EXCEPT ![w] = r]
         \/ wrk[w] \in Working /\ \E pc \in {"publish", "archive", "ack"} : WGoto(w, pc)
  PROVE  WorkersFit
<1>1. ASSUME NEW r, r.pc # "update", wrk' = [wrk EXCEPT ![w] = r]
      PROVE  WorkersFit
  BY <1>1 DEF WorkersFit, WorkerTypeOK
<1>2. ASSUME wrk[w] \in Working,
             NEW pc \in {"publish", "archive", "ack"}, WGoto(w, pc)
      PROVE  WorkersFit
  <2> DEFINE r == [wrk[w] EXCEPT !.pc = pc]
  <2>1. r.pc = pc
    BY <1>2 DEF Working
  <2>2. wrk' = [wrk EXCEPT ![w] = r]
    BY <1>2 DEF WGoto
  <2> HIDE DEF r
  <2> QED
    BY <1>1, <2>1, <2>2
<1> QED
  BY <1>1, <1>2

LEMMA ApiSteps ==
  ASSUME TypeOK, CopiesFit, ApiNext
  PROVE  LiveStep /\ HandlersFit
<1>1. LiveTypeOK /\ StoredOK /\ ApiTypeOK
  BY DEF TypeOK, CopiesFit
<1>2. ASSUME NEW h \in Handlers, NEW id \in GameIds, NEW color \in Colors,
             HandleCreate(h, id, color)
      PROVE  LiveStep /\ HandlersFit
  <2>1. Creates(id)
    BY <1>2 DEF HandleCreate, Creates, WriteOk, WriteConflict, WriteError, CasApplies
  <2>2. HandlersFit
    BY <1>1, <1>2 DEF HandleCreate, HandlersFit, ApiTypeOK, IdleHandler
  <2> QED
    BY <2>1, <2>2 DEF LiveStep
<1>3. ASSUME NEW h \in Handlers, NEW id \in GameIds, NEW uci \in Moves,
             HandleMove(h, id, uci)
      PROVE  LiveStep /\ HandlersFit
  <2>1. Fits(id, ApplyMove(live[id], uci), live[id].ply)
    BY <1>1, <1>3, MoveFits DEF HandleMove
  <2> QED
    BY <1>3, <2>1, StartFits DEF HandleMove, LiveStep
<1>4. ASSUME NEW h \in Handlers, NEW id \in GameIds, HandleResign(h, id)
      PROVE  LiveStep /\ HandlersFit
  <2>1. live[id].playerColor \in Colors
    BY <1>1, <1>4, StoredGame DEF HandleResign, Game
  <2>2. Fits(id, Resign(live[id], live[id].playerColor), live[id].ply)
    BY <1>1, <1>4, <2>1, ResignFits DEF HandleResign
  <2> QED
    BY <1>4, <2>2, StartFits DEF HandleResign, LiveStep
<1>5. ASSUME NEW h \in Handlers, Update(h)
      PROVE  LiveStep /\ HandlersFit
  <2>1. api[h] \in BusyHandler /\ Fits(api[h].id, api[h].g, api[h].prev)
    BY <1>1, <1>5, HandlerBusy DEF Update, CopiesFit
  <2>2. LiveStep
    BY <1>1, <1>5, <2>1, WriteSteps DEF Update, BusyHandler
  <2>3. HandlersFit
    BY <1>1, <1>5, HandlerLeaves DEF Update
  <2> QED
    BY <2>2, <2>3
<1>6. ASSUME NEW h \in Handlers,
             PublishState(h) \/ ArchiveGame(h) \/ EnqueueJob(h) \/ CrashApi(h)
      PROVE  LiveStep /\ HandlersFit
  <2>1. UNCHANGED <<live, issued>>
    BY <1>6 DEF PublishState, ArchiveGame, EnqueueJob, CrashApi
  <2>2. /\ api[h].pc # "idle"
        /\ Finish(h) \/ \E pc \in {"archive", "enqueue"} : Goto(h, pc)
    BY <1>6 DEF PublishState, ArchiveGame, EnqueueJob, CrashApi, AfterPublish
  <2>3. HandlersFit
    BY <1>1, <2>2, HandlerLeaves
  <2> QED
    BY <2>1, <2>3 DEF LiveStep
<1> QED
  BY <1>2, <1>3, <1>4, <1>5, <1>6 DEF ApiNext, Request, Serve

LEMMA WorkerSteps ==
  ASSUME TypeOK, CopiesFit, WorkerNext, UNCHANGED issued
  PROVE  LiveStep /\ WorkersFit
<1>1. LiveTypeOK /\ StoredOK /\ WorkerTypeOK
  BY DEF TypeOK, CopiesFit
<1>2. \A batch : Resume(batch).pc = "loop"
  BY DEF Resume
<1>3. ASSUME NEW w \in Workers, NEW d \in wrk[w].batch, NEW uci \in Moves,
             ChooseMove(w, d, uci)
      PROVE  LiveStep /\ WorkersFit
  <2>1. d.job.game \in GameIds
    BY <1>1, <1>3, WorkerKinds DEF Message, Job
  <2>2. Fits(d.job.game, ApplyMove(live[d.job.game], uci), live[d.job.game].ply)
    BY <1>1, <1>3, <2>1, MoveFits DEF ChooseMove
  <2>3. WorkersFit
    BY <1>1, <1>3, <2>2 DEF ChooseMove, WorkersFit, WorkerTypeOK
  <2> QED
    BY <1>3, <2>3 DEF ChooseMove, LiveStep
<1>4. ASSUME NEW w \in Workers, WriteMove(w)
      PROVE  LiveStep /\ WorkersFit
  <2>1. wrk[w] \in Working /\ Fits(wrk[w].cur.job.game, wrk[w].g, wrk[w].prev)
    BY <1>1, <1>4, WorkerKinds DEF WriteMove, CopiesFit
  <2>2. wrk[w].cur.job.game \in GameIds /\ wrk[w].g \in Game /\ wrk[w].prev \in Nat
    BY <2>1 DEF Working, Message, Job
  <2>3. LiveStep
    BY <1>1, <1>4, <2>1, <2>2, WriteSteps DEF WriteMove
  <2>4. WorkersFit
    BY <1>1, <1>2, <1>4, <2>1, WorkerLeaves DEF WriteMove, DropCurrent
  <2> QED
    BY <2>3, <2>4
<1>5. ASSUME NEW w \in Workers,
             \/ Poll(w)
             \/ \E d \in wrk[w].batch : DropStaleJob(w, d) \/ FailJob(w, d)
             \/ PublishMove(w) \/ ArchiveMove(w) \/ Ack(w) \/ CrashWorker(w)
      PROVE  LiveStep /\ WorkersFit
  <2>1. UNCHANGED <<live, issued>>
    BY <1>5 DEF Poll, DropStaleJob, FailJob, PublishMove, ArchiveMove, Ack, CrashWorker
  <2>2. CASE Poll(w) \/ Ack(w) \/ CrashWorker(w)
    BY <1>1, <1>2, <2>1, <2>2, WorkerLeaves
       DEF Poll, Ack, CrashWorker, DropCurrent, LiveStep
  <2>3. CASE \E d \in wrk[w].batch : DropStaleJob(w, d) \/ FailJob(w, d)
    <3>1. PICK d \in wrk[w].batch : DropStaleJob(w, d) \/ FailJob(w, d)
      BY <2>3
    <3> DEFINE acking == [Resume(wrk[w].batch \ {d}) EXCEPT !.pc = "ack", !.cur = d]
    <3>2. acking.pc = "ack"
      BY DEF Resume
    <3>3. \/ wrk' = [wrk EXCEPT ![w] = acking]
          \/ wrk' = [wrk EXCEPT ![w] = Resume(wrk[w].batch \ {d})]
      BY <3>1 DEF DropStaleJob, FailJob
    <3> HIDE DEF acking
    <3>4. WorkersFit
      BY <1>1, <1>2, <3>2, <3>3, WorkerLeaves
    <3> QED
      BY <2>1, <3>4 DEF LiveStep
  <2>4. CASE PublishMove(w) \/ ArchiveMove(w)
    <3>1. wrk[w] \in Working
      BY <1>1, <2>4, WorkerKinds DEF PublishMove, ArchiveMove
    <3>2. \E pc \in {"archive", "ack"} : WGoto(w, pc)
      BY <2>4 DEF PublishMove, ArchiveMove
    <3>3. WorkersFit
      BY <1>1, <3>1, <3>2, WorkerLeaves
    <3> QED
      BY <2>1, <3>3 DEF LiveStep
  <2> QED
    BY <1>5, <2>2, <2>3, <2>4
<1> QED
  BY <1>3, <1>4, <1>5 DEF WorkerNext, Process

LEMMA NextSteps ==
  ASSUME TypeOK, CopiesFit, [Next]_vars
  PROVE  LiveStep /\ HandlersFit /\ WorkersFit
<1>1. UNCHANGED wrk => WorkersFit
  BY DEF WorkersFit
<1>2. UNCHANGED api => HandlersFit
  BY DEF HandlersFit
<1>3. CASE ApiStep
  BY <1>1, <1>3, ApiSteps DEF ApiStep
<1>4. CASE WorkerStep
  BY <1>2, <1>4, WorkerSteps DEF WorkerStep
<1>5. CASE QueueStep \/ (\E c \in Watchers : Relay(c) \/ Browser(c)) \/ UNCHANGED vars
  BY <1>1, <1>2, <1>5 DEF QueueStep, VisibilityTimeout, DeadLetter, Relay, Browser,
                          vars, LiveStep
<1>6. CASE \E id \in GameIds : Expire(id)
  BY <1>1, <1>2, <1>6 DEF Expire, ExpireKey, LiveStep, Drops
<1> QED
  BY <1>3, <1>4, <1>5, <1>6 DEF Next

-----------------------------------------------------------------------------
(***************************************************************************)
(* Every copy on its way to the store fits, in every reachable state: the  *)
(* inductive invariant behind the other theorems.                          *)
(***************************************************************************)
LEMMA CopiesFitStep ==
  ASSUME TypeOK, CopiesFit, [Next]_vars
  PROVE  CopiesFit'
<1>1. LiveStep /\ HandlersFit /\ WorkersFit
  BY NextSteps
<1>2. LiveTypeOK /\ StoredOK
  BY DEF TypeOK, CopiesFit
<1>3. TypeOK'
  BY TypeStep
<1>4. ASSUME NEW h \in Handlers, api'[h].pc = "update"
      PROVE  Fits(api[h].id, api[h].g, api[h].prev)'
  <2>1. CASE api'[h] = api[h]
    <3>1. api[h] \in BusyHandler /\ Fits(api[h].id, api[h].g, api[h].prev)
      BY <1>4, <2>1, HandlerBusy DEF TypeOK, CopiesFit
    <3> DEFINE id == api[h].id
               g == api[h].g
               prev == api[h].prev
    <3>2. id \in GameIds /\ g \in Game /\ prev \in Nat
      BY <1>4, <2>1, <3>1 DEF BusyHandler
    <3> QED
      BY <1>1, <1>2, <2>1, <3>1, <3>2, FitsStable DEF Fits, CopyOK, Exists
  <2>2. CASE UNCHANGED <<live, issued>> /\ Fits(api'[h].id, api'[h].g, api'[h].prev)
    BY <2>2 DEF Fits, CopyOK, Exists
  <2> QED
    BY <1>1, <1>4, <2>1, <2>2 DEF HandlersFit
<1>5. ASSUME NEW w \in Workers, wrk'[w].pc = "update"
      PROVE  Fits(wrk[w].cur.job.game, wrk[w].g, wrk[w].prev)'
  <2>1. CASE wrk'[w] = wrk[w]
    <3>1. wrk[w] \in Working /\ Fits(wrk[w].cur.job.game, wrk[w].g, wrk[w].prev)
      BY <1>5, <2>1, WorkerKinds DEF TypeOK, CopiesFit
    <3>2. /\ wrk[w].cur.job.game \in GameIds
          /\ wrk[w].g \in Game
          /\ wrk[w].prev \in Nat
      BY <3>1 DEF Working, Message, Job
    <3> QED
      BY <1>1, <1>2, <2>1, <3>1, <3>2, FitsStable DEF Fits, CopyOK, Exists
  <2>2. CASE /\ UNCHANGED <<live, issued>>
             /\ Fits(wrk'[w].cur.job.game, wrk'[w].g, wrk'[w].prev)
    BY <2>2 DEF Fits, CopyOK, Exists
  <2> QED
    BY <1>1, <1>5, <2>1, <2>2 DEF WorkersFit
<1>6. StoredOK'
  BY <1>1, <1>2, StoredStable
<1> QED
  BY <1>4, <1>5, <1>6 DEF CopiesFit

THEOREM CopiesAlwaysFit == Spec => []CopiesFit
<1>1. Init => CopiesFit
  BY DEF Init, LiveInit, ApiInit, WorkerInit, IdleHandler, Resume, CopiesFit,
         StoredOK, Exists
<1>2. TypeOK /\ CopiesFit /\ [Next]_vars => CopiesFit'
  BY CopiesFitStep
<1> QED
  BY <1>1, <1>2, TypeCorrect, PTL DEF Spec

(***************************************************************************)
(* A stored move list is never rewritten, shortened or branched: whatever  *)
(* races, retries and failures happen, it stays or grows by a legal move.  *)
(***************************************************************************)
THEOREM AppendOnly == Spec => MoveLogAppendOnly
<1> DEFINE Step == \A id \in GameIds : Exists(id) /\ Exists(id)' =>
                     \/ live'[id].moves = live[id].moves
                     \/ \E uci \in LegalMoves(live[id].moves) :
                          live'[id].moves = Append(live[id].moves, uci)
<1>1. ASSUME TypeOK, CopiesFit, [Next]_vars PROVE Step
  <2>1. LiveStep /\ LiveTypeOK /\ StoredOK
    BY <1>1, NextSteps DEF TypeOK, CopiesFit
  <2> SUFFICES ASSUME NEW id \in GameIds, Exists(id), Exists(id)'
               PROVE  \/ live'[id].moves = live[id].moves
                      \/ \E uci \in LegalMoves(live[id].moves) :
                           live'[id].moves = Append(live[id].moves, uci)
    OBVIOUS
  <2>2. ASSUME NEW k \in GameIds, Creates(k) PROVE live'[id] = live[id]
    BY <2>1, <2>2 DEF Creates, StoredOK, LiveTypeOK
  <2>3. ASSUME NEW k \in GameIds, Drops(k) PROVE live'[id] = live[id]
    BY <2>1, <2>3 DEF Drops, Exists, LiveTypeOK
  <2>4. ASSUME NEW k \in GameIds, Writes(k)
        PROVE  live'[id] = live[id] \/ Continues(live[id].moves, live'[id].moves)
    BY <2>1, <2>4 DEF Writes, LiveTypeOK
  <2> QED
    BY <2>1, <2>2, <2>3, <2>4 DEF LiveStep, Continues
<1>2. TypeOK /\ CopiesFit /\ [Next]_vars => [Step]_vars
  BY <1>1
<1> QED
  BY <1>2, TypeCorrect, CopiesAlwaysFit, PTL DEF Spec, MoveLogAppendOnly

(***************************************************************************)
(* A game that expired is never recreated by a writer that still holds it. *)
(***************************************************************************)
THEOREM ExpiredForGood == Spec => ExpiredStaysExpired
<1> DEFINE Step == \A id \in issued : ~Exists(id) => ~Exists(id)'
<1>1. ASSUME TypeOK, CopiesFit, [Next]_vars PROVE Step
  <2>1. LiveStep /\ LiveTypeOK /\ issued \subseteq GameIds
    BY <1>1, NextSteps DEF TypeOK, ApiTypeOK
  <2> QED
    BY <2>1 DEF LiveStep, Creates, Writes, Drops, Exists, LiveTypeOK
<1>2. TypeOK /\ CopiesFit /\ [Next]_vars => [Step]_vars
  BY <1>1
<1> QED
  BY <1>2, TypeCorrect, CopiesAlwaysFit, PTL DEF Spec, ExpiredStaysExpired

(***************************************************************************)
(* The move lists of the live games implement the abstract game logs.      *)
(***************************************************************************)
THEOREM Refinement == Spec => ImplementsGameLog
<1> DEFINE theLog == [id \in GameIds |-> LogOf(id)]
<1>1. Init => GL!LogInit
  BY DEF Init, LiveInit, ApiInit, GL!LogInit, LogOf, Exists
<1>2. ASSUME TypeOK, CopiesFit, [Next]_vars PROVE [GL!LogNext]_theLog
  <2>1. LiveStep /\ LiveTypeOK /\ StoredOK
    BY <1>2, NextSteps DEF TypeOK, CopiesFit
  <2>2. CASE UNCHANGED <<live, issued>>
    BY <2>2 DEF LogOf, Exists
  <2>3. ASSUME NEW id \in GameIds, Creates(id) PROVE [GL!LogNext]_theLog
    <3>1. theLog[id] = NotStarted
      BY <2>1, <2>3 DEF Creates, LogOf, StoredOK
    <3>2. CASE UNCHANGED live
      <4>1. theLog' = [theLog EXCEPT ![id] = Gone]
        BY <2>1, <2>3, <3>2 DEF Creates, LogOf, StoredOK, Exists
      <4> QED
        BY <4>1 DEF GL!LogNext, GL!Forget
    <3>3. CASE \E color \in Colors : live' = [live EXCEPT ![id] = NewGame(color)]
      <4>1. live'[id] # Absent /\ live'[id].moves = <<>>
        <5>1. PICK color \in Colors : live' = [live EXCEPT ![id] = NewGame(color)]
          BY <3>3
        <5>2. live'[id] = NewGame(color)
          BY <2>1, <5>1 DEF LiveTypeOK
        <5>3. NewGame(color) \in Game /\ NewGame(color).moves = <<>>
          BY NewGameType DEF NewGame
        <5> QED
          BY <5>2, <5>3, AbsentAssumption
      <4>2. theLog' = [theLog EXCEPT ![id] = <<>>]
        BY <2>1, <2>3, <3>3, <4>1 DEF Creates, LogOf, Exists, LiveTypeOK
      <4> QED
        BY <3>1, <4>2 DEF GL!LogNext, GL!Start
    <3> QED
      BY <2>3, <3>2, <3>3 DEF Creates
  <2>4. ASSUME NEW id \in GameIds, Drops(id) PROVE [GL!LogNext]_theLog
    <3>1. theLog' = [theLog EXCEPT ![id] = Gone]
      BY <2>1, <2>4 DEF Drops, LogOf, Exists, StoredOK, LiveTypeOK
    <3> QED
      BY <3>1 DEF GL!LogNext, GL!Forget
  <2>5. ASSUME NEW id \in GameIds, Writes(id) PROVE [GL!LogNext]_theLog
    <3>1. PICK g \in Game : /\ Continues(live[id].moves, g.moves)
                            /\ live' = [live EXCEPT ![id] = g]
      BY <2>5 DEF Writes
    <3>2. Exists(id) /\ issued' = issued /\ live[id].moves \in Positions
      BY <2>1, <2>5 DEF Writes, StoredOK, CopyOK
    <3>3. theLog[id] = live[id].moves
      BY <3>2 DEF LogOf
    <3>4. theLog' = [theLog EXCEPT ![id] = g.moves]
      BY <2>1, <3>1, <3>2, AbsentAssumption DEF LogOf, Exists, LiveTypeOK
    <3>5. CASE g.moves = live[id].moves
      BY <3>3, <3>4, <3>5
    <3>6. ASSUME NEW uci \in LegalMoves(live[id].moves),
                 Outcome[live[id].moves] = NoOutcome,
                 g.moves = Append(live[id].moves, uci)
          PROVE  GL!Play(id, uci) /\ uci \in Moves
      <4>1. theLog[id] \in Positions /\ Outcome[theLog[id]] = NoOutcome
        BY <3>2, <3>3, <3>6
      <4>2. uci \in Moves /\ uci \in GL!LegalMoves(theLog[id])
        BY <3>3, <3>6 DEF LegalMoves, GL!LegalMoves
      <4>3. theLog' = [theLog EXCEPT ![id] = Append(theLog[id], uci)]
        BY <3>3, <3>4, <3>6
      <4> QED
        BY <4>1, <4>2, <4>3 DEF GL!Play, GL!NoOutcome, NoOutcome
    <3> QED
      BY <3>1, <3>5, <3>6 DEF Continues, GL!LogNext
  <2> QED
    BY <2>1, <2>2, <2>3, <2>4, <2>5 DEF LiveStep
<1>3. TypeOK /\ CopiesFit /\ [Next]_vars => [GL!LogNext]_theLog
  BY <1>2
<1> QED
  BY <1>1, <1>3, TypeCorrect, CopiesAlwaysFit, PTL
     DEF Spec, ImplementsGameLog, GL!LogSpec

=============================================================================
