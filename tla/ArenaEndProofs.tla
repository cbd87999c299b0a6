---------------------------- MODULE ArenaEndProofs --------------------------
(***************************************************************************)
(* What everybody outside the store may rely on, for every number of       *)
(* handlers, workers and browsers, every set of rules and every failure:   *)
(* what was told stays true, a game the rules have ended is final, and the *)
(* archive agrees with the store but for resignations that were undone.    *)
(*                                                                         *)
(* The argument: whoever tells a state got it from the store, or has just  *)
(* stored it; from then on the stored list of moves only grows, so what    *)
(* was told remains a prefix of it (ToldFits).  A record the rules have    *)
(* ended is determined by its moves and its player's colour, and cannot be *)
(* continued; so an archived prefix that ended is the whole list.          *)
(***************************************************************************)
EXTENDS ArenaJobProofs

(***************************************************************************)
(* A past or present state of the game id.                                 *)
(***************************************************************************)
Past(id, g) ==
  /\ SameGame(id, g)
  /\ Exists(id) => IsPrefix(g.moves, live[id].moves)

(***************************************************************************)
(* The states a session shows or is going to show.                         *)
(***************************************************************************)
Shows(s) == ({s.view, s.snapshot} \cup Range(s.channel)) \ {Absent}

(***************************************************************************)
(* The finished game a row was made of.                                    *)
(***************************************************************************)
GameOf(row) ==
  [moves |-> row.moves, ply |-> row.ply, playerColor |-> row.playerColor,
   status |-> "finished", result |-> row.result, termination |-> row.termination]

HandlerTells(r) == r.pc \in {"publish", "archive", "enqueue"} => Past(r.id, r.g)
WorkerTells(r)  == r.pc \in {"publish", "archive"} => Past(r.cur.job.game, r.g)
SessionTells(s) ==
  /\ s.pc = "closed" => s = ClosedSession
  /\ s.game \in GameIds => \A g \in Shows(s) : Past(s.game, g)
RowTells(id)    == \A g \in {GameOf(archive[id])} : Coherent(g) /\ Past(id, g)

ToldFits ==
  /\ \A h \in Handlers : \A r \in {api[h]} : HandlerTells(r)
  /\ \A w \in Workers  : \A r \in {wrk[w]} : WorkerTells(r)
  /\ \A c \in Watchers : \A s \in {session[c]} : SessionTells(s)
  /\ \A id \in Archived : RowTells(id)

-----------------------------------------------------------------------------
(***************************************************************************)
(* What is past stays past.                                                *)
(***************************************************************************)
LEMMA PastStable ==
  ASSUME LiveTypeOK, LiveStep, Keeps, NEW id \in GameIds,
         NEW g, g.moves \in Seq(Moves), Past(id, g)
  PROVE  Past(id, g)'
<1>1. SameGame(id, g)' /\ id \in issued
  BY SameGameStable DEF Past, SameGame
<1> SUFFICES ASSUME Exists(id)' PROVE IsPrefix(g.moves, live'[id].moves)
  BY <1>1 DEF Past
<1>2. CASE live'[id] = live[id]
  BY <1>2 DEF Past, Exists
<1>3. ASSUME Exists(id), Continues(live[id].moves, live'[id].moves)
      PROVE  IsPrefix(g.moves, live'[id].moves)
  <2>1. live[id].moves \in Seq(Moves) /\ IsPrefix(g.moves, live[id].moves)
    BY <1>3, StoredGame DEF Game, Past
  <2> QED
    BY <1>3, <2>1, PrefixGrows DEF Continues, LegalMoves
<1>4. \/ live'[id] = live[id]
      \/ Exists(id) /\ Continues(live[id].moves, live'[id].moves)
  <2>1. ASSUME NEW k \in GameIds, Creates(k) PROVE live'[id] = live[id]
    BY <1>1, <2>1 DEF Creates, LiveTypeOK
  <2>2. ASSUME NEW k \in GameIds, Drops(k) PROVE live'[id] = live[id]
    BY <2>2 DEF Drops, LiveTypeOK, Exists
  <2>3. ASSUME NEW k \in GameIds, Writes(k)
        PROVE  \/ live'[id] = live[id]
               \/ Exists(id) /\ Continues(live[id].moves, live'[id].moves)
    BY <2>3 DEF Writes, LiveTypeOK
  <2> QED
    BY <2>1, <2>2, <2>3 DEF LiveStep
<1> QED
  BY <1>2, <1>3, <1>4

(***************************************************************************)
(* A state that is in the store, before or after the step, is past.        *)
(***************************************************************************)
LEMMA StoredIsPast ==
  ASSUME NEW id, NEW g \in Game, id \in issued, live[id] = g
  PROVE  Past(id, g)
BY PrefixReflexive DEF Past, SameGame, Game

-----------------------------------------------------------------------------
(***************************************************************************)
(* The handlers.  What a handler comes to tell is in the store after the   *)
(* step, or it could tell it before.                                       *)
(***************************************************************************)
HandlersTell ==
  \A h \in Handlers : \A r \in {api'[h]} : HandlerTells(r) \/ HandlerTells(r)'

LEMMA OneHandlerTells ==
  ASSUME TypeOK, ToldFits, NEW h \in Handlers, NEW t,
         api' = [api EXCEPT ![h] = t], HandlerTells(t) \/ HandlerTells(t)'
  PROVE  HandlersTell
<1> SUFFICES ASSUME NEW k \in Handlers, NEW r \in {api'[k]}
             PROVE  HandlerTells(r) \/ HandlerTells(r)'
  BY DEF HandlersTell
<1>1. CASE k = h
  <2>1. r = t
    BY <1>1 DEF TypeOK, ApiTypeOK
  <2> QED
    BY <2>1
<1>2. CASE k # h
  <2>1. r \in {api[k]}
    BY <1>2 DEF TypeOK, ApiTypeOK
  <2> QED
    BY <2>1 DEF ToldFits
<1> QED
  BY <1>1, <1>2

LEMMA FinishTells ==
  ASSUME TypeOK, ToldFits, NEW h \in Handlers, Finish(h)
  PROVE  HandlersTell
BY OneHandlerTells DEF Finish, IdleHandler, HandlerTells

LEMMA StartTells ==
  ASSUME TypeOK, ToldFits, NEW h \in Handlers, NEW id, NEW g, StartUpdate(h, id, g)
  PROVE  HandlersTell
<1>1. PICK t : t = [pc |-> "update", id |-> id, g |-> g, prev |-> live[id].ply]
  OBVIOUS
<1>2. HandlerTells(t)
  BY <1>1 DEF HandlerTells
<1> QED
  BY <1>1, <1>2, OneHandlerTells DEF StartUpdate

LEMMA CreateTells ==
  ASSUME TypeOK, ToldFits, NEW h \in Handlers, NEW id \in GameIds,
         NEW color \in Colors, HandleCreate(h, id, color)
  PROVE  HandlersTell
<1> DEFINE g == NewGame(color)
           created == [pc |-> "enqueue", id |-> id, g |-> g, prev |-> 0]
<1>1. CASE UNCHANGED api
  BY <1>1 DEF HandlersTell, ToldFits
<1>2. CASE api' = [api EXCEPT ![h] = IdleHandler]
  BY <1>2, FinishTells DEF Finish
<1>3. CASE WriteOk(id, g, -1) /\ api' = [api EXCEPT ![h] = created]
  <2>1. g \in Game /\ live'[id] = g /\ id \in issued'
    BY <1>3, NewGameType
       DEF WriteOk, CasApplies, TypeOK, LiveTypeOK, HandleCreate
  <2>2. PICK t : t = created
    OBVIOUS
  <2>3. t.id = id /\ t.g = g
    BY <2>2
  <2> HIDE DEF g
  <2>4. Past(id, g)'
    BY <2>1, PrefixReflexive DEF Past, SameGame, Game
  <2> QED
    BY <1>3, <2>2, <2>3, <2>4, OneHandlerTells DEF HandlerTells
<1> QED
  BY <1>1, <1>2, <1>3 DEF HandleCreate

LEMMA UpdateTells ==
  ASSUME TypeOK, JobsFit, ToldFits, NEW h \in Handlers, Update(h)
  PROVE  HandlersTell
<1>1. api[h] \in BusyHandler /\ HandlerFits(api[h])
  BY KnownHandler DEF Update
<1>2. PICK r \in BusyHandler : r = api[h]
  BY <1>1
<1>3. r.id \in GameIds /\ r.g \in Game /\ r.id \in issued
  BY <1>1, <1>2 DEF BusyHandler, HandlerFits, SameGame
<1>4. CASE Finish(h)
  BY <1>4, FinishTells
<1>5. CASE WriteOk(r.id, r.g, r.prev) /\ Goto(h, "publish")
  <2>1. PICK t \in BusyHandler :
          /\ api' = [api EXCEPT ![h] = t]
          /\ t.pc = "publish" /\ t.id = r.id /\ t.g = r.g
    BY <1>1, <1>2, <1>5, GotoRecord
  <2>2. live'[r.id] = r.g /\ r.id \in issued'
    BY <1>3, <1>5 DEF WriteOk, CasApplies, TypeOK, LiveTypeOK, Update
  <2>3. Past(t.id, t.g)'
    BY <1>3, <2>1, <2>2, PrefixReflexive DEF Past, SameGame, Game
  <2> QED
    BY <2>1, <2>3, OneHandlerTells DEF HandlerTells
<1> QED
  BY <1>2, <1>4, <1>5 DEF Update

LEMMA PublishTells ==
  ASSUME TypeOK, JobsFit, ToldFits, NEW h \in Handlers, PublishState(h)
  PROVE  HandlersTell
<1>1. CASE Finish(h)
  BY <1>1, FinishTells
<1>2. CASE ~Finish(h)
  <2>1. api[h] \in BusyHandler /\ api[h].pc = "publish"
    BY KnownHandler DEF PublishState
  <2>2. PICK pc \in {"archive", "enqueue"} : Goto(h, pc)
    BY <1>2 DEF PublishState, AfterPublish
  <2>3. PICK t \in BusyHandler :
          /\ api' = [api EXCEPT ![h] = t]
          /\ t.pc = pc /\ t.id = api[h].id /\ t.g = api[h].g
    BY <2>1, <2>2, GotoRecord
  <2>4. Past(t.id, t.g)
    BY <2>1, <2>3 DEF ToldFits, HandlerTells
  <2> QED
    BY <2>3, <2>4, OneHandlerTells DEF HandlerTells
<1> QED
  BY <1>1, <1>2

LEMMA ApiTells ==
  ASSUME TypeOK, JobsFit, ToldFits, ApiNext
  PROVE  HandlersTell
<1>1. PICK h \in Handlers : Request(h) \/ Serve(h) \/ CrashApi(h)
  BY DEF ApiNext
<1>2. CASE Request(h)
  BY <1>2, CreateTells, StartTells DEF Request, HandleMove, HandleResign
<1>3. CASE Serve(h) \/ CrashApi(h)
  BY <1>3, UpdateTells, PublishTells, FinishTells DEF Serve, CrashApi, ArchiveGame, EnqueueJob
<1> QED
  BY <1>1, <1>2, <1>3

-----------------------------------------------------------------------------
(***************************************************************************)
(* The workers, in the same way.                                           *)
(***************************************************************************)
WorkersTell ==
  \A w \in Workers : \A r \in {wrk'[w]} : WorkerTells(r) \/ WorkerTells(r)'

LEMMA OneWorkerTells ==
  ASSUME TypeOK, ToldFits, NEW w \in Workers, NEW t,
         wrk' = [wrk EXCEPT ![w] = t], WorkerTells(t) \/ WorkerTells(t)'
  PROVE  WorkersTell
<1> SUFFICES ASSUME NEW k \in Workers, NEW r \in {wrk'[k]}
             PROVE  WorkerTells(r) \/ WorkerTells(r)'
  BY DEF WorkersTell
<1>1. CASE k = w
  <2>1. r = t
    BY <1>1 DEF TypeOK, WorkerTypeOK
  <2> QED
    BY <2>1
<1>2. CASE k # w
  <2>1. r \in {wrk[k]}
    BY <1>2 DEF TypeOK, WorkerTypeOK
  <2> QED
    BY <2>1 DEF ToldFits
<1> QED
  BY <1>1, <1>2

LEMMA GotoTells ==
  ASSUME TypeOK, ToldFits, NEW w \in Workers, NEW r \in Working, r = wrk[w],
         NEW pc, WGoto(w, pc),
         \/ pc = "ack"
         \/ Past(r.cur.job.game, r.g)
         \/ Past(r.cur.job.game, r.g)'
  PROVE  WorkersTell
<1>1. PICK t : t = [r EXCEPT !.pc = pc]
  OBVIOUS
<1>2. t.pc = pc /\ t.cur = r.cur /\ t.g = r.g
  BY <1>1 DEF Working
<1>3. wrk' = [wrk EXCEPT ![w] = t]
  BY <1>1 DEF WGoto
<1>4. WorkerTells(t) \/ WorkerTells(t)'
  BY <1>2 DEF WorkerTells
<1> QED
  BY <1>3, <1>4, OneWorkerTells

LEMMA WorkTells ==
  ASSUME TypeOK, JobsFit, ToldFits, WorkerNext, UNCHANGED issued
  PROVE  WorkersTell
<1>1. PICK w \in Workers : Poll(w) \/ Process(w) \/ CrashWorker(w)
  BY DEF WorkerNext
<1>2. \A batch : Resume(batch).pc = "loop"
  BY DEF Resume
<1>3. CASE Poll(w) \/ Ack(w) \/ CrashWorker(w)
  <2>1. \E batch : wrk' = [wrk EXCEPT ![w] = Resume(batch)]
    BY <1>3 DEF Poll, Ack, CrashWorker, DropCurrent
  <2>2. \A batch : WorkerTells(Resume(batch))
    BY <1>2 DEF WorkerTells
  <2> QED
    BY <2>1, <2>2, OneWorkerTells
<1>4. ASSUME NEW d \in wrk[w].batch, DropStaleJob(w, d) \/ FailJob(w, d)
      PROVE  WorkersTell
  <2> DEFINE acking == [Resume(wrk[w].batch \ {d}) EXCEPT !.pc = "ack", !.cur = d]
  <2>1. acking.pc = "ack"
    BY DEF Resume
  <2>2. \/ wrk' = [wrk EXCEPT ![w] = acking]
        \/ wrk' = [wrk EXCEPT ![w] = Resume(wrk[w].batch \ {d})]
    BY <1>4 DEF DropStaleJob, FailJob
  <2> HIDE DEF acking
  <2>3. WorkerTells(acking) /\ WorkerTells(Resume(wrk[w].batch \ {d}))
    BY <1>2, <2>1 DEF WorkerTells
  <2> QED
    BY <2>2, <2>3, OneWorkerTells
<1>5. ASSUME NEW d \in wrk[w].batch, NEW uci \in Moves, ChooseMove(w, d, uci)
      PROVE  WorkersTell
  <2>1. PICK t : t = [pc |-> "update", batch |-> wrk[w].batch \ {d}, cur |-> d,
                      g |-> ApplyMove(live[d.job.game], uci),
                      prev |-> live[d.job.game].ply]
    OBVIOUS
  <2>2. wrk' = [wrk EXCEPT ![w] = t] /\ t.pc = "update"
    BY <1>5, <2>1 DEF ChooseMove
  <2>3. WorkerTells(t)
    BY <2>2 DEF WorkerTells
  <2> QED
    BY <2>2, <2>3, OneWorkerTells
<1>6. CASE WriteMove(w)
  <2>0. wrk[w] \in Working /\ WorkerFits(wrk[w]) /\ wrk[w].pc = "update"
    BY <1>6, WorkerKinds DEF WriteMove, TypeOK, JobsFit
  <2>1. PICK r \in Working : r = wrk[w] /\ WorkerFits(r) /\ r.pc = "update"
    BY <2>0
  <2> DEFINE id == r.cur.job.game
  <2>2. r.g \in Game /\ id \in GameIds /\ id \in issued
    BY <2>1 DEF Working, Message, Job, WorkerFits, SameGame
  <2>3. CASE DropCurrent(w)
    <3>1. WorkerTells(Resume(wrk[w].batch))
      BY <1>2 DEF WorkerTells
    <3> QED
      BY <2>3, <3>1, OneWorkerTells DEF DropCurrent
  <2>4. CASE WGoto(w, "ack")
    BY <2>1, <2>4, GotoTells
  <2>5. CASE WriteOk(id, r.g, r.prev) /\ WGoto(w, "publish")
    <3>1. live'[id] = r.g /\ id \in issued'
      BY <2>2, <2>5 DEF WriteOk, CasApplies, TypeOK, LiveTypeOK
    <3>2. Past(id, r.g)'
      BY <2>2, <3>1, PrefixReflexive DEF Past, SameGame, Game
    <3> QED
      BY <2>1, <2>5, <3>2, GotoTells
  <2> QED
    BY <1>6, <2>1, <2>3, <2>4, <2>5 DEF WriteMove
<1>7. CASE PublishMove(w) \/ ArchiveMove(w)
  <2>1. PICK r \in Working : r = wrk[w] /\ r.pc \in {"publish", "archive"}
    BY <1>7, WorkerKinds DEF PublishMove, ArchiveMove, TypeOK
  <2>2. Past(r.cur.job.game, r.g)
    BY <2>1 DEF ToldFits, WorkerTells
  <2>3. \E pc : WGoto(w, pc)
    BY <1>7 DEF PublishMove, ArchiveMove
  <2> QED
    BY <2>1, <2>2, <2>3, GotoTells
<1> QED
  BY <1>1, <1>3, <1>4, <1>5, <1>6, <1>7 DEF Process

-----------------------------------------------------------------------------
(***************************************************************************)
(* The sessions.                                                           *)
(***************************************************************************)
SessionsTell == \A c \in Watchers : \A s \in {session'[c]} : SessionTells(s)

LEMMA ChannelOperations ==
  ASSUME NEW channel \in Seq(Game), NEW g \in Game
  PROVE  /\ Range(Append(channel, g)) \subseteq Range(channel) \cup {g}
         /\ channel # <<>> => /\ Head(channel) \in Range(channel)
                              /\ Range(Tail(channel)) \subseteq Range(channel)
<1>1. ASSUME NEW i \in DOMAIN Append(channel, g)
      PROVE  Append(channel, g)[i] \in Range(channel) \cup {g}
  <2>1. i \in 1..Len(channel) + 1
    OBVIOUS
  <2>2. CASE i = Len(channel) + 1
    BY <2>2
  <2>3. CASE i \in 1..Len(channel)
    <3>1. Append(channel, g)[i] = channel[i] /\ i \in DOMAIN channel
      BY <2>3
    <3> QED
      BY <3>1 DEF Range
  <2> QED
    BY <2>1, <2>2, <2>3
<1>2. ASSUME channel # <<>>
      PROVE  /\ Head(channel) \in Range(channel)
             /\ Range(Tail(channel)) \subseteq Range(channel)
  <2>1. 1 \in DOMAIN channel /\ Head(channel) = channel[1]
    BY <1>2
  <2>2. \A i \in DOMAIN Tail(channel) :
          i + 1 \in DOMAIN channel /\ Tail(channel)[i] = channel[i + 1]
    BY <1>2
  <2> QED
    BY <2>1, <2>2 DEF Range
<1> QED
  BY <1>1, <1>2 DEF Range

LEMMA OneSessionTells ==
  ASSUME TypeOK, ToldFits, NEW c \in Watchers, NEW t,
         session' = [session EXCEPT ![c] = t], SessionTells(t)
  PROVE  SessionsTell
<1> SUFFICES ASSUME NEW k \in Watchers, NEW s \in {session'[k]}
             PROVE  SessionTells(s)
  BY DEF SessionsTell
<1>1. CASE k = c
  <2>1. s = t
    BY <1>1 DEF TypeOK, FanoutTypeOK
  <2> QED
    BY <2>1
<1>2. CASE k # c
  <2>1. s \in {session[k]}
    BY <1>2 DEF TypeOK, FanoutTypeOK
  <2> QED
    BY <2>1 DEF ToldFits
<1> QED
  BY <1>1, <1>2

LEMMA PublishShows ==
  ASSUME TypeOK, ToldFits, NEW id \in GameIds, NEW g \in Game, Past(id, g),
         Publish(id, g) \/ PublishFails
  PROVE  SessionsTell
<1>1. CASE UNCHANGED session
  BY <1>1 DEF SessionsTell, ToldFits
<1>2. CASE Publish(id, g)
  <2> SUFFICES ASSUME NEW c \in Watchers, NEW s \in {session'[c]}
               PROVE  SessionTells(s)
    BY DEF SessionsTell
  <2>1. PICK r \in Session : r = session[c]
    BY DEF TypeOK, FanoutTypeOK
  <2>2. SessionTells(r)
    BY <2>1 DEF ToldFits
  <2>3. CASE r.subscribed /\ r.game = id
    <3>1. s = [r EXCEPT !.channel = Append(@, g)]
      BY <1>2, <2>1, <2>3 DEF Publish
    <3>2. r.channel \in Seq(Game)
      BY DEF Session
    <3>3. /\ s.view = r.view /\ s.snapshot = r.snapshot /\ s.game = r.game
          /\ s.channel = Append(r.channel, g)
      BY <3>1 DEF Session
    <3>4. s.pc = r.pc /\ s.pc # "closed"
      BY <2>2, <2>3, <3>1 DEF Session, SessionTells, ClosedSession
    <3>5. Shows(s) \subseteq Shows(r) \cup {g}
      BY <3>2, <3>3, ChannelOperations DEF Shows
    <3> QED
      BY <2>2, <2>3, <3>3, <3>4, <3>5 DEF SessionTells
  <2>4. CASE ~(r.subscribed /\ r.game = id)
    BY <1>2, <2>1, <2>2, <2>4 DEF Publish
  <2> QED
    BY <2>3, <2>4
<1> QED
  BY <1>1, <1>2 DEF PublishFails

LEMMA WatchTells ==
  ASSUME TypeOK, CopiesFit, ToldFits, NEW c \in Watchers, SessionStep(c)
  PROVE  SessionsTell
<1>1. PICK r \in Session : r = session[c]
  BY DEF TypeOK, FanoutTypeOK
<1>2. SessionTells(r)
  BY <1>1 DEF ToldFits
<1>3. /\ r.channel \in Seq(Game)
      /\ r.view \in Game \cup {Absent} /\ r.snapshot \in Game \cup {Absent}
  BY DEF Session
<1>4. ASSUME NEW id \in GameIds, OpenWS(c, id)
      PROVE  SessionsTell
  <2>1. /\ live[id] \in Game /\ id \in issued
        /\ r = ClosedSession
    BY <1>1, <1>2, <1>4, StoredGame
       DEF OpenWS, TypeOK, CopiesFit, StoredOK, SessionTells
  <2>2. PICK g : g = live[id]
    OBVIOUS
  <2>3. PICK t : t = [ClosedSession EXCEPT !.pc = "open", !.game = id, !.snapshot = g]
    OBVIOUS
  <2>4. session' = [session EXCEPT ![c] = t]
    BY <1>1, <1>4, <2>1, <2>2, <2>3 DEF OpenWS
  <2>5. /\ t.pc = "open" /\ t.game = id /\ t.snapshot = g /\ t.view = Absent
        /\ t.channel = <<>>
    BY <2>3 DEF ClosedSession
  <2>6. Shows(t) \subseteq {g}
    BY <2>5 DEF Shows, Range
  <2>7. Past(id, g)
    BY <2>1, <2>2, PrefixReflexive DEF Past, SameGame, Game
  <2> QED
    BY <2>4, <2>5, <2>6, <2>7, OneSessionTells DEF SessionTells
<1>5. CASE Subscribe(c)
  <2>1. PICK t : t = [r EXCEPT !.subscribed = TRUE]
    OBVIOUS
  <2>2. session' = [session EXCEPT ![c] = t]
    BY <1>1, <1>5, <2>1 DEF Subscribe
  <2>3. /\ t.pc = "open" /\ t.game = r.game /\ t.snapshot = r.snapshot
        /\ t.view = r.view /\ t.channel = r.channel
    BY <1>1, <1>5, <2>1 DEF Subscribe, Session
  <2> QED
    BY <1>2, <2>2, <2>3, OneSessionTells DEF SessionTells, Shows
<1>6. CASE SendSnapshot(c)
  <2>1. PICK t : t = [r EXCEPT !.view = r.snapshot, !.snapshot = Absent]
    OBVIOUS
  <2>2. session' = [session EXCEPT ![c] = t]
    BY <1>1, <1>6, <2>1 DEF SendSnapshot
  <2>3. /\ t.pc = "open" /\ t.game = r.game /\ t.snapshot = Absent
        /\ t.view = r.snapshot /\ t.channel = r.channel
    BY <1>1, <1>6, <2>1 DEF SendSnapshot, Session
  <2>4. Shows(t) \subseteq Shows(r)
    BY <2>3 DEF Shows
  <2> QED
    BY <1>2, <2>2, <2>3, <2>4, OneSessionTells DEF SessionTells
<1>7. CASE SendEvent(c)
  <2>1. PICK t : t = [r EXCEPT !.view = Head(r.channel), !.channel = Tail(r.channel)]
    OBVIOUS
  <2>2. session' = [session EXCEPT ![c] = t]
    BY <1>1, <1>7, <2>1 DEF SendEvent
  <2>3. /\ t.pc = "open" /\ t.game = r.game /\ t.snapshot = r.snapshot
        /\ t.view = Head(r.channel) /\ t.channel = Tail(r.channel)
        /\ r.channel # <<>>
    BY <1>1, <1>7, <2>1 DEF SendEvent, Session
  <2>4. PICK g \in Game : TRUE
    BY <1>3, <2>3
  <2>5. Head(r.channel) \in Range(r.channel) /\ Range(Tail(r.channel)) \subseteq Range(r.channel)
    BY <1>3, <2>3, <2>4, ChannelOperations
  <2>6. Shows(t) \subseteq Shows(r)
    BY <2>3, <2>5 DEF Shows
  <2> QED
    BY <1>2, <2>2, <2>3, <2>6, OneSessionTells DEF SessionTells
<1>8. CASE CloseWS(c)
  <2>1. PICK t : t = [ClosedSession EXCEPT !.pc = "gone", !.view = r.view]
    OBVIOUS
  <2>2. session' = [session EXCEPT ![c] = t]
    BY <1>1, <1>8, <2>1 DEF CloseWS
  <2>3. t.pc = "gone" /\ t.game = Absent
    BY <2>1 DEF ClosedSession
  <2> QED
    BY <2>2, <2>3, OneSessionTells, AbsentAssumption DEF SessionTells
<1> QED
  BY <1>4, <1>5, <1>6, <1>7, <1>8 DEF SessionStep

LEMMA ShowsTells ==
  ASSUME TypeOK, CopiesFit, JobsFit, ToldFits, [Next]_vars
  PROVE  SessionsTell
<1>1. CASE UNCHANGED session
  BY <1>1 DEF SessionsTell, ToldFits
<1>2. ASSUME NEW h \in Handlers, PublishState(h) PROVE SessionsTell
  <2>1. api[h] \in BusyHandler /\ api[h].pc = "publish"
    BY <1>2, KnownHandler DEF PublishState
  <2>2. api[h].id \in GameIds /\ api[h].g \in Game /\ Past(api[h].id, api[h].g)
    BY <2>1 DEF BusyHandler, ToldFits, HandlerTells
  <2> QED
    BY <1>2, <2>2, PublishShows DEF PublishState
<1>3. ASSUME NEW w \in Workers, PublishMove(w) PROVE SessionsTell
  <2>1. wrk[w] \in Working /\ wrk[w].pc = "publish"
    BY <1>3, WorkerKinds DEF PublishMove, TypeOK
  <2>2. /\ wrk[w].cur.job.game \in GameIds /\ wrk[w].g \in Game
        /\ Past(wrk[w].cur.job.game, wrk[w].g)
    BY <2>1 DEF Working, Message, Job, ToldFits, WorkerTells
  <2> QED
    BY <1>3, <2>2, PublishShows DEF PublishMove
<1>4. CASE ApiStep
  BY <1>1, <1>2, <1>4 DEF ApiStep, ApiNext, Request, Serve, HandleCreate, HandleMove,
     HandleResign, Update, ArchiveGame, EnqueueJob, CrashApi
<1>5. CASE WorkerStep
  BY <1>1, <1>3, <1>5 DEF WorkerStep, WorkerNext, Process, Poll, DropStaleJob, ChooseMove,
     FailJob, WriteMove, ArchiveMove, Ack, CrashWorker
<1>6. CASE \E c \in Watchers : Relay(c) \/ Browser(c)
  BY <1>6, WatchTells DEF Relay, Browser, SessionStep
<1> QED
  BY <1>1, <1>4, <1>5, <1>6 DEF Next, QueueStep, VisibilityTimeout, DeadLetter, Expire, vars

-----------------------------------------------------------------------------
(***************************************************************************)
(* The archive.                                                            *)
(***************************************************************************)
RowsTell == \A id \in Archived' : \A g \in {GameOf(archive'[id])} : Coherent(g) /\ Past(id, g)

LEMMA RowOfFinished ==
  ASSUME NEW g \in Game, g.status = "finished"
  PROVE  GameOf(RowOf(g)) = g
BY DEF GameOf, RowOf, Game

LEMMA SaveTells ==
  ASSUME ArchiveTypeOK, ToldFits, NEW id \in GameIds, NEW g \in Game,
         Coherent(g), g.status = "finished", Past(id, g),
         SaveFinished(id, g) \/ SaveFails
  PROVE  RowsTell
<1>1. CASE UNCHANGED archive
  BY <1>1 DEF RowsTell, ToldFits, RowTells, Archived
<1>2. CASE archive' = [archive EXCEPT ![id] = RowOf(g)]
  BY <1>2, RowOfFinished DEF RowsTell, ToldFits, RowTells, Archived, ArchiveTypeOK
<1> QED
  BY <1>1, <1>2 DEF SaveFinished, SaveFails

LEMMA ArchiveTells ==
  ASSUME TypeOK, JobsFit, ToldFits, [Next]_vars
  PROVE  RowsTell
<1>1. CASE UNCHANGED archive
  BY <1>1 DEF RowsTell, ToldFits, RowTells, Archived
<1>2. ASSUME NEW h \in Handlers, ArchiveGame(h) PROVE RowsTell
  <2>1. /\ api[h] \in BusyHandler /\ api[h].pc = "archive"
        /\ Coherent(api[h].g) /\ api[h].g.status = "finished"
    BY <1>2, KnownHandler DEF ArchiveGame, HandlerFits
  <2>2. api[h].id \in GameIds /\ api[h].g \in Game /\ Past(api[h].id, api[h].g)
    BY <2>1 DEF BusyHandler, ToldFits, HandlerTells
  <2> QED
    BY <1>2, <2>1, <2>2, SaveTells DEF ArchiveGame, TypeOK
<1>3. ASSUME NEW w \in Workers, ArchiveMove(w) PROVE RowsTell
  <2>1. /\ wrk[w] \in Working /\ wrk[w].pc = "archive"
        /\ Coherent(wrk[w].g) /\ wrk[w].g.status = "finished"
    BY <1>3, WorkerKinds DEF ArchiveMove, TypeOK, JobsFit, WorkerFits
  <2>2. /\ wrk[w].cur.job.game \in GameIds /\ wrk[w].g \in Game
        /\ Past(wrk[w].cur.job.game, wrk[w].g)
    BY <2>1 DEF Working, Message, Job, ToldFits, WorkerTells
  <2> QED
    BY <1>3, <2>1, <2>2, SaveTells DEF ArchiveMove, TypeOK
<1>4. CASE ApiStep
  BY <1>1, <1>2, <1>4 DEF ApiStep, ApiNext, Request, Serve, HandleCreate, HandleMove,
     HandleResign, Update, PublishState, EnqueueJob, CrashApi
<1>5. CASE WorkerStep
  BY <1>1, <1>3, <1>5 DEF WorkerStep, WorkerNext, Process, Poll, DropStaleJob, ChooseMove,
     FailJob, WriteMove, PublishMove, Ack, CrashWorker
<1> QED
  BY <1>1, <1>4, <1>5 DEF Next, QueueStep, VisibilityTimeout, DeadLetter, Expire, Relay,
     Browser, vars

-----------------------------------------------------------------------------
(***************************************************************************)
(* Every step, together.                                                   *)
(***************************************************************************)
LEMMA StepTells ==
  ASSUME TypeOK, CopiesFit, JobsFit, ToldFits, [Next]_vars
  PROVE  HandlersTell /\ WorkersTell
<1>1. UNCHANGED api => HandlersTell
  BY DEF HandlersTell, ToldFits
<1>2. UNCHANGED wrk => WorkersTell
  BY DEF WorkersTell, ToldFits
<1> QED
  BY <1>1, <1>2, ApiTells, WorkTells
     DEF Next, ApiStep, WorkerStep, QueueStep, VisibilityTimeout, DeadLetter, Expire, Relay,
         Browser, vars

LEMMA ToldFitsStep ==
  ASSUME TypeOK, CopiesFit, JobsFit, ToldFits, [Next]_vars
  PROVE  ToldFits'
<1>1. LiveTypeOK /\ LiveStep /\ Keeps
  BY NextSteps, StepFits DEF TypeOK
<1>2. HandlersTell /\ WorkersTell /\ SessionsTell /\ RowsTell /\ TypeOK'
  BY StepTells, ShowsTells, ArchiveTells, TypeStep
<1>3. ASSUME NEW id \in GameIds, NEW g, g.moves \in Seq(Moves), Past(id, g)
      PROVE  Past(id, g)'
  BY <1>1, <1>3, PastStable
<1>4. ASSUME NEW h \in Handlers, NEW r \in {api'[h]} PROVE HandlerTells(r)'
  <2> SUFFICES ASSUME r.pc \in {"publish", "archive", "enqueue"}
               PROVE  Past(r.id, r.g)'
    BY DEF HandlerTells
  <2>1. r \in BusyHandler
    BY <1>2, <1>4 DEF TypeOK, ApiTypeOK, IdleHandler
  <2>2. r.id \in GameIds /\ r.g.moves \in Seq(Moves)
    BY <2>1 DEF BusyHandler, Game
  <2>3. Past(r.id, r.g) \/ Past(r.id, r.g)'
    BY <1>2, <1>4 DEF HandlersTell, HandlerTells
  <2> QED
    BY <1>3, <2>2, <2>3
<1>5. ASSUME NEW w \in Workers, NEW r \in {wrk'[w]} PROVE WorkerTells(r)'
  <2> SUFFICES ASSUME r.pc \in {"publish", "archive"}
               PROVE  Past(r.cur.job.game, r.g)'
    BY DEF WorkerTells
  <2>1. r \in Working
    BY <1>2, <1>5 DEF TypeOK, WorkerTypeOK, Looping, Acking
  <2>2. r.cur.job.game \in GameIds /\ r.g.moves \in Seq(Moves)
    BY <2>1 DEF Working, Message, Job, Game
  <2>3. Past(r.cur.job.game, r.g) \/ Past(r.cur.job.game, r.g)'
    BY <1>2, <1>5 DEF WorkersTell, WorkerTells
  <2> QED
    BY <1>3, <2>2, <2>3
<1>6. ASSUME NEW c \in Watchers, NEW s \in {session'[c]} PROVE SessionTells(s)'
  <2>1. SessionTells(s) /\ s \in Session
    BY <1>2, <1>6 DEF SessionsTell, TypeOK, FanoutTypeOK
  <2>2. \A g \in Shows(s) : g \in Game
    BY <2>1 DEF Shows, Session, Range
  <2>3. ASSUME s.game \in GameIds, NEW g \in Shows(s) PROVE Past(s.game, g)'
    <3>1. g.moves \in Seq(Moves) /\ Past(s.game, g)
      BY <2>1, <2>2, <2>3 DEF SessionTells, Game
    <3> QED
      BY <1>3, <2>3, <3>1
  <2> QED
    BY <2>1, <2>3 DEF SessionTells
<1>7. ASSUME NEW id \in Archived' PROVE RowTells(id)'
  <2>1. PICK g : g = GameOf(archive'[id])
    OBVIOUS
  <2>2. Coherent(g) /\ Past(id, g) /\ id \in GameIds
    BY <1>2, <2>1 DEF RowsTell, Archived
  <2>3. archive'[id] \in Row
    BY <1>2 DEF TypeOK, ArchiveTypeOK, Archived
  <2>4. g.moves \in Seq(Moves)
    BY <2>1, <2>3 DEF GameOf, Row
  <2>5. Past(id, g)' /\ Coherent(g)'
    BY <1>3, <2>2, <2>4 DEF Coherent, NoMoveAfterEnd
  <2> QED
    BY <2>1, <2>5 DEF RowTells
<1> QED
  BY <1>4, <1>5, <1>6, <1>7 DEF ToldFits

LEMMA ToldAlwaysFits == Spec => [](TypeOK /\ CopiesFit /\ JobsFit /\ ToldFits)
<1>1. Init => ToldFits
  BY AbsentAssumption
     DEF Init, ArchiveInit, FanoutInit, ApiInit, WorkerInit, IdleHandler, Resume,
         ToldFits, HandlerTells, WorkerTells, SessionTells, ClosedSession, Archived
<1>2. TypeOK /\ CopiesFit /\ JobsFit /\ ToldFits /\ [Next]_vars => ToldFits'
  BY ToldFitsStep
<1> QED
  BY <1>1, <1>2, JobsAlwaysFit, PTL DEF Spec

(***************************************************************************)
(* What anyone was told is never taken back, whatever fails: the answer of *)
(* a handler, every event in flight or on a screen, and every archived     *)
(* list of moves is a past or present state of the live game.              *)
(***************************************************************************)
THEOREM ToldStaysTrue == Spec => []ToldIsPast
<1>1. ASSUME ToldFits PROVE ToldIsPast
  <2> SUFFICES ASSUME NEW id \in GameIds, Exists(id), NEW ms \in Told(id)
               PROVE  IsPrefix(ms, live[id].moves)
    BY DEF ToldIsPast
  <2>1. ASSUME NEW h \in Handlers, api[h].pc \in {"publish", "archive", "enqueue"},
               api[h].id = id, ms = api[h].g.moves
        PROVE  IsPrefix(ms, live[id].moves)
    BY <1>1, <2>1 DEF ToldFits, HandlerTells, Past
  <2>2. ASSUME NEW c \in Watchers, session[c].game = id,
               NEW g \in Shows(session[c]), ms = g.moves
        PROVE  IsPrefix(ms, live[id].moves)
    BY <1>1, <2>2 DEF ToldFits, SessionTells, Past
  <2>3. ASSUME id \in Archived, ms = archive[id].moves
        PROVE  IsPrefix(ms, live[id].moves)
    BY <1>1, <2>3 DEF ToldFits, RowTells, GameOf, Past
  <2> DEFINE answered ==
               {api[h].g.moves : h \in {k \in Handlers :
                  /\ api[k].pc \in {"publish", "archive", "enqueue"}
                  /\ api[k].id = id}}
             shown ==
               {{g.moves : g \in Shows(session[c])} :
                  c \in {k \in Watchers : session[k].game = id}}
             archived == {archive[i].moves : i \in Archived \cap {id}}
  <2>4. Told(id) = answered \cup (UNION shown) \cup archived
    BY DEF Told, Shows
  <2>5. CASE ms \in answered
    BY <2>1, <2>5
  <2>6. CASE ms \in UNION shown
    <3>1. PICK c \in Watchers :
            session[c].game = id /\ ms \in {g.moves : g \in Shows(session[c])}
      BY <2>6
    <3> QED
      BY <2>2, <3>1
  <2>7. CASE ms \in archived
    BY <2>3, <2>7
  <2> HIDE DEF answered, shown, archived
  <2> QED
    BY <2>4, <2>5, <2>6, <2>7
<1>2. ToldFits => ToldIsPast
  BY <1>1
<1> QED
  BY <1>2, ToldAlwaysFits, PTL

-----------------------------------------------------------------------------
LEMMA WholeRecord ==
  ASSUME NEW g \in Game
  PROVE  g = [moves |-> g.moves, ply |-> g.ply, playerColor |-> g.playerColor,
              status |-> g.status, result |-> g.result, termination |-> g.termination]
BY DEF Game

(***************************************************************************)
(* A record the rules have ended is determined by its moves and the colour *)
(* of its player.                                                          *)
(***************************************************************************)
LEMMA RuledIsDetermined ==
  ASSUME NEW g \in Game, NEW k \in Game, Coherent(g), Coherent(k),
         g.moves = k.moves, g.playerColor = k.playerColor,
         Outcome[g.moves] # NoOutcome
  PROVE  g = k
<1>1. \A r \in {g, k} : /\ r.ply = Len(g.moves) /\ r.status = "finished"
                        /\ r.result = Outcome[g.moves] /\ r.termination = "board"
  BY DEF Coherent, Game
<1>2. g.result = k.result /\ g.termination = k.termination /\ g.status = k.status
      /\ g.ply = k.ply
  BY <1>1
<1>3. \A r \in {g, k} :
        r = [moves |-> r.moves, ply |-> r.ply, playerColor |-> r.playerColor,
             status |-> r.status, result |-> r.result, termination |-> r.termination]
  BY WholeRecord
<1> QED
  BY <1>2, <1>3

(***************************************************************************)
(* What a step may write over a game the rules have ended: the same game.  *)
(***************************************************************************)
LEMMA RuledStep ==
  ASSUME TypeOK, CopiesFit, JobsFit, [Next]_vars,
         NEW id \in GameIds, Exists(id), Exists(id)',
         Outcome[live[id].moves] # NoOutcome
  PROVE  live'[id] = live[id]
<1>1. /\ live[id] \in Game /\ Coherent(live[id]) /\ id \in issued
  BY StoredGame DEF TypeOK, JobsFit, RecordsCoherent, CopiesFit, StoredOK
<1>2. ASSUME NEW g \in Game, NEW prev \in Nat, Fits(id, g, prev), SameGame(id, g),
             Coherent(g), CasApplies(id, g, prev)
      PROVE  live'[id] = live[id]
  <2>1. live[id].ply = prev /\ live'[id] = g
    BY <1>2 DEF CasApplies, CasAccepts, TypeOK, LiveTypeOK
  <2>2. g.moves = live[id].moves
    BY <1>2, <2>1 DEF Fits, Continues
  <2> QED
    BY <1>1, <1>2, <2>1, <2>2, RuledIsDetermined DEF SameGame
<1>3. ASSUME NEW h \in Handlers, ByHandler(h, id) PROVE live'[id] = live[id]
  <2>1. /\ api[h] \in BusyHandler /\ HandlerFits(api[h]) /\ api[h].id = id
        /\ Fits(id, api[h].g, api[h].prev)
    BY <1>3, KnownHandler DEF ByHandler, Update, CopiesFit
  <2> QED
    BY <1>2, <1>3, <2>1 DEF BusyHandler, HandlerFits, ByHandler
<1>4. ASSUME NEW w \in Workers, ByWorker(w, id) PROVE live'[id] = live[id]
  <2>1. /\ wrk[w] \in Working /\ wrk[w].pc = "update" /\ WorkerFits(wrk[w])
        /\ wrk[w].cur.job.game = id /\ Fits(id, wrk[w].g, wrk[w].prev)
    BY <1>4, WorkerKinds DEF ByWorker, WriteMove, TypeOK, JobsFit, CopiesFit
  <2> QED
    BY <1>2, <1>4, <2>1 DEF Working, WorkerFits, ByWorker
<1>5. ~\E h \in Handlers, color \in Colors : ByCreate(h, id, color)
  BY <1>1 DEF ByCreate, HandleCreate
<1> QED
  BY <1>3, <1>4, <1>5, WhoWrites

(***************************************************************************)
(* A game the rules have ended does not change any more: no copy read      *)
(* before, not even a resignation, is written over its end.                *)
(***************************************************************************)
THEOREM RuledForGood == Spec => RuledIsFinal
<1> DEFINE Step == \A id \in GameIds :
                     Exists(id) /\ Exists(id)' /\ Outcome[live[id].moves] # NoOutcome =>
                       live'[id] = live[id]
<1>1. TypeOK /\ CopiesFit /\ JobsFit /\ [Next]_vars => [Step]_vars
  BY RuledStep
<1> QED
  BY <1>1, JobsAlwaysFit, PTL DEF Spec, RuledIsFinal

(***************************************************************************)
(* A row of a game the rules have ended is the row of the stored game,     *)
(* whoever archived it and whenever it did.                                *)
(***************************************************************************)
LEMMA RuledRowAgrees ==
  ASSUME TypeOK, JobsFit, ToldFits, NEW id \in Archived, Exists(id),
         archive[id].termination # "resignation"
  PROVE  archive[id] = RowOf(live[id])
<1>1. PICK g : g = GameOf(archive[id])
  OBVIOUS
<1>2. archive[id] \in Row /\ id \in GameIds
  BY DEF TypeOK, ArchiveTypeOK, Archived
<1>3. g \in Game /\ RowOf(g) = archive[id] /\ g.status = "finished"
      /\ g.termination # "resignation"
  BY <1>1, <1>2 DEF GameOf, Row, RowOf, Game
<1>4. Coherent(g) /\ Past(id, g)
  BY <1>1 DEF ToldFits, RowTells
<1>5. Outcome[g.moves] # NoOutcome
  BY <1>3, <1>4 DEF Coherent
<1>6. live[id] \in Game /\ Coherent(live[id]) /\ IsPrefix(g.moves, live[id].moves)
      /\ g.playerColor = live[id].playerColor
  BY <1>2, <1>4, StoredGame DEF TypeOK, JobsFit, RecordsCoherent, Past, SameGame
<1>7. g.moves \in Seq(Moves) /\ live[id].moves \in Seq(Moves)
  BY <1>3, <1>6 DEF Game
<1>8. Len(g.moves) = Len(live[id].moves)
  <2> SUFFICES ASSUME Len(g.moves) # Len(live[id].moves) PROVE FALSE
    OBVIOUS
  <2>1. Len(g.moves) \in 0..Len(live[id].moves) - 1
    BY <1>6, <1>7 DEF IsPrefix
  <2>2. SubSeq(live[id].moves, 1, Len(g.moves)) = g.moves
    BY <1>6, <1>7, SubSeqFull DEF IsPrefix
  <2> QED
    BY <1>5, <1>6, <2>1, <2>2 DEF Coherent, NoMoveAfterEnd
<1>9. g.moves = live[id].moves
  BY <1>6, <1>7, <1>8, WholePrefix
<1> QED
  BY <1>3, <1>4, <1>5, <1>6, <1>9, RuledIsDetermined

(***************************************************************************)
(* The row of a game is the stored record, or a resignation of the game as *)
(* it once was and was not over, which a move has undone since: whoever    *)
(* archived it, in whatever order, and with all the failures there are.    *)
(* (SaveFinished, afterChange, Process.)                                   *)
(***************************************************************************)
THEOREM ArchiveAgreement == Spec => []ArchiveAgrees
<1>1. ASSUME TypeOK, JobsFit, ToldFits, NEW id \in Archived, Exists(id)
      PROVE  archive[id] = RowOf(live[id]) \/ KeptResignation(id)
  <2>1. CASE archive[id].termination # "resignation"
    BY <1>1, <2>1, RuledRowAgrees
  <2>2. CASE archive[id].termination = "resignation"
    <3>1. PICK g : g = GameOf(archive[id])
      OBVIOUS
    <3>2. Coherent(g) /\ Past(id, g)
      BY <1>1, <3>1 DEF ToldFits, RowTells
    <3>3. /\ g.moves = archive[id].moves /\ g.status = "finished"
          /\ g.termination = "resignation"
      BY <2>2, <3>1 DEF GameOf
    <3> QED
      BY <1>1, <2>2, <3>2, <3>3 DEF KeptResignation, Coherent, Past
  <2> QED
    BY <2>1, <2>2
<1>2. TypeOK /\ JobsFit /\ ToldFits => ArchiveAgrees
  BY <1>1 DEF ArchiveAgrees
<1> QED
  BY <1>2, ToldAlwaysFits, PTL

-----------------------------------------------------------------------------
(***************************************************************************)
(* Where no request is a resignation, no record in the store, or on its way*)
(* to it, says so.                                                         *)
(***************************************************************************)
NotResigned(g) == g.termination # "resignation"

Unresigned ==
  /\ \A id \in GameIds : Exists(id) => NotResigned(live[id])
  /\ \A h \in Handlers : \A r \in {api[h]} : r.pc # "idle" => NotResigned(r.g)
  /\ \A w \in Workers : \A r \in {wrk[w]} :
       r.pc \in {"update", "publish", "archive"} => NotResigned(r.g)

LEMMA MoveNotResigned ==
  ASSUME NEW g \in Game, NEW uci, NotResigned(g)
  PROVE  NotResigned(ApplyMove(g, uci))
<1>1. ApplyMove(g, uci).termination \in {"board", g.termination}
  BY DEF ApplyMove, Game
<1> QED
  BY <1>1 DEF NotResigned

LEMMA NewNotResigned ==
  ASSUME NEW color
  PROVE  NotResigned(NewGame(color))
BY DEF NotResigned, NewGame

(***************************************************************************)
(* The handlers.                                                           *)
(***************************************************************************)
HandlersPlay ==
  \A h \in Handlers : \A r \in {api'[h]} : r.pc # "idle" => NotResigned(r.g)

LEMMA OneHandlerPlays ==
  ASSUME TypeOK, Unresigned, NEW h \in Handlers, NEW t,
         api' = [api EXCEPT ![h] = t], t.pc # "idle" => NotResigned(t.g)
  PROVE  HandlersPlay
<1> SUFFICES ASSUME NEW k \in Handlers, NEW r \in {api'[k]}, r.pc # "idle"
             PROVE  NotResigned(r.g)
  BY DEF HandlersPlay
<1>1. CASE k = h
  <2>1. r = t
    BY <1>1 DEF TypeOK, ApiTypeOK
  <2> QED
    BY <2>1
<1>2. CASE k # h
  <2>1. r \in {api[k]}
    BY <1>2 DEF TypeOK, ApiTypeOK
  <2> QED
    BY <2>1 DEF Unresigned
<1> QED
  BY <1>1, <1>2

LEMMA ApiPlays ==
  ASSUME TypeOK, Unresigned, "resign" \notin Requests, ApiNext
  PROVE  HandlersPlay
<1>1. PICK h \in Handlers : Request(h) \/ Serve(h) \/ CrashApi(h)
  BY DEF ApiNext
<1>2. CASE UNCHANGED api
  BY <1>2 DEF HandlersPlay, Unresigned
<1>3. CASE Finish(h)
  BY <1>3, OneHandlerPlays DEF Finish, IdleHandler
<1>4. ASSUME NEW pc \in {"publish", "archive", "enqueue"}, Goto(h, pc),
             api[h].pc # "idle"
      PROVE  HandlersPlay
  <2>1. api[h] \in BusyHandler /\ NotResigned(api[h].g)
    BY <1>4, HandlerBusy DEF TypeOK, Unresigned
  <2>2. PICK t \in BusyHandler :
          /\ api' = [api EXCEPT ![h] = t]
          /\ t.pc = pc /\ t.id = api[h].id /\ t.g = api[h].g
    BY <1>4, <2>1, GotoRecord
  <2> QED
    BY <2>1, <2>2, OneHandlerPlays
<1>5. ASSUME NEW id \in GameIds, NEW color \in Colors, HandleCreate(h, id, color)
      PROVE  HandlersPlay
  <2>1. PICK t : t = [pc |-> "enqueue", id |-> id, g |-> NewGame(color), prev |-> 0]
    OBVIOUS
  <2>2. NotResigned(t.g)
    BY <2>1, NewNotResigned
  <2>3. UNCHANGED api \/ Finish(h) \/ api' = [api EXCEPT ![h] = t]
    BY <1>5, <2>1 DEF HandleCreate, Finish
  <2> QED
    BY <1>2, <1>3, <2>2, <2>3, OneHandlerPlays
<1>6. ASSUME NEW id \in GameIds, NEW uci \in Moves, HandleMove(h, id, uci)
      PROVE  HandlersPlay
  <2>1. live[id] \in Game /\ NotResigned(live[id])
    BY <1>6, StoredGame DEF HandleMove, TypeOK, Unresigned
  <2>2. PICK t : t = [pc |-> "update", id |-> id, g |-> ApplyMove(live[id], uci),
                      prev |-> live[id].ply]
    OBVIOUS
  <2>3. NotResigned(t.g)
    BY <2>1, <2>2, MoveNotResigned
  <2> QED
    BY <1>6, <2>2, <2>3, OneHandlerPlays DEF HandleMove, StartUpdate
<1>7. CASE Request(h)
  BY <1>5, <1>6, <1>7 DEF Request, HandleResign
<1>8. CASE Serve(h) \/ CrashApi(h)
  BY <1>3, <1>4, <1>8 DEF Serve, CrashApi, Update, PublishState, ArchiveGame, EnqueueJob,
     AfterPublish
<1> QED
  BY <1>1, <1>7, <1>8

(***************************************************************************)
(* The workers.                                                            *)
(***************************************************************************)
WorkerPlays(r) == r.pc \in {"update", "publish", "archive"} => NotResigned(r.g)

WorkersPlay == \A w \in Workers : \A r \in {wrk'[w]} : WorkerPlays(r)

LEMMA OneWorkerPlays ==
  ASSUME TypeOK, Unresigned, NEW w \in Workers, NEW t,
         wrk' = [wrk EXCEPT ![w] = t], WorkerPlays(t)
  PROVE  WorkersPlay
<1> SUFFICES ASSUME NEW k \in Workers, NEW r \in {wrk'[k]} PROVE WorkerPlays(r)
  BY DEF WorkersPlay
<1>1. CASE k = w
  <2>1. r = t
    BY <1>1 DEF TypeOK, WorkerTypeOK
  <2> QED
    BY <2>1
<1>2. CASE k # w
  <2>1. r \in {wrk[k]}
    BY <1>2 DEF TypeOK, WorkerTypeOK
  <2> QED
    BY <2>1 DEF Unresigned, WorkerPlays
<1> QED
  BY <1>1, <1>2

LEMMA WorkPlays ==
  ASSUME TypeOK, Unresigned, WorkerNext
  PROVE  WorkersPlay
<1>1. PICK w \in Workers : Poll(w) \/ Process(w) \/ CrashWorker(w)
  BY DEF WorkerNext
<1>2. \A batch : WorkerPlays(Resume(batch))
  BY DEF Resume, WorkerPlays
<1>3. CASE Poll(w) \/ Ack(w) \/ CrashWorker(w) \/ DropCurrent(w)
  <2>1. \E batch : wrk' = [wrk EXCEPT ![w] = Resume(batch)]
    BY <1>3 DEF Poll, Ack, CrashWorker, DropCurrent
  <2> QED
    BY <1>2, <2>1, OneWorkerPlays
<1>4. ASSUME NEW d \in wrk[w].batch, DropStaleJob(w, d) \/ FailJob(w, d)
      PROVE  WorkersPlay
  <2> DEFINE acking == [Resume(wrk[w].batch \ {d}) EXCEPT !.pc = "ack", !.cur = d]
  <2>1. WorkerPlays(acking) /\ WorkerPlays(Resume(wrk[w].batch \ {d}))
    BY <1>2 DEF Resume, WorkerPlays
  <2>2. \/ wrk' = [wrk EXCEPT ![w] = acking]
        \/ wrk' = [wrk EXCEPT ![w] = Resume(wrk[w].batch \ {d})]
    BY <1>4 DEF DropStaleJob, FailJob
  <2> HIDE DEF acking
  <2> QED
    BY <2>1, <2>2, OneWorkerPlays
<1>5. ASSUME NEW d \in wrk[w].batch, NEW uci \in Moves, ChooseMove(w, d, uci)
      PROVE  WorkersPlay
  <2>1. d.job.game \in GameIds
    BY <1>5, WorkerKinds DEF TypeOK, Message, Job
  <2>2. live[d.job.game] \in Game /\ NotResigned(live[d.job.game])
    BY <1>5, <2>1, StoredGame DEF ChooseMove, TypeOK, Unresigned
  <2>3. PICK t : t = [pc |-> "update", batch |-> wrk[w].batch \ {d}, cur |-> d,
                      g |-> ApplyMove(live[d.job.game], uci),
                      prev |-> live[d.job.game].ply]
    OBVIOUS
  <2>4. wrk' = [wrk EXCEPT ![w] = t]
    BY <1>5, <2>3 DEF ChooseMove
  <2>5. WorkerPlays(t)
    BY <2>2, <2>3, MoveNotResigned DEF WorkerPlays
  <2> QED
    BY <2>4, <2>5, OneWorkerPlays
<1>6. CASE WriteMove(w) \/ PublishMove(w) \/ ArchiveMove(w)
  <2>1. PICK r : r = wrk[w]
    OBVIOUS
  <2>2. r \in Working /\ r.pc \in {"update", "publish", "archive"}
    BY <1>6, <2>1, WorkerKinds DEF WriteMove, PublishMove, ArchiveMove, TypeOK
  <2>3. NotResigned(r.g)
    BY <2>1, <2>2 DEF Unresigned
  <2>4. ASSUME NEW pc, WGoto(w, pc) PROVE WorkersPlay
    <3>1. PICK t : t = [r EXCEPT !.pc = pc]
      OBVIOUS
    <3>2. wrk' = [wrk EXCEPT ![w] = t] /\ t.g = r.g
      BY <2>1, <2>2, <2>4, <3>1 DEF WGoto, Working
    <3> QED
      BY <2>3, <3>2, OneWorkerPlays DEF WorkerPlays
  <2> QED
    BY <1>3, <1>6, <2>4 DEF WriteMove, PublishMove, ArchiveMove
<1> QED
  BY <1>1, <1>3, <1>4, <1>5, <1>6 DEF Process

(***************************************************************************)
(* The store.                                                              *)
(***************************************************************************)
LEMMA StorePlays ==
  ASSUME TypeOK, Unresigned, [Next]_vars, NEW id \in GameIds, Exists(id)'
  PROVE  NotResigned(live'[id])
<1>1. CASE live'[id] = live[id]
  BY <1>1 DEF Unresigned, Exists
<1>2. ASSUME NEW h \in Handlers, NEW color \in Colors, ByCreate(h, id, color)
      PROVE  NotResigned(live'[id])
  BY <1>2, NewNotResigned DEF ByCreate
<1>3. ASSUME NEW h \in Handlers, ByHandler(h, id) PROVE NotResigned(live'[id])
  <2>1. live'[id] = api[h].g /\ api[h].pc = "update"
    BY <1>3 DEF ByHandler, Update, CasApplies, TypeOK, LiveTypeOK
  <2> QED
    BY <2>1 DEF Unresigned
<1>4. ASSUME NEW w \in Workers, ByWorker(w, id) PROVE NotResigned(live'[id])
  <2>1. live'[id] = wrk[w].g /\ wrk[w].pc = "update"
    BY <1>4 DEF ByWorker, WriteMove, CasApplies, TypeOK, LiveTypeOK
  <2> QED
    BY <2>1 DEF Unresigned
<1> QED
  BY <1>1, <1>2, <1>3, <1>4, WhoWrites

LEMMA UnresignedStep ==
  ASSUME TypeOK, Unresigned, "resign" \notin Requests, [Next]_vars
  PROVE  Unresigned'
<1>1. HandlersPlay /\ WorkersPlay
  <2>1. UNCHANGED api => HandlersPlay
    BY DEF HandlersPlay, Unresigned
  <2>2. UNCHANGED wrk => WorkersPlay
    BY DEF WorkersPlay, WorkerPlays, Unresigned
  <2> QED
    BY <2>1, <2>2, ApiPlays, WorkPlays
       DEF Next, ApiStep, WorkerStep, QueueStep, VisibilityTimeout, DeadLetter, Expire,
           Relay, Browser, vars
<1>2. \A id \in GameIds : Exists(id)' => NotResigned(live'[id])
  BY StorePlays
<1> QED
  BY <1>1, <1>2 DEF Unresigned, HandlersPlay, WorkersPlay, WorkerPlays

LEMMA NobodyResigns ==
  ASSUME "resign" \notin Requests
  PROVE  Spec => []Unresigned
<1>1. Init => Unresigned
  BY DEF Init, LiveInit, ApiInit, WorkerInit, IdleHandler, Resume, Unresigned, Exists
<1>2. TypeOK /\ Unresigned /\ [Next]_vars => Unresigned'
  BY UnresignedStep
<1> QED
  BY <1>1, <1>2, TypeCorrect, PTL DEF Spec

(***************************************************************************)
(* Where nobody resigns, a finished game does not change any more.  (With  *)
(* resignations it can: see the run resign_race.)                          *)
(***************************************************************************)
THEOREM FinishedForGood ==
  ASSUME "resign" \notin Requests
  PROVE  Spec => FinishedIsFinal
<1> DEFINE Step == \A id \in GameIds :
                     Exists(id) /\ Exists(id)' /\ live[id].status = "finished" =>
                       live'[id] = live[id]
<1>1. ASSUME TypeOK, CopiesFit, JobsFit, Unresigned, [Next]_vars PROVE Step
  <2> SUFFICES ASSUME NEW id \in GameIds, Exists(id), Exists(id)',
                      live[id].status = "finished"
               PROVE  live'[id] = live[id]
    OBVIOUS
  <2>1. Outcome[live[id].moves] # NoOutcome
    BY <1>1 DEF JobsFit, RecordsCoherent, Coherent, Unresigned, NotResigned
  <2> QED
    BY <1>1, <2>1, RuledStep
<1>2. TypeOK /\ CopiesFit /\ JobsFit /\ Unresigned /\ [Next]_vars => [Step]_vars
  BY <1>1
<1> QED
  BY <1>2, JobsAlwaysFit, NobodyResigns, PTL DEF Spec, FinishedIsFinal

=============================================================================
