-------------------------------- MODULE Boot --------------------------------
(***************************************************************************)
(* The life of a task, api or worker (cmd/api/main.go, cmd/worker/main.go),*)
(* as Postgres sees it.  NewArchive opens a pool and initSchema creates the*)
(* schema on one of its connections, under a session-scoped advisory lock; *)
(* only then does the task serve requests or poll for jobs, until SIGTERM  *)
(* cancels its context.  Every way out of the process ends its sessions,   *)
(* and with them the lock (external: Postgres).                            *)
(***************************************************************************)
CONSTANTS Tasks, NoTask

ASSUME NoTaskAssumption == NoTask \notin Tasks

VARIABLES pc,           \* pc[t]: where the task is
          cancelled,    \* the tasks whose context SIGTERM has cancelled
          lock,         \* the task whose session holds the advisory lock
          schema        \* whether the tables exist

vars == <<pc, cancelled, lock, schema>>

TypeOK ==
  /\ pc \in [Tasks -> {"down", "lock", "ddl", "unlock", "serve"}]
  /\ cancelled \subseteq Tasks
  /\ lock \in Tasks \cup {NoTask}
  /\ schema \in BOOLEAN

Init ==
  /\ pc = [t \in Tasks |-> "down"]
  /\ cancelled = {}
  /\ lock = NoTask
  /\ schema = FALSE

Goto(t, l) == pc' = [pc EXCEPT ![t] = l]

(***************************************************************************)
(* A lock that outlives the session that took it.                          *)
(***************************************************************************)
ExitWithLock(t) ==
  /\ Goto(t, "down")
  /\ cancelled' = cancelled \ {t}
  /\ UNCHANGED lock

(***************************************************************************)
(* The process is gone: its context with it, and in Postgres its sessions. *)
(***************************************************************************)
Exit(t) ==
  /\ Goto(t, "down")
  /\ cancelled' = cancelled \ {t}
  /\ lock' = IF lock = t THEN NoTask ELSE lock

Start(t) ==
  /\ pc[t] = "down"
  /\ Goto(t, "lock")
  /\ UNCHANGED <<cancelled, lock, schema>>

Sigterm(t) ==
  /\ pc[t] # "down" /\ t \notin cancelled
  /\ cancelled' = cancelled \cup {t}
  /\ UNCHANGED <<pc, lock, schema>>

(***************************************************************************)
(* pg_try_advisory_lock, its answer ignored, for pg_advisory_lock.         *)
(***************************************************************************)
TryLock(t) ==
  /\ pc[t] = "lock" /\ t \notin cancelled
  /\ lock' = IF lock = NoTask THEN t ELSE lock
  /\ Goto(t, "ddl")
  /\ UNCHANGED <<cancelled, schema>>

TakeLock(t) ==
  /\ pc[t] = "lock" /\ t \notin cancelled
  /\ lock = NoTask
  /\ lock' = t
  /\ Goto(t, "ddl")
  /\ UNCHANGED <<cancelled, schema>>

CreateSchema(t) ==
  /\ pc[t] = "ddl" /\ t \notin cancelled
  /\ schema' = TRUE
  /\ Goto(t, "unlock")
  /\ UNCHANGED <<cancelled, lock>>

(***************************************************************************)
(* A CREATE TABLE that is cut short may have run or not.                   *)
(***************************************************************************)
CutShort(t) == schema' \in {schema, schema \/ pc[t] = "ddl"}

(***************************************************************************)
(* The error of CREATE TABLE dropped, and the task booted all the same.    *)
(***************************************************************************)
BootGoesOn(t) ==
  /\ pc[t] \in {"lock", "ddl"}
  /\ CutShort(t)
  /\ Goto(t, "unlock")
  /\ UNCHANGED <<cancelled, lock>>

(***************************************************************************)
(* A statement of initSchema fails, at the latest when SIGTERM cancels the *)
(* context it runs under: deferred calls give the lock back, NewArchive    *)
(* closes the pool and main exits.                                         *)
(***************************************************************************)
BootFails(t) ==
  /\ pc[t] \in {"lock", "ddl"}
  /\ CutShort(t)
  /\ Exit(t)

(***************************************************************************)
(* The deferred unlock left out: the connection goes back to the pool with *)
(* the lock.                                                               *)
(***************************************************************************)
NoUnlock(t) ==
  /\ pc[t] = "unlock"
  /\ Goto(t, "serve")
  /\ UNCHANGED <<cancelled, lock, schema>>

(***************************************************************************)
(* The deferred unlock runs under the same context.  If that is cancelled  *)
(* by now nothing is sent, the error is dropped, and the pooled connection *)
(* keeps the lock; the task goes on all the same.                          *)
(***************************************************************************)
Unlock(t) ==
  /\ pc[t] = "unlock"
  /\ lock' = IF t \in cancelled THEN lock ELSE NoTask
  /\ Goto(t, "serve")
  /\ UNCHANGED <<cancelled, schema>>

(***************************************************************************)
(* ListenAndServe until the context is cancelled, then Shutdown; or Run,   *)
(* whose loop ends with the context.  Then main returns.                   *)
(***************************************************************************)
Stop(t) ==
  /\ pc[t] = "serve" /\ t \in cancelled
  /\ Exit(t)
  /\ UNCHANGED schema

Crash(t) ==
  /\ pc[t] # "down"
  /\ CutShort(t)
  /\ Exit(t)

Proceed(t) == TakeLock(t) \/ CreateSchema(t) \/ Unlock(t) \/ Stop(t)

Next == \E t \in Tasks :
          Start(t) \/ Sigterm(t) \/ Proceed(t) \/ BootFails(t) \/ Crash(t)

Spec == Init /\ [][Next]_vars

(***************************************************************************)
(* A task goes on with whatever it can do.  Postgres queues those that wait*)
(* for the lock, so one that waits gets it although others come and go:    *)
(* strong fairness.  A cancelled statement returns.                        *)
(***************************************************************************)
Fairness ==
  \A t \in Tasks :
    /\ WF_vars(CreateSchema(t) \/ Unlock(t) \/ Stop(t))
    /\ WF_vars(t \in cancelled /\ BootFails(t))
    /\ SF_vars(TakeLock(t))

FairSpec == Spec /\ Fairness

-----------------------------------------------------------------------------
(***************************************************************************)
(* One task at a time runs CREATE TABLE, whichever tasks start, fail, stop *)
(* or crash in between: two at once collide on the catalog.  (initSchema's *)
(* reason for the lock, postgres.go.)                                      *)
(***************************************************************************)
OneCreator ==
  \A s, t \in Tasks : pc[s] = "ddl" /\ pc[t] = "ddl" => s = t

(***************************************************************************)
(* No request is served and no job is taken before the tables exist.       *)
(***************************************************************************)
SchemaBeforeService == \A t \in Tasks : pc[t] = "serve" => schema

(***************************************************************************)
(* A running task holds the lock only if it has been told to stop: the     *)
(* unlock that a cancelled context defeats cannot lock others out for good.*)
(***************************************************************************)
LockNotKept ==
  lock # NoTask => \/ pc[lock] \in {"ddl", "unlock"}
                   \/ pc[lock] = "serve" /\ lock \in cancelled

(***************************************************************************)
(* A task that starts comes to serve, unless it fails or is stopped.       *)
(***************************************************************************)
TaskBoots == \A t \in Tasks : pc[t] = "lock" ~> pc[t] \in {"serve", "down"}

=============================================================================
