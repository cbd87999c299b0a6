----------------------------- MODULE BootProofs -----------------------------
(***************************************************************************)
(* Safety of the boot protocol for any set of tasks.                       *)
(***************************************************************************)
EXTENDS Boot, TLAPS

(***************************************************************************)
(* What the lock means: a task between pg_advisory_lock and the unlock has *)
(* it, the tables exist from there on, and nobody else keeps it.           *)
(***************************************************************************)
LockMeans ==
  /\ \A t \in Tasks : pc[t] \in {"ddl", "unlock"} => lock = t
  /\ \A t \in Tasks : pc[t] \in {"unlock", "serve"} => schema
  /\ LockNotKept

BootInv == TypeOK /\ LockMeans

(***************************************************************************)
(* The lock's meaning and the types are kept by every step of every task   *)
(* (the two mains and initSchema).                                         *)
(***************************************************************************)
LEMMA BootInvariant == Spec => []BootInv
<1>1. Init => BootInv
  BY NoTaskAssumption DEF Init, BootInv, TypeOK, LockMeans, LockNotKept
<1>2. BootInv /\ [Next]_vars => BootInv'
  <2> SUFFICES ASSUME BootInv, [Next]_vars PROVE BootInv'
    OBVIOUS
  <2> USE NoTaskAssumption DEF BootInv, TypeOK, LockMeans, LockNotKept
  <2>1. ASSUME NEW t \in Tasks, Start(t) PROVE BootInv'
    BY <2>1 DEF Start, Goto
  <2>2. ASSUME NEW t \in Tasks, Sigterm(t) PROVE BootInv'
    BY <2>2 DEF Sigterm
  <2>3. ASSUME NEW t \in Tasks, TakeLock(t) PROVE BootInv'
    BY <2>3 DEF TakeLock, Goto
  <2>4. ASSUME NEW t \in Tasks, CreateSchema(t) PROVE BootInv'
    BY <2>4 DEF CreateSchema, Goto
  <2>5. ASSUME NEW t \in Tasks, Unlock(t) PROVE BootInv'
    BY <2>5 DEF Unlock, Goto
  <2>6. ASSUME NEW t \in Tasks, Exit(t), CutShort(t) PROVE BootInv'
    BY <2>6 DEF Exit, CutShort, Goto
  <2>7. ASSUME NEW t \in Tasks, Stop(t) PROVE BootInv'
    BY <2>7, <2>6 DEF Stop, CutShort
  <2>8. CASE UNCHANGED vars
    BY <2>8 DEF vars
  <2>9. QED
    BY <2>1, <2>2, <2>3, <2>4, <2>5, <2>6, <2>7, <2>8
       DEF Next, Proceed, BootFails, Crash
<1>3. QED
  BY <1>1, <1>2, PTL DEF Spec

(***************************************************************************)
(* Any number of api tasks and workers, started, stopped and crashing at   *)
(* any time: one of them at a time runs CREATE TABLE (initSchema).         *)
(***************************************************************************)
THEOREM CreatorsExclude == Spec => []OneCreator
<1>1. BootInv => OneCreator
  BY DEF BootInv, LockMeans, OneCreator
<1>2. QED
  BY <1>1, BootInvariant, PTL

(***************************************************************************)
(* No task serves or polls before the tables exist (main, NewArchive).     *)
(***************************************************************************)
THEOREM TablesBeforeService == Spec => []SchemaBeforeService
<1>1. BootInv => SchemaBeforeService
  BY DEF BootInv, LockMeans, SchemaBeforeService
<1>2. QED
  BY <1>1, BootInvariant, PTL

(***************************************************************************)
(* A serving task that still has the lock is about to exit (Close frees    *)
(* what a defeated unlock left behind).                                    *)
(***************************************************************************)
THEOREM NobodyKeepsTheLock == Spec => []LockNotKept
<1>1. BootInv => LockNotKept
  BY DEF BootInv, LockMeans
<1>2. QED
  BY <1>1, BootInvariant, PTL

=============================================================================
