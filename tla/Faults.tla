------------------------------- MODULE Faults -------------------------------
(***************************************************************************)
(* The failures of the environment that a run switches on.  Every other    *)
(* module asks May(kind) before it lets a call fail, so that a run names   *)
(* exactly the failures under which it claims its properties.              *)
(***************************************************************************)

CONSTANT Faults

(***************************************************************************)
(*   apiCrash     an api task dies, or the caller goes away: net/http then *)
(*                cancels r.Context() and every later call of the handler  *)
(*                fails, which leaves the same state as a crash            *)
(*   workerCrash  a worker dies, or is stopped by SIGTERM between two calls*)
(*   redisDown    a Redis command fails before it has any effect           *)
(*   redisLost    the CAS script runs but its caller only sees an error    *)
(*   redisRetry   as redisLost, and the Redis client sends the script again*)
(*   sqsSend      SendMessage fails                                        *)
(*   sqsDup       SendMessage is retried by the SDK after a lost reply, or *)
(*                the queue stores the message twice (at-least-once)       *)
(*   sqsDelete    DeleteMessage fails                                      *)
(*   slow         a message becomes visible again while its receiver is    *)
(*                still working on it                                      *)
(*   engine       Engine.BestMove returns an error                         *)
(*   pg           INSERT into the archive fails                            *)
(*   expiry       Redis drops a game: its TTL ran out, or it was evicted   *)
(*   wsClose      a browser's WebSocket closes                             *)
(*   overtake     a state is published after one that was written later    *)
(***************************************************************************)
FaultKinds ==
  {"apiCrash", "workerCrash", "redisDown", "redisLost", "redisRetry",
   "sqsSend", "sqsDup", "sqsDelete", "slow", "engine", "pg", "expiry",
   "wsClose", "overtake"}

ASSUME FaultsAssumption == Faults \subseteq FaultKinds

May(kind) == kind \in Faults

=============================================================================
