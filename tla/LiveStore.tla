----------------------------- MODULE LiveStore ------------------------------
(***************************************************************************)
(* internal/store/redis.go: the live games, one Redis key per game, written*)
(* only through a Lua script that compares the stored ply with the ply the *)
(* writer read and sets the new value in the same atomic step.             *)
(***************************************************************************)
EXTENDS Game, Faults

CONSTANT Absent     \* what Get finds under a key that does not exist

ASSUME AbsentAssumption == Absent \notin Game /\ Absent \notin GameIds

VARIABLE live       \* live[id]: the stored game, or Absent

LiveTypeOK == live \in [GameIds -> Game \cup {Absent}]

LiveInit == live = [id \in GameIds |-> Absent]

Exists(id) == live[id] # Absent

(***************************************************************************)
(* The test without its ply comparison, and without "elseif not cur".      *)
(***************************************************************************)
CasIgnoresPly(id, expected) ==
  IF expected = -1 THEN ~Exists(id) ELSE Exists(id)

CasAcceptsMissing(id, expected) ==
  IF expected = -1 THEN ~Exists(id)
                   ELSE Exists(id) => live[id].ply = expected

(***************************************************************************)
(* The script's test.  expected = -1 asks that the key does not exist yet. *)
(***************************************************************************)
CasAccepts(id, expected) ==
  IF expected = -1 THEN ~Exists(id)
                   ELSE Exists(id) /\ live[id].ply = expected

CasApplies(id, g, expected) ==
  /\ CasAccepts(id, expected)
  /\ live' = [live EXCEPT ![id] = g]

(***************************************************************************)
(* The three ways write() returns.  A conflict is the script's answer 0:   *)
(* either the test failed, or the reply to a first, successful execution   *)
(* was lost and the Redis client ran the script again, which then fails on *)
(* the value it wrote itself.  (A resignation leaves the ply as it was, so *)
(* its second execution succeeds and looks like WriteOk.)  An error says   *)
(* nothing about whether the script ran.                                   *)
(***************************************************************************)
WriteOk(id, g, expected) == CasApplies(id, g, expected)

WriteConflict(id, g, expected) ==
  \/ /\ ~CasAccepts(id, expected)
     /\ UNCHANGED live
  \/ /\ May("redisRetry")
     /\ g.ply # expected
     /\ CasApplies(id, g, expected)

WriteError(id, g, expected) ==
  \/ /\ May("redisDown")
     /\ UNCHANGED live
  \/ /\ May("redisLost")
     /\ CasApplies(id, g, expected)

(***************************************************************************)
(* Every write gives the key a TTL of 24 hours; the demo deployment also   *)
(* lets Redis evict any key when memory runs out.                          *)
(***************************************************************************)
ExpireKey(id) ==
  /\ May("expiry")
  /\ Exists(id)
  /\ live' = [live EXCEPT ![id] = Absent]

=============================================================================
