------------------------------ MODULE JobQueue ------------------------------
(***************************************************************************)
(* internal/queue on top of SQS: at-least-once delivery with a visibility  *)
(* timeout and a dead-letter queue.  The client's calls are SendMessage    *)
(* (Enqueue), ReceiveMessage (Receive) and DeleteMessage (Ack); the queue's*)
(* own steps are the end of a visibility timeout and the redrive of a      *)
(* message that was received MaxReceive times.                             *)
(***************************************************************************)
EXTENDS Game, Faults, FiniteSets

CONSTANTS MaxReceive,   \* maxReceiveCount of the redrive policy
          MaxBatch      \* messages asked for in one Receive

ASSUME QueueAssumption == MaxReceive \in Nat \ {0} /\ MaxBatch \in Nat \ {0}

VARIABLES queue,        \* the messages SQS stores
          sent,         \* messages stored so far, the source of their ids
          dead          \* jobs moved to the dead-letter queue

queueVars == <<queue, sent, dead>>

Job     == [game : GameIds, ply : Nat]
Message == [id : Nat, job : Job, received : Nat, visible : BOOLEAN]

QueueTypeOK ==
  /\ queue \subseteq Message
  /\ sent \in Nat
  /\ dead \subseteq Job

QueueInit == queue = {} /\ sent = 0 /\ dead = {}

Fresh(id, job) == [id |-> id, job |-> job, received |-> 0, visible |-> TRUE]

Enqueue(job) ==
  /\ queue' = queue \cup {Fresh(sent, job)}
  /\ sent' = sent + 1
  /\ UNCHANGED dead

(***************************************************************************)
(* One call of Enqueue can store the job twice.                            *)
(***************************************************************************)
EnqueueTwice(job) ==
  /\ May("sqsDup")
  /\ queue' = queue \cup {Fresh(sent, job), Fresh(sent + 1, job)}
  /\ sent' = sent + 2
  /\ UNCHANGED dead

EnqueueFails == May("sqsSend") /\ UNCHANGED queueVars

(***************************************************************************)
(* A delivery is the message as its receiver got it; its receive count     *)
(* stands for the receipt handle, which is new at every receipt.           *)
(***************************************************************************)
Deliver(m) == [m EXCEPT !.received = @ + 1, !.visible = FALSE]

Receivable == {m \in queue : m.visible /\ m.received < MaxReceive}

Receive(batch) ==
  /\ batch \subseteq Receivable
  /\ Cardinality(batch) \in 1..MaxBatch
  /\ queue' = (queue \ batch) \cup {Deliver(m) : m \in batch}
  /\ UNCHANGED <<sent, dead>>

(***************************************************************************)
(* An acknowledgement that takes all the messages of a game with it.       *)
(***************************************************************************)
DeleteGame(d) ==
  /\ queue' = {m \in queue : m.job.game # d.job.game}
  /\ UNCHANGED <<sent, dead>>

(***************************************************************************)
(* Deleting with the handle of the latest receipt removes the message.     *)
(* With an older handle SQS also reports success, but may keep it.         *)
(***************************************************************************)
Delete(d) ==
  /\ \/ queue' = {m \in queue : m.id # d.id}
     \/ /\ \E m \in queue : m.id = d.id /\ m.received # d.received
        /\ UNCHANGED queue
  /\ UNCHANGED <<sent, dead>>

DeleteFails == May("sqsDelete") /\ UNCHANGED queueVars

VisibilityEnds(m) ==
  /\ m \in queue /\ ~m.visible
  /\ queue' = (queue \ {m}) \cup {[m EXCEPT !.visible = TRUE]}
  /\ UNCHANGED <<sent, dead>>

Redrive(m) ==
  /\ m \in queue /\ m.visible /\ m.received = MaxReceive
  /\ queue' = queue \ {m}
  /\ dead' = dead \cup {m.job}
  /\ UNCHANGED sent

=============================================================================
