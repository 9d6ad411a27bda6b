----------------------------- MODULE RequestPool -----------------------------
(***************************************************************************)
(* The thread pool every handler runs on (main.cpp:90).  handle_request    *)
(* holds a thread while the action it posted runs on another; search_get   *)
(* and compare_get hold a second one while they wait for a task that waits *)
(* for one task per element.  The pool is a queue of jobs: a free thread   *)
(* takes the oldest, and a thread whose job waits stays taken.             *)
(*                                                                         *)
(* What a job does besides posting and waiting is in the other modules; it *)
(* ends.  An element that throws (a missing field, a value of the wrong    *)
(* type) ends the wait for the elements after it.                          *)
(***************************************************************************)
EXTENDS Integers, Sequences, SequencesExt, FiniteSets

CONSTANTS
  Requests,  \* requests that clients send
  Tasks,     \* element tasks of a request; -1: its action creates no task
  PoolSize,  \* initialize_with_threads
  MaxLoad    \* bound: load of the requests in flight (see Load)

ASSUME PoolOK ==
  /\ PoolSize \in Nat \ {0}
  /\ Tasks \in [Requests -> Nat \cup {-1}]

Forks == {r \in Requests : Tasks[r] >= 0}  \* search and compare
Elements(r) == 1..Tasks[r]

(* Jobs: handler; the action of handle_request; the task that creates the  *)
(* element tasks; these; the continuation that waits for them.             *)
Job(part, r) == [part |-> part, of |-> r, i |-> 0]
Element(r, i) == [part |-> "element", of |-> r, i |-> i]
Jobs ==
  {Job(part, r) : part \in {"handler", "action"}, r \in Requests}
    \cup {Job(part, r) : part \in {"create", "join"}, r \in Forks}
    \cup UNION {{Element(r, i) : i \in Elements(r)} : r \in Forks}

VARIABLES
  queue,    \* jobs no thread has taken
  running,  \* jobs that have a thread
  ended,    \* jobs that have ended
  threw     \* element tasks among these that ended in an exception

vars == <<queue, running, ended, threw>>

Queued == ToSet(queue)
Posted == Queued \cup running \cup ended

Init == queue = <<>> /\ running = {} /\ ended = {} /\ threw = {}

InFlight(r) == Job("handler", r) \in Queued \cup running

(* The threads that the requests in flight may hold while they wait. *)
Load ==
  LET flying == {r \in Requests : InFlight(r)}
  IN  Cardinality(flying) + Cardinality(flying \cap Forks)

Weight(r) == IF r \in Forks THEN 2 ELSE 1

WaitedFirst(r) == Elements(r) # {} => Element(r, 1) \in ended    \* mutant: wait_any

(* for (auto v : prevTask.get()) v.wait(); the exception of a task comes   *)
(* out of its wait().                                                      *)
Waited(r) ==
  \/ \A i \in Elements(r) : Element(r, i) \in ended
  \/ \E k \in Elements(r) :
       /\ \A i \in 1..k : Element(r, i) \in ended
       /\ Element(r, k) \in threw

(* A job that keeps its thread until another job has ended: handler and    *)
(* action by task::wait, the join by its loop.                             *)
Waits(job) ==
  LET r == job.of
  IN  \/ job.part = "handler" /\ Job("action", r) \notin ended
      \/ job.part = "action" /\ r \in Forks /\ Job("join", r) \notin ended
      \/ job.part = "join" /\ ~Waited(r)

-----------------------------------------------------------------------------
Post(jobs) == queue' = queue \o jobs

Arrive(r) ==
  /\ Job("handler", r) \notin Posted
  /\ Load + Weight(r) <= MaxLoad
  /\ Post(<<Job("handler", r)>>)
  /\ UNCHANGED <<running, ended, threw>>

TakeNewest ==                                  \* mutant: a stack of jobs
  /\ queue # <<>> /\ Cardinality(running) < PoolSize
  /\ running' = running \cup {Last(queue)}
  /\ queue' = Front(queue)
  /\ UNCHANGED <<ended, threw>>

Take ==
  /\ queue # <<>> /\ Cardinality(running) < PoolSize
  /\ running' = running \cup {Head(queue)}
  /\ queue' = Tail(queue)
  /\ UNCHANGED <<ended, threw>>

Ends(job) == running' = running \ {job} /\ ended' = ended \cup {job}

(* handle_request: extract_json().then(...) posts the action when the body *)
(* has come; wait(); reply.                                                *)
Body(r) ==
  /\ Job("handler", r) \in running
  /\ Job("action", r) \notin Posted
  /\ Post(<<Job("action", r)>>)
  /\ UNCHANGED <<running, ended, threw>>

ReplyAtOnce(r) ==                              \* mutant: no wait()
  /\ Job("handler", r) \in running
  /\ Job("action", r) \in Posted
  /\ Ends(Job("handler", r))
  /\ UNCHANGED <<queue, threw>>

Reply(r) ==
  /\ Job("handler", r) \in running
  /\ ~Waits(Job("handler", r))
  /\ Ends(Job("handler", r))
  /\ UNCHANGED <<queue, threw>>

(* The action of a request without tasks *)
Serve(r) ==
  /\ r \notin Forks
  /\ Job("action", r) \in running
  /\ Ends(Job("action", r))
  /\ UNCHANGED <<queue, threw>>

(* The action of search_get and compare_get: task(...).then(...).wait() *)
Fork(r) ==
  /\ Job("action", r) \in running
  /\ r \in Forks /\ Job("create", r) \notin Posted
  /\ Post(<<Job("create", r)>>)
  /\ UNCHANGED <<running, ended, threw>>

Joined(r) ==
  /\ Job("action", r) \in running
  /\ r \in Forks /\ ~Waits(Job("action", r))
  /\ Ends(Job("action", r))
  /\ UNCHANGED <<queue, threw>>

Create(r) ==
  /\ Job("create", r) \in running
  /\ Post([i \in Elements(r) |-> Element(r, i)])
  /\ Ends(Job("create", r))
  /\ UNCHANGED threw

ThenAtOnce(r) ==                               \* mutant: the join does not follow the task
  /\ Job("create", r) \in running
  /\ Job("join", r) \notin Posted
  /\ Post(<<Job("join", r)>>)
  /\ UNCHANGED <<running, ended, threw>>

(* The continuation is posted once the task it follows has ended. *)
Then(r) ==
  /\ Job("create", r) \in ended
  /\ Job("join", r) \notin Posted
  /\ Post(<<Job("join", r)>>)
  /\ UNCHANGED <<running, ended, threw>>

Run(r, i) ==
  /\ Element(r, i) \in running
  /\ Ends(Element(r, i))
  /\ \/ UNCHANGED threw
     \/ threw' = threw \cup {Element(r, i)}
  /\ UNCHANGED queue

Join(r) ==
  /\ Job("join", r) \in running
  /\ ~Waits(Job("join", r))
  /\ Ends(Job("join", r))
  /\ UNCHANGED <<queue, threw>>

Work(r) ==
  \/ Body(r) \/ Reply(r) \/ Serve(r)
  \/ Fork(r) \/ Create(r) \/ Then(r) \/ Join(r) \/ Joined(r)
  \/ \E i \in Elements(r) : Run(r, i)

(* Nothing is left to do: also the end of every request of the model. *)
Idle == queue = <<>> /\ running = {} /\ UNCHANGED vars

(* Every thread is taken by a job that waits for a job that needs a        *)
(* thread: the process goes on and does nothing.                           *)
Exhausted == Cardinality(running) = PoolSize /\ \A job \in running : Waits(job)
Hang == Exhausted /\ UNCHANGED vars

Next == Take \/ Idle \/ Hang \/ \E r \in Requests : Arrive(r) \/ Work(r)

Spec == Init /\ [][Next]_vars

(* Threads do not stop and clients send their bodies. *)
FairSpec == Spec /\ WF_vars(Take) /\ \A r \in Requests : WF_vars(Work(r))

-----------------------------------------------------------------------------
(* Properties *)

(* The pool is exhausted for ever only by as many waits as it has threads: *)
(* one for a plain request, two for a search or a comparison, none for the *)
(* join, whose elements are in front of it in the queue.                   *)
ExhaustedOnlyWhenFull == Exhausted => Load >= PoolSize

(* A task that uses the handler's variables by reference is queued or runs *)
(* after the handler has gone only if an earlier task of the same request  *)
(* has thrown.                                                             *)
OutlivesOnlyAfterThrow ==
  \A r \in Requests : Job("handler", r) \in ended =>
    \A j \in Queued \cup running : j.of = r =>
      /\ j.part = "element"
      /\ \E i \in 1..(j.i - 1) : Element(r, i) \in threw

(* If the load stays below the number of threads every request is answered. *)
EveryRequestAnswered ==
  [](Load < PoolSize) =>
    \A r \in Requests :
      Job("handler", r) \in Queued ~> Job("handler", r) \in ended
=============================================================================
