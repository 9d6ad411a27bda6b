----------------------------- MODULE Extraction -----------------------------
(***************************************************************************)
(* What ebsclient.cpp promises to the threads that extract, with no ports, *)
(* no semaphores and no sockets: one counting semaphore of Lines units, of *)
(* which a call holds one while the service works for it, and an answer    *)
(* that is of the call itself or a failure.  EbsClient implements this     *)
(* module.                                                                 *)
(***************************************************************************)
EXTENDS Integers

CONSTANTS Threads,    \* threads that extract
          Lines       \* calls that the service works for at one time

VARIABLES free,       \* units nobody holds
          call,       \* "idle", "waiting" for a unit or "served"
          answer      \* of the thread's last call: "none", "own" or "failed"

vars == <<free, call, answer>>

Init ==
  /\ free = Lines
  /\ call = [t \in Threads |-> "idle"]
  /\ answer = [t \in Threads |-> "none"]

Ask(t) ==
  /\ call[t] = "idle"
  /\ call' = [call EXCEPT ![t] = "waiting"]
  /\ answer' = [answer EXCEPT ![t] = "none"]
  /\ UNCHANGED free

Acquire(t) ==
  /\ call[t] = "waiting" /\ free > 0
  /\ call' = [call EXCEPT ![t] = "served"]
  /\ free' = free - 1
  /\ UNCHANGED answer

(* The answer of another call is no answer. *)
Answer(t) ==
  /\ call[t] = "served" /\ answer[t] = "none"
  /\ \E a \in {"own", "failed"} : answer' = [answer EXCEPT ![t] = a]
  /\ UNCHANGED <<free, call>>

(* Only a call that was answered gives its unit back, and only once. *)
Release(t) ==
  /\ call[t] = "served" /\ answer[t] # "none"
  /\ call' = [call EXCEPT ![t] = "idle"]
  /\ free' = free + 1
  /\ UNCHANGED answer

Next == \E t \in Threads : Ask(t) \/ Acquire(t) \/ Answer(t) \/ Release(t)

Spec == Init /\ [][Next]_vars
=============================================================================
