------------------------------ MODULE EbsClient ------------------------------
(***************************************************************************)
(* ebsclient.cpp: threads that extract templates share a pool of ports of  *)
(* the extraction service, one semaphore and one socket object per port.   *)
(* find_free_port takes a port while it holds mx_finder; ebs_request sends *)
(* one request over it, reads one answer, closes the socket and gives the  *)
(* port back.  Sockets block and have no timeout.                          *)
(*                                                                         *)
(* The error codes of ebs_request are one value, "fail": every caller asks *)
(* only whether the result is positive.  Assumed: the two vectors of the   *)
(* pool are filled by a request that runs alone (find_free_port takes no   *)
(* lock for it), socket::close does not throw, write_some writes all, and  *)
(* current_port_ does not overflow (it is kept modulo the port count).     *)
(***************************************************************************)
EXTENDS Integers, FiniteSets

CONSTANTS
  Threads,            \* threads that extract
  extract_port_count  \* ports of the extraction service

ASSUME PortsOK == extract_port_count \in Nat \ {0}

Ports == 0 .. extract_port_count - 1
NoPort == -1
Requests == Threads \X {0, 1}   \* a thread's requests, told apart by a bit
NoRequest == <<>>
Conns == {"closed", "open", "sent", "answered", "broken"}

VARIABLES
  ready,         \* mx_ports and extract_sockets are filled
  mx_ports,      \* value of the semaphore of a port
  mx_finder,     \* value of the semaphore of find_free_port
  current_port_, \* next port to try
  sock,          \* state of the socket of a port
  request,       \* request the service is working on at the other end
  pc, port, bit, \* of a thread
  result,        \* what ebs_request returned
  template       \* the request whose template the thread has received

pool == <<ready, mx_ports, mx_finder, current_port_>>
net == <<sock, request>>
vars == <<pool, net, pc, port, bit, result, template>>

Using == {"connect", "header", "image", "cmd", "recv", "close"}
Busy == Using \cup {"post"}

TypeOK ==
  /\ ready \in BOOLEAN
  /\ mx_ports \in [Ports -> {0, 1}]
  /\ mx_finder \in {0, 1}
  /\ current_port_ \in Ports
  /\ sock \in [Ports -> Conns]
  /\ request \in [Ports -> Requests \cup {NoRequest}]
  /\ pc \in [Threads -> Busy \cup {"idle", "find", "finder", "spin"}]
  /\ port \in [Threads -> Ports \cup {NoPort}]
  /\ bit \in [Threads -> {0, 1}]
  /\ result \in [Threads -> {"none", "ok", "fail"}]
  /\ template \in [Threads -> Requests \cup {NoRequest}]

Init ==
  /\ ready = FALSE
  /\ mx_ports = [p \in Ports |-> 0]
  /\ mx_finder = 1
  /\ current_port_ = 0
  /\ sock = [p \in Ports |-> "closed"]
  /\ request = [p \in Ports |-> NoRequest]
  /\ pc = [t \in Threads |-> "idle"]
  /\ port = [t \in Threads |-> NoPort]
  /\ bit = [t \in Threads |-> 0]
  /\ result = [t \in Threads |-> "none"]
  /\ template = [t \in Threads |-> NoRequest]

At(t, p) == pc[t] = p
Goto(t, p) == pc' = [pc EXCEPT ![t] = p]

-----------------------------------------------------------------------------
(* find_free_port *)

(* A handler calls extract_..._template. *)
Extract(t) ==
  /\ At(t, "idle")
  /\ Goto(t, "find")
  /\ bit' = [bit EXCEPT ![t] = 1 - @]
  /\ result' = [result EXCEPT ![t] = "none"]
  /\ template' = [template EXCEPT ![t] = NoRequest]
  /\ UNCHANGED <<pool, net, port>>

(* The first call creates the semaphores and the sockets. *)
Fill(t) ==
  /\ At(t, "find")
  /\ mx_ports' = IF ready THEN mx_ports ELSE [p \in Ports |-> 1]
  /\ ready' = TRUE
  /\ Goto(t, "finder")
  /\ UNCHANGED <<mx_finder, current_port_, net, port, bit, result, template>>

(* mx_finder.wait() *)
EnterFinder(t) ==
  /\ At(t, "finder")
  /\ mx_finder = 1
  /\ mx_finder' = 0
  /\ Goto(t, "spin")
  /\ UNCHANGED <<ready, mx_ports, current_port_, net, port, bit, result, template>>

(* Mutant: the port is taken without asking its semaphore. *)
TakeAnyPort(t) ==
  /\ At(t, "spin")
  /\ mx_ports' = [mx_ports EXCEPT ![current_port_] = 0]
  /\ mx_finder' = 1
  /\ port' = [port EXCEPT ![t] = current_port_]
  /\ Goto(t, "connect")
  /\ current_port_' = (current_port_ + 1) % extract_port_count
  /\ UNCHANGED <<ready, net, bit, result, template>>

(* Mutant: the counter itself is the index of the port. *)
TryCounter(t) ==
  /\ At(t, "spin")
  /\ IF mx_ports[current_port_] = 1
       THEN /\ mx_ports' = [mx_ports EXCEPT ![current_port_] = 0]
            /\ mx_finder' = 1
            /\ port' = [port EXCEPT ![t] = current_port_]
            /\ Goto(t, "connect")
       ELSE UNCHANGED <<mx_ports, mx_finder, port, pc>>
  /\ current_port_' = current_port_ + 1
  /\ UNCHANGED <<ready, net, bit, result, template>>

(* One round of the loop: mx_ports[port]->try_wait(), the next port tried  *)
(* next time; mx_finder is held until a port is found.                     *)
TryPort(t) ==
  /\ At(t, "spin")
  /\ IF mx_ports[current_port_] = 1
       THEN /\ mx_ports' = [mx_ports EXCEPT ![current_port_] = 0]
            /\ mx_finder' = 1
            /\ port' = [port EXCEPT ![t] = current_port_]
            /\ Goto(t, "connect")
       ELSE UNCHANGED <<mx_ports, mx_finder, port, pc>>
  /\ current_port_' = (current_port_ + 1) % extract_port_count
  /\ UNCHANGED <<ready, net, bit, result, template>>

-----------------------------------------------------------------------------
(* ebs_request *)

Fail(t) == Goto(t, "close") /\ result' = [result EXCEPT ![t] = "fail"]

(* A socket that is still open cannot be connected again. *)
Connect(t) ==
  /\ At(t, "connect")
  /\ \/ /\ sock[port[t]] = "closed"
        /\ sock' = [sock EXCEPT ![port[t]] = "open"]
        /\ Goto(t, "header")
        /\ UNCHANGED result
     \/ Fail(t) /\ UNCHANGED sock
  /\ UNCHANGED <<pool, request, port, bit, template>>

(* write_some of the header, of the image, of the command *)
Write(t, part, next, state) ==
  LET p == port[t]
  IN  /\ At(t, part)
      /\ \/ /\ sock[p] = "open"
            /\ sock' = [sock EXCEPT ![p] = state]
            /\ request' = [request EXCEPT ![p] = <<t, bit[t]>>]
            /\ Goto(t, next)
            /\ UNCHANGED result
         \/ sock[p] # "open" /\ Fail(t) /\ UNCHANGED net
      /\ UNCHANGED <<pool, port, bit, template>>
WriteHeader(t) == Write(t, "header", "image", "open")
WriteImage(t) == Write(t, "image", "cmd", "open")
WriteCmd(t) == Write(t, "cmd", "recv", "sent")

(* Reading the header and the data of the answer, and every check on them; *)
(* read_some may return less than was asked for.                           *)
Receive(t) ==
  /\ At(t, "recv")
  /\ \/ /\ sock[port[t]] = "answered"
        /\ template' = [template EXCEPT ![t] = request[port[t]]]
        /\ Goto(t, "close")
        /\ result' = [result EXCEPT ![t] = "ok"]
     \/ /\ sock[port[t]] \in {"answered", "broken", "closed"}
        /\ Fail(t)
        /\ UNCHANGED template
  /\ UNCHANGED <<pool, net, port, bit>>

(* Mutant: the socket stays open after a successful request. *)
CloseIfFailed(t) ==
  /\ At(t, "close")
  /\ sock' = IF result[t] = "fail" THEN [sock EXCEPT ![port[t]] = "closed"] ELSE sock
  /\ request' = [request EXCEPT ![port[t]] = NoRequest]
  /\ Goto(t, "post")
  /\ UNCHANGED <<pool, port, bit, result, template>>

Close(t) ==
  /\ At(t, "close")
  /\ sock' = [sock EXCEPT ![port[t]] = "closed"]
  /\ request' = [request EXCEPT ![port[t]] = NoRequest]
  /\ Goto(t, "post")
  /\ UNCHANGED <<pool, port, bit, result, template>>

(* Mutant: a failed request returns before the port is posted. *)
PostIfOk(t) ==
  /\ At(t, "post")
  /\ mx_ports' = IF result[t] = "ok" THEN [mx_ports EXCEPT ![port[t]] = 1] ELSE mx_ports
  /\ port' = [port EXCEPT ![t] = NoPort]
  /\ Goto(t, "idle")
  /\ UNCHANGED <<ready, mx_finder, current_port_, net, bit, result, template>>

(* mx_ports[port_index]->post() *)
Post(t) ==
  /\ At(t, "post")
  /\ mx_ports' = [mx_ports EXCEPT ![port[t]] = 1]
  /\ port' = [port EXCEPT ![t] = NoPort]
  /\ Goto(t, "idle")
  /\ UNCHANGED <<ready, mx_finder, current_port_, net, bit, result, template>>

-----------------------------------------------------------------------------
(* The service answers a whole request, or drops the connection. *)
Service(p) ==
  /\ \/ sock[p] = "sent" /\ sock' = [sock EXCEPT ![p] = "answered"]
     \/ sock[p] \in {"open", "sent"} /\ sock' = [sock EXCEPT ![p] = "broken"]
  /\ UNCHANGED <<pool, request, pc, port, bit, result, template>>

Step(t) ==
  \/ Fill(t) \/ EnterFinder(t) \/ TryPort(t)
  \/ Connect(t) \/ WriteHeader(t) \/ WriteImage(t) \/ WriteCmd(t)
  \/ Receive(t) \/ Close(t) \/ Post(t)

Next == (\E t \in Threads : Extract(t) \/ Step(t)) \/ \E p \in Ports : Service(p)

Spec == Init /\ [][Next]_vars

(* Threads keep running and the service ends every request; nothing makes  *)
(* a thread extract, and nothing favours a thread that waits at mx_finder. *)
FairSpec ==
  /\ Spec
  /\ \A t \in Threads : WF_vars(Step(t))
  /\ \A p \in Ports : WF_vars(Service(p))

-----------------------------------------------------------------------------
(* Properties *)

(* No two requests use the socket of one port at the same time. *)
PortExclusive ==
  \A t, u \in Threads :
    (t # u /\ pc[t] \in Busy /\ pc[u] \in Busy) => port[t] # port[u]

(* A successful request has received the template of its own image, not of *)
(* an earlier one on the same port, nor of another thread's.               *)
OwnAnswer ==
  \A t \in Threads : result[t] = "ok" => template[t] = <<t, bit[t]>>

(* A port is given back with its socket closed, so that the next request   *)
(* can connect it.                                                         *)
FreePortClosed ==
  \A p \in Ports : mx_ports[p] = 1 => sock[p] = "closed"

(* A thread that holds mx_finder finds a port and is answered, though it   *)
(* keeps every other thread from looking for one.                          *)
FinderServed ==
  \A t \in Threads : At(t, "spin") ~> At(t, "idle")

-----------------------------------------------------------------------------
(* What the pool implements: before it is filled every port is free, later *)
(* the ports whose semaphore is 1; a call waits while it looks for a port  *)
(* and is served while it has one.                                         *)
FreePorts == {p \in Ports : ~ready \/ mx_ports[p] = 1}

Call(t) ==
  IF pc[t] = "idle" THEN "idle" ELSE IF pc[t] \in Busy THEN "served" ELSE "waiting"

Answer(t) ==
  IF result[t] = "none" THEN "none"
  ELSE IF result[t] = "fail" THEN "failed"
  ELSE IF template[t] = <<t, bit[t]>> THEN "own" ELSE "of another"

Calls == INSTANCE Extraction WITH
       Lines <- extract_port_count,
       free <- Cardinality(FreePorts),
       call <- [t \in Threads |-> Call(t)],
       answer <- [t \in Threads |-> Answer(t)]

(* The ports, each with a semaphore of its own, and mx_finder act as one   *)
(* counting semaphore of extract_port_count units: a call is served by one *)
(* unit at a time, gives it back once, after it was answered, and has the  *)
(* answer to its own image or none.                                        *)
ActsAsOneSemaphore == Calls!Spec
=============================================================================
