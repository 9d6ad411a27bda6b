--------------------------- MODULE EbsClientProofs ---------------------------
(***************************************************************************)
(* Safety of the port pool of ebsclient.cpp, for any set of threads and    *)
(* any number of ports.                                                    *)
(***************************************************************************)
EXTENDS EbsClient, FiniteSetTheorems, TLAPS

(* A thread owns a port from TryPort to Post; the semaphore of an owned    *)
(* port is 0, and an open socket belongs to its owner's request.           *)
Owns(t, p) == pc[t] \in Busy /\ port[t] = p

OwnerInv ==
  /\ \A t \in Threads : pc[t] \in Busy => port[t] \in Ports /\ mx_ports[port[t]] = 0
  /\ PortExclusive
  /\ ~ready => \A t \in Threads : pc[t] \in {"idle", "find"}

SocketInv ==
  \A p \in Ports : sock[p] # "closed" =>
    \E t \in Threads : Owns(t, p) /\ pc[t] \notin {"connect", "post"}

RequestInv ==
  \A t \in Threads :
    (pc[t] \in {"image", "cmd", "recv"} /\ sock[port[t]] # "closed") =>
      request[port[t]] = <<t, bit[t]>>

(* A request has a result from its first failure or its answer on.         *)
ResultInv ==
  \A t \in Threads :
    /\ pc[t] \notin {"idle", "close", "post"} => result[t] = "none"
    /\ pc[t] \in {"close", "post"} => result[t] # "none"

IInv == TypeOK /\ OwnerInv /\ SocketInv /\ RequestInv /\ OwnAnswer /\ ResultInv

USE PortsOK DEF Ports

(* The invariant holds when no thread has extracted yet. *)
LEMMA InitInv == Init => IInv
<1> SUFFICES ASSUME Init PROVE IInv
  OBVIOUS
<1> USE DEF Init
<1>1. TypeOK
  <2>1. current_port_ \in Ports
    OBVIOUS
  <2>2. mx_ports \in [Ports -> {0, 1}] /\ sock \in [Ports -> Conns]
    BY DEF Conns
  <2>3. pc \in [Threads -> Busy \cup {"idle", "find", "finder", "spin"}]
    OBVIOUS
  <2>4. QED BY <2>1, <2>2, <2>3 DEF TypeOK
<1>2. OwnerInv
  BY DEF OwnerInv, PortExclusive, Busy, Using
<1>3. SocketInv /\ RequestInv /\ OwnAnswer /\ ResultInv
  BY DEF SocketInv, RequestInv, OwnAnswer, ResultInv
<1>4. QED BY <1>1, <1>2, <1>3 DEF IInv

(* The type of every variable is kept; the port a thread uses is a port of *)
(* the pool because the thread owns it.                                    *)
LEMMA TypeStep == TypeOK /\ OwnerInv /\ [Next]_vars => TypeOK'
<1> SUFFICES ASSUME TypeOK, OwnerInv, [Next]_vars PROVE TypeOK'
  OBVIOUS
<1> USE DEF TypeOK, At, Goto
<1>1. ASSUME NEW t \in Threads, Extract(t) PROVE TypeOK'
  <2>1. bit' \in [Threads -> {0, 1}]
    BY <1>1 DEF Extract
  <2>2. pc' \in [Threads -> Busy \cup {"idle", "find", "finder", "spin"}]
    BY <1>1 DEF Extract
  <2>3. QED BY <1>1, <2>1, <2>2 DEF Extract, pool, net
<1>2. ASSUME NEW t \in Threads, Fill(t) PROVE TypeOK'
  BY <1>2 DEF Fill, net
<1>3. ASSUME NEW t \in Threads, EnterFinder(t) PROVE TypeOK'
  BY <1>3 DEF EnterFinder, net
<1>4. ASSUME NEW t \in Threads, TryPort(t) PROVE TypeOK'
  <2>1. current_port_' \in Ports
    BY <1>4 DEF TryPort
  <2>2. QED BY <1>4, <2>1 DEF TryPort, net, Busy, Using
<1>5. ASSUME NEW t \in Threads, Connect(t) PROVE TypeOK'
  BY <1>5 DEF Connect, Fail, pool, Busy, Using, Conns
<1>6. ASSUME NEW t \in Threads, NEW part, NEW next \in Using, NEW state \in Conns,
             Write(t, part, next, state)
      PROVE  TypeOK'
  <2>1. <<t, bit[t]>> \in Requests
    BY DEF Requests
  <2>2. CASE Fail(t) /\ UNCHANGED net
    BY <1>6, <2>2 DEF Write, Fail, pool, net, Busy, Using
  <2>3. CASE /\ sock' = [sock EXCEPT ![port[t]] = state]
             /\ request' = [request EXCEPT ![port[t]] = <<t, bit[t]>>]
             /\ Goto(t, next)
             /\ UNCHANGED result
    <3>1. sock' \in [Ports -> Conns]
      BY <2>3
    <3>2. request' \in [Ports -> Requests \cup {NoRequest}]
      BY <2>1, <2>3
    <3>3. pc' \in [Threads -> Busy \cup {"idle", "find", "finder", "spin"}]
      BY <2>3 DEF Busy
    <3>4. QED BY <1>6, <2>3, <3>1, <3>2, <3>3 DEF Write, pool
  <2>4. QED BY <1>6, <2>2, <2>3 DEF Write
<1>7. ASSUME NEW t \in Threads, Receive(t) PROVE TypeOK'
  <2>1. port[t] \in Ports
    BY <1>7 DEF Receive, OwnerInv, Busy, Using
  <2>2. QED BY <1>7, <2>1 DEF Receive, Fail, pool, net, Busy, Using
<1>8. ASSUME NEW t \in Threads, Close(t) PROVE TypeOK'
  BY <1>8 DEF Close, pool, Busy, Conns
<1>9. ASSUME NEW t \in Threads, Post(t) PROVE TypeOK'
  BY <1>9 DEF Post, net
<1>10. ASSUME NEW p \in Ports, Service(p) PROVE TypeOK'
  BY <1>10 DEF Service, pool, Conns
<1>11. CASE UNCHANGED vars
  BY <1>11 DEF vars, pool, net
<1>12. QED
  BY <1>1, <1>2, <1>3, <1>4, <1>5, <1>6, <1>7, <1>8, <1>9, <1>10, <1>11
     DEF Next, Step, WriteHeader, WriteImage, WriteCmd, Using, Conns

(* A thread that keeps its port changes no one's ownership.                *)
LEMMA StaysBusy ==
  ASSUME TypeOK, OwnerInv, NEW t \in Threads, NEW q \in Busy, pc[t] \in Busy,
         pc' = [pc EXCEPT ![t] = q], UNCHANGED <<pool, port>>
  PROVE  OwnerInv'
<1>1. \A u \in Threads : pc'[u] \in Busy => pc[u] \in Busy
  BY DEF TypeOK
<1>2. port' = port /\ mx_ports' = mx_ports /\ ready' = ready
  BY DEF pool
<1>3. ready
  BY DEF OwnerInv, Busy, Using
<1>4. QED BY <1>1, <1>2, <1>3 DEF OwnerInv, PortExclusive

(* A port is taken only when its semaphore is 1, so no one else owns it.   *)
LEMMA OwnerStep == TypeOK /\ OwnerInv /\ [Next]_vars => OwnerInv'
<1> SUFFICES ASSUME TypeOK, OwnerInv, [Next]_vars PROVE OwnerInv'
  OBVIOUS
<1> USE DEF TypeOK, OwnerInv, PortExclusive, At, Goto, Busy, Using
<1>1. ASSUME NEW t \in Threads, Extract(t) PROVE OwnerInv'
  BY <1>1 DEF Extract, pool, net
<1>2. ASSUME NEW t \in Threads, Fill(t) PROVE OwnerInv'
  BY <1>2 DEF Fill, net
<1>3. ASSUME NEW t \in Threads, EnterFinder(t) PROVE OwnerInv'
  BY <1>3 DEF EnterFinder, net
<1>4. ASSUME NEW t \in Threads, TryPort(t) PROVE OwnerInv'
  <2>1. CASE mx_ports[current_port_] = 1
    <3>1. \A u \in Threads : u # t => (pc'[u] = pc[u] /\ port'[u] = port[u])
      BY <1>4, <2>1 DEF TryPort
    <3>2. /\ port'[t] = current_port_ /\ mx_ports'[current_port_] = 0
          /\ \A p \in Ports : p # current_port_ => mx_ports'[p] = mx_ports[p]
          /\ ready' = ready /\ ready
      BY <1>4, <2>1 DEF TryPort
    <3>3. \A u \in Threads : (u # t /\ pc[u] \in Busy) => port[u] # current_port_
      BY <2>1
    <3>4. \A u \in Threads : pc'[u] \in Busy =>
             port'[u] \in Ports /\ mx_ports'[port'[u]] = 0
      BY <3>1, <3>2, <3>3
    <3>5. PortExclusive'
      BY <3>1, <3>2, <3>3
    <3>6. QED BY <3>2, <3>4, <3>5
  <2>2. CASE mx_ports[current_port_] # 1
    BY <1>4, <2>2 DEF TryPort
  <2>3. QED BY <2>1, <2>2
<1>5. ASSUME NEW t \in Threads, Connect(t) PROVE OwnerInv'
  <2>1. pc[t] \in Busy /\ \E q \in Busy : pc' = [pc EXCEPT ![t] = q]
    BY <1>5 DEF Connect, Fail
  <2>2. UNCHANGED <<pool, port>>
    BY <1>5 DEF Connect, Fail
  <2>3. QED BY <2>1, <2>2, StaysBusy
<1>6. ASSUME NEW t \in Threads, WriteHeader(t) \/ WriteImage(t) \/ WriteCmd(t) PROVE OwnerInv'
  <2>1. pc[t] \in Busy /\ \E q \in Busy : pc' = [pc EXCEPT ![t] = q]
    BY <1>6 DEF WriteHeader, WriteImage, WriteCmd, Write, Fail
  <2>2. UNCHANGED <<pool, port>>
    BY <1>6 DEF WriteHeader, WriteImage, WriteCmd, Write, Fail
  <2>3. QED BY <2>1, <2>2, StaysBusy
<1>7. ASSUME NEW t \in Threads, Receive(t) PROVE OwnerInv'
  <2>1. pc[t] \in Busy /\ \E q \in Busy : pc' = [pc EXCEPT ![t] = q]
    BY <1>7 DEF Receive, Fail
  <2>2. UNCHANGED <<pool, port>>
    BY <1>7 DEF Receive, Fail
  <2>3. QED BY <2>1, <2>2, StaysBusy
<1>8. ASSUME NEW t \in Threads, Close(t) PROVE OwnerInv'
  <2>1. pc[t] \in Busy /\ \E q \in Busy : pc' = [pc EXCEPT ![t] = q]
    BY <1>8 DEF Close
  <2>2. UNCHANGED <<pool, port>>
    BY <1>8 DEF Close
  <2>3. QED BY <2>1, <2>2, StaysBusy
<1>9. ASSUME NEW t \in Threads, Post(t) PROVE OwnerInv'
  BY <1>9 DEF Post, net
<1>10. ASSUME NEW p \in Ports, Service(p) PROVE OwnerInv'
  BY <1>10 DEF Service, pool
<1>11. CASE UNCHANGED vars
  BY <1>11 DEF vars, pool, net
<1>12. QED
  BY <1>1, <1>2, <1>3, <1>4, <1>5, <1>6, <1>7, <1>8, <1>9, <1>10, <1>11
     DEF Next, Step

(* Only the owner of a port opens its socket, and it closes it before Post. *)
LEMMA SocketStep == TypeOK /\ OwnerInv /\ SocketInv /\ [Next]_vars => SocketInv'
<1> SUFFICES ASSUME TypeOK, OwnerInv, SocketInv, [Next]_vars PROVE SocketInv'
  OBVIOUS
<1> USE DEF TypeOK, OwnerInv, PortExclusive, SocketInv, Owns, At, Goto, Busy, Using
<1>1. ASSUME NEW t \in Threads, Extract(t) PROVE SocketInv'
  BY <1>1 DEF Extract, pool, net
<1>2. ASSUME NEW t \in Threads, Fill(t) PROVE SocketInv'
  BY <1>2 DEF Fill, net
<1>3. ASSUME NEW t \in Threads, EnterFinder(t) PROVE SocketInv'
  BY <1>3 DEF EnterFinder, net
<1>4. ASSUME NEW t \in Threads, TryPort(t) PROVE SocketInv'
  BY <1>4 DEF TryPort, net
<1>5. ASSUME NEW t \in Threads, Connect(t) PROVE SocketInv'
  BY <1>5 DEF Connect, Fail, pool
<1>6. ASSUME NEW t \in Threads, WriteHeader(t) \/ WriteImage(t) \/ WriteCmd(t) PROVE SocketInv'
  <2>1. /\ UNCHANGED port
        /\ pc[t] \in Using \ {"connect", "close"}
        /\ \E q \in Using \ {"connect"} : pc' = [pc EXCEPT ![t] = q]
    BY <1>6 DEF WriteHeader, WriteImage, WriteCmd, Write, Fail, net
  <2>2. \A p \in Ports : sock'[p] # "closed" => sock[p] # "closed"
    BY <1>6 DEF WriteHeader, WriteImage, WriteCmd, Write, Fail, net
  <2>3. QED BY <2>1, <2>2
<1>7. ASSUME NEW t \in Threads, Receive(t) PROVE SocketInv'
  <2>1. /\ UNCHANGED port
        /\ pc[t] \in Using \ {"connect", "close"}
        /\ \E q \in Using \ {"connect"} : pc' = [pc EXCEPT ![t] = q]
    BY <1>7 DEF Receive, Fail, net
  <2>2. \A p \in Ports : sock'[p] # "closed" => sock[p] # "closed"
    BY <1>7 DEF Receive, Fail, net
  <2>3. QED BY <2>1, <2>2
<1>8. ASSUME NEW t \in Threads, Close(t) PROVE SocketInv'
  BY <1>8 DEF Close, pool
<1>9. ASSUME NEW t \in Threads, Post(t) PROVE SocketInv'
  BY <1>9 DEF Post, net
<1>10. ASSUME NEW p \in Ports, Service(p) PROVE SocketInv'
  BY <1>10 DEF Service, pool
<1>11. CASE UNCHANGED vars
  BY <1>11 DEF vars, pool, net
<1>12. QED
  BY <1>1, <1>2, <1>3, <1>4, <1>5, <1>6, <1>7, <1>8, <1>9, <1>10, <1>11
     DEF Next, Step

(* Only the owner of a port writes its request.                            *)
LEMMA RequestStep == TypeOK /\ OwnerInv /\ RequestInv /\ [Next]_vars => RequestInv'
<1> SUFFICES ASSUME TypeOK, OwnerInv, RequestInv, [Next]_vars PROVE RequestInv'
  OBVIOUS
<1> USE DEF TypeOK, OwnerInv, PortExclusive, RequestInv, At, Goto, Busy, Using
<1>1. ASSUME NEW t \in Threads, Extract(t) PROVE RequestInv'
  BY <1>1 DEF Extract, pool, net
<1>2. ASSUME NEW t \in Threads, Fill(t) PROVE RequestInv'
  BY <1>2 DEF Fill, net
<1>3. ASSUME NEW t \in Threads, EnterFinder(t) PROVE RequestInv'
  BY <1>3 DEF EnterFinder, net
<1>4. ASSUME NEW t \in Threads, TryPort(t) PROVE RequestInv'
  BY <1>4 DEF TryPort, net
<1>5. ASSUME NEW t \in Threads, Connect(t) PROVE RequestInv'
  BY <1>5 DEF Connect, Fail, pool
<1>6. ASSUME NEW t \in Threads, WriteHeader(t) \/ WriteImage(t) \/ WriteCmd(t) PROVE RequestInv'
  BY <1>6 DEF WriteHeader, WriteImage, WriteCmd, Write, Fail, pool, net
<1>7. ASSUME NEW t \in Threads, Receive(t) PROVE RequestInv'
  BY <1>7 DEF Receive, Fail, pool, net
<1>8. ASSUME NEW t \in Threads, Close(t) PROVE RequestInv'
  BY <1>8 DEF Close, pool
<1>9. ASSUME NEW t \in Threads, Post(t) PROVE RequestInv'
  BY <1>9 DEF Post, net
<1>10. ASSUME NEW p \in Ports, Service(p) PROVE RequestInv'
  BY <1>10 DEF Service, pool
<1>11. CASE UNCHANGED vars
  BY <1>11 DEF vars, pool, net
<1>12. QED
  BY <1>1, <1>2, <1>3, <1>4, <1>5, <1>6, <1>7, <1>8, <1>9, <1>10, <1>11
     DEF Next, Step

(* The template received is that of the request at the other end.          *)
LEMMA AnswerStep == TypeOK /\ OwnerInv /\ RequestInv /\ OwnAnswer /\ [Next]_vars => OwnAnswer'
<1> SUFFICES ASSUME TypeOK, OwnerInv, RequestInv, OwnAnswer, [Next]_vars PROVE OwnAnswer'
  OBVIOUS
<1> USE DEF TypeOK, OwnerInv, RequestInv, OwnAnswer, At, Goto, Busy, Using
<1>1. ASSUME NEW t \in Threads, Extract(t) PROVE OwnAnswer'
  BY <1>1 DEF Extract, pool, net
<1>2. ASSUME NEW t \in Threads, Fill(t) PROVE OwnAnswer'
  BY <1>2 DEF Fill, net
<1>3. ASSUME NEW t \in Threads, EnterFinder(t) PROVE OwnAnswer'
  BY <1>3 DEF EnterFinder, net
<1>4. ASSUME NEW t \in Threads, TryPort(t) PROVE OwnAnswer'
  BY <1>4 DEF TryPort, net
<1>5. ASSUME NEW t \in Threads, Connect(t) PROVE OwnAnswer'
  BY <1>5 DEF Connect, Fail, pool
<1>6. ASSUME NEW t \in Threads, WriteHeader(t) \/ WriteImage(t) \/ WriteCmd(t) PROVE OwnAnswer'
  BY <1>6 DEF WriteHeader, WriteImage, WriteCmd, Write, Fail, pool, net
<1>7. ASSUME NEW t \in Threads, Receive(t) PROVE OwnAnswer'
  BY <1>7 DEF Receive, Fail, pool, net
<1>8. ASSUME NEW t \in Threads, Close(t) PROVE OwnAnswer'
  BY <1>8 DEF Close, pool
<1>9. ASSUME NEW t \in Threads, Post(t) PROVE OwnAnswer'
  BY <1>9 DEF Post, net
<1>10. ASSUME NEW p \in Ports, Service(p) PROVE OwnAnswer'
  BY <1>10 DEF Service, pool
<1>11. CASE UNCHANGED vars
  BY <1>11 DEF vars, pool, net
<1>12. QED
  BY <1>1, <1>2, <1>3, <1>4, <1>5, <1>6, <1>7, <1>8, <1>9, <1>10, <1>11
     DEF Next, Step

(* The result is set by the step that leaves for the close, and only once. *)
LEMMA ResultStep == TypeOK /\ ResultInv /\ [Next]_vars => ResultInv'
<1> SUFFICES ASSUME TypeOK, ResultInv, [Next]_vars PROVE ResultInv'
  OBVIOUS
<1> USE DEF TypeOK, ResultInv, At, Goto, Busy, Using
<1>1. ASSUME NEW t \in Threads, Extract(t) PROVE ResultInv'
  BY <1>1 DEF Extract
<1>2. ASSUME NEW t \in Threads, Fill(t) \/ EnterFinder(t) \/ TryPort(t) PROVE ResultInv'
  BY <1>2 DEF Fill, EnterFinder, TryPort
<1>3. ASSUME NEW t \in Threads, Connect(t) PROVE ResultInv'
  BY <1>3 DEF Connect, Fail
<1>4. ASSUME NEW t \in Threads, WriteHeader(t) \/ WriteImage(t) \/ WriteCmd(t) PROVE ResultInv'
  BY <1>4 DEF WriteHeader, WriteImage, WriteCmd, Write, Fail
<1>5. ASSUME NEW t \in Threads, Receive(t) PROVE ResultInv'
  BY <1>5 DEF Receive, Fail
<1>6. ASSUME NEW t \in Threads, Close(t) \/ Post(t) PROVE ResultInv'
  BY <1>6 DEF Close, Post
<1>7. ASSUME NEW p \in Ports, Service(p) PROVE ResultInv'
  BY <1>7 DEF Service
<1>8. CASE UNCHANGED vars
  BY <1>8 DEF vars
<1>9. QED BY <1>1, <1>2, <1>3, <1>4, <1>5, <1>6, <1>7, <1>8 DEF Next, Step

(* The conjuncts above, together, are inductive. *)
LEMMA Invariance == Spec => []IInv
<1>1. IInv /\ [Next]_vars => IInv'
  BY TypeStep, OwnerStep, SocketStep, RequestStep, AnswerStep, ResultStep DEF IInv
<1>2. QED BY InitInv, <1>1, PTL DEF Spec

(* Every variable keeps its type: in particular the index of the port that *)
(* is tried is always one of mx_ports (ebsclient.cpp:34-36).               *)
THEOREM TypeCorrect == Spec => []TypeOK
<1>1. IInv => TypeOK
  BY DEF IInv
<1>2. QED BY Invariance, <1>1, PTL

(* Any number of threads and ports: no two requests share a socket.        *)
THEOREM PortsExclusive == Spec => []PortExclusive
<1>1. IInv => PortExclusive
  BY DEF IInv, OwnerInv
<1>2. QED BY Invariance, <1>1, PTL

(* A request that succeeds has received the template of its own image.     *)
THEOREM AnswersOwn == Spec => []OwnAnswer
<1>1. IInv => OwnAnswer
  BY DEF IInv
<1>2. QED BY Invariance, <1>1, PTL

(* A port that can be taken has a closed socket: an open socket has an     *)
(* owner (SocketInv), and the semaphore of an owned port is 0 (OwnerInv).  *)
THEOREM FreePortsClosed == Spec => []FreePortClosed
<1>1. IInv => FreePortClosed
  BY DEF IInv, OwnerInv, SocketInv, FreePortClosed, Owns
<1>2. QED BY Invariance, <1>1, PTL

-----------------------------------------------------------------------------
(* EbsClient implements Extraction                                         *)

LEMMA FreeFinite ==
  /\ IsFiniteSet(Ports) /\ Cardinality(Ports) = extract_port_count
  /\ IsFiniteSet(FreePorts) /\ Cardinality(FreePorts) \in Nat
<1>1. IsFiniteSet(Ports) /\ Cardinality(Ports) = extract_port_count
  BY FS_Interval
<1>2. IsFiniteSet(FreePorts)
  BY <1>1, FS_Subset DEF FreePorts
<1>3. QED BY <1>1, <1>2, FS_CardinalityType

(* The thread alone changes its call and its answer.                       *)
LEMMA OthersStand ==
  ASSUME TypeOK, NEW t \in Threads,
         \A u \in Threads : u # t =>
           pc'[u] = pc[u] /\ result'[u] = result[u] /\ template'[u] = template[u] /\ bit'[u] = bit[u]
  PROVE  \A u \in Threads : u # t => Call(u)' = Call(u) /\ Answer(u)' = Answer(u)
BY DEF Call, Answer

LEMMA InitMaps == Init => Calls!Init
<1> SUFFICES ASSUME Init PROVE Calls!Init
  OBVIOUS
<1>1. FreePorts = Ports
  BY DEF Init, FreePorts
<1>2. \A t \in Threads : Call(t) = "idle" /\ Answer(t) = "none"
  BY DEF Init, Call, Answer
<1>3. QED BY <1>1, <1>2, FreeFinite DEF Calls!Init

(* A step that leaves the ports alone and no thread but one.               *)
LEMMA CallMoves ==
  ASSUME NEW t \in Threads, NEW c, Call(t)' = c,
         \A u \in Threads : u # t => Call(u)' = Call(u)
  PROVE  [u \in Threads |-> Call(u)]' = [[u \in Threads |-> Call(u)] EXCEPT ![t] = c]
OBVIOUS

LEMMA AnswerMoves ==
  ASSUME NEW t \in Threads, NEW a, Answer(t)' = a,
         \A u \in Threads : u # t => Answer(u)' = Answer(u)
  PROVE  [u \in Threads |-> Answer(u)]' = [[u \in Threads |-> Answer(u)] EXCEPT ![t] = a]
OBVIOUS

LEMMA Stutters ==
  ASSUME FreePorts' = FreePorts,
         \A u \in Threads : Call(u)' = Call(u) /\ Answer(u)' = Answer(u)
  PROVE  UNCHANGED Calls!vars
BY DEF Calls!vars

(* The step of a thread moves its call on, or its port, or its answer.     *)
LEMMA ThreadMaps ==
  ASSUME IInv, NEW t \in Threads, Extract(t) \/ Step(t)
  PROVE  [Calls!Next]_Calls!vars
<1> USE DEF IInv, TypeOK, At, Goto
<1>1. CASE Extract(t)
  <2>1. \A u \in Threads : u # t => Call(u)' = Call(u) /\ Answer(u)' = Answer(u)
    BY <1>1, OthersStand DEF Extract
  <2>2. /\ Call(t) = "idle" /\ Call(t)' = "waiting" /\ Answer(t)' = "none"
        /\ FreePorts' = FreePorts
    BY <1>1 DEF Extract, Call, Answer, FreePorts, pool, Busy, Using
  <2>3. Calls!Ask(t)
    BY <2>1, <2>2, CallMoves, AnswerMoves DEF Calls!Ask
  <2>4. QED BY <2>3 DEF Calls!Next
<1>2. CASE Fill(t) \/ EnterFinder(t)
  <2>1. \A u \in Threads : Call(u)' = Call(u) /\ Answer(u)' = Answer(u)
    BY <1>2 DEF Fill, EnterFinder, Call, Answer, net, Busy, Using
  <2>2. FreePorts' = FreePorts
    BY <1>2 DEF Fill, EnterFinder, FreePorts
  <2>3. QED BY <2>1, <2>2, Stutters
<1>3. CASE TryPort(t)
  <2>1. CASE mx_ports[current_port_] = 1
    <3> DEFINE p == current_port_
    <3>1. \A u \in Threads : u # t => Call(u)' = Call(u) /\ Answer(u)' = Answer(u)
      BY <1>3, <2>1, OthersStand DEF TryPort, net
    <3>2. Call(t) = "waiting" /\ Call(t)' = "served" /\ Answer(t)' = Answer(t)
      BY <1>3, <2>1 DEF TryPort, Call, Answer, Busy, Using
    <3>3. ready /\ ready' /\ p \in FreePorts /\ FreePorts' = FreePorts \ {p}
      BY <1>3, <2>1 DEF TryPort, OwnerInv, FreePorts
    <3>4. Cardinality(FreePorts)' = Cardinality(FreePorts) - 1 /\ Cardinality(FreePorts) > 0
      <4>1. Cardinality(FreePorts \ {p}) = Cardinality(FreePorts) - 1
        BY <3>3, FreeFinite, FS_RemoveElement
      <4>2. Cardinality(FreePorts) # 0
        BY <3>3, FreeFinite, FS_EmptySet
      <4>3. QED BY <3>3, <4>1, <4>2, FreeFinite
    <3>5. Calls!Acquire(t)
      BY <3>1, <3>2, <3>4, CallMoves DEF Calls!Acquire
    <3>6. QED BY <3>5 DEF Calls!Next
  <2>2. CASE mx_ports[current_port_] # 1
    <3>1. \A u \in Threads : Call(u)' = Call(u) /\ Answer(u)' = Answer(u)
      BY <1>3, <2>2 DEF TryPort, Call, Answer, net
    <3>2. FreePorts' = FreePorts
      BY <1>3, <2>2 DEF TryPort, FreePorts
    <3>3. QED BY <3>1, <3>2, Stutters
  <2>3. QED BY <2>1, <2>2
<1>4. CASE Connect(t) \/ WriteHeader(t) \/ WriteImage(t) \/ WriteCmd(t) \/ Receive(t)
  <2>1. \A u \in Threads : u # t => Call(u)' = Call(u) /\ Answer(u)' = Answer(u)
    BY <1>4, OthersStand
       DEF Connect, WriteHeader, WriteImage, WriteCmd, Write, Receive, Fail, net
  <2>2. Call(t) = "served" /\ Call(t)' = "served" /\ FreePorts' = FreePorts
    BY <1>4 DEF Connect, WriteHeader, WriteImage, WriteCmd, Write, Receive, Fail, net, pool,
                Call, FreePorts, Busy, Using
  <2>3. Answer(t) = "none" /\ Answer(t)' \in {"none", "own", "failed"}
    BY <1>4 DEF Connect, WriteHeader, WriteImage, WriteCmd, Write, Receive, Fail, net, pool,
                Answer, ResultInv, RequestInv
  <2>4. CASE Answer(t)' = "none"
    BY <2>1, <2>2, <2>3, <2>4, Stutters
  <2>5. CASE Answer(t)' \in {"own", "failed"}
    <3>1. UNCHANGED <<Cardinality(FreePorts), [u \in Threads |-> Call(u)]>>
      BY <2>1, <2>2
    <3>2. Calls!Answer(t)
      BY <2>1, <2>2, <2>3, <2>5, <3>1, AnswerMoves DEF Calls!Answer
    <3>3. QED BY <3>2 DEF Calls!Next
  <2>6. QED BY <2>3, <2>4, <2>5
<1>5. CASE Close(t)
  <2>1. \A u \in Threads : Call(u)' = Call(u) /\ Answer(u)' = Answer(u)
    BY <1>5 DEF Close, Call, Answer, Busy, Using
  <2>2. FreePorts' = FreePorts
    BY <1>5 DEF Close, FreePorts, pool
  <2>3. QED BY <2>1, <2>2, Stutters
<1>6. CASE Post(t)
  <2> DEFINE p == port[t]
  <2>1. \A u \in Threads : u # t => Call(u)' = Call(u) /\ Answer(u)' = Answer(u)
    BY <1>6, OthersStand DEF Post, net
  <2>2. /\ Call(t) = "served" /\ Call(t)' = "idle"
        /\ Answer(t) # "none" /\ Answer(t)' = Answer(t)
    BY <1>6 DEF Post, Call, Answer, ResultInv, Busy
  <2>3. p \notin FreePorts /\ FreePorts' = FreePorts \cup {p}
    <3>1. p \in Ports /\ mx_ports[p] = 0 /\ ready
      BY <1>6 DEF Post, OwnerInv, Busy, Using
    <3>2. ready' = ready /\ mx_ports' = [mx_ports EXCEPT ![p] = 1]
      BY <1>6 DEF Post
    <3>3. \A q \in Ports : mx_ports'[q] = 1 <=> (mx_ports[q] = 1 \/ q = p)
      BY <3>1, <3>2
    <3>4. QED BY <3>1, <3>2, <3>3 DEF FreePorts
  <2>4. Cardinality(FreePorts)' = Cardinality(FreePorts) + 1
    BY <2>3, FreeFinite, FS_AddElement
  <2>5. Calls!Release(t)
    BY <2>1, <2>2, <2>4, CallMoves DEF Calls!Release
  <2>6. QED BY <2>5 DEF Calls!Next
<1>7. QED BY <1>1, <1>2, <1>3, <1>4, <1>5, <1>6 DEF Step

LEMMA StepMaps == IInv /\ [Next]_vars => [Calls!Next]_Calls!vars
<1> SUFFICES ASSUME IInv, [Next]_vars PROVE [Calls!Next]_Calls!vars
  OBVIOUS
<1>1. CASE (\E p \in Ports : Service(p)) \/ UNCHANGED vars
  <2>1. \A u \in Threads : Call(u)' = Call(u) /\ Answer(u)' = Answer(u)
    BY <1>1 DEF Service, Call, Answer, vars
  <2>2. FreePorts' = FreePorts
    BY <1>1 DEF Service, FreePorts, pool, vars
  <2>3. QED BY <2>1, <2>2, Stutters
<1>2. QED BY <1>1, ThreadMaps DEF Next

(* Any number of threads and ports: the pool implements one counting       *)
(* semaphore.  At most extract_port_count calls are served at a time, a    *)
(* unit goes back once and after the answer, and the answer is the call's  *)
(* own (find_free_port and ebs_request).                                   *)
THEOREM PoolIsOneSemaphore == Spec => ActsAsOneSemaphore
BY InitMaps, StepMaps, Invariance, PTL DEF Spec, ActsAsOneSemaphore, Calls!Spec
=============================================================================
