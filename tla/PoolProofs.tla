------------------------------ MODULE PoolProofs ------------------------------
(***************************************************************************)
(* Safety of the thread pool and of the requests' lives on it, for any     *)
(* requests, numbers of element tasks and threads.                         *)
(***************************************************************************)
EXTENDS RequestPool, FiniteSetTheorems, SequenceTheorems, TLAPS

(* A job is in one place at a time.                                        *)
Places ==
  /\ queue \in Seq(Jobs) /\ running \subseteq Jobs /\ ended \subseteq Jobs
  /\ \A k, m \in 1..Len(queue) : queue[k] = queue[m] => k = m
  /\ running \cap ended = {} /\ Queued \cap (running \cup ended) = {}

(* What must have happened before a job of a request is posted or ends.    *)
Chain(r) ==
  /\ Job("handler", r) \in ended => Job("action", r) \in ended
  /\ Job("action", r) \in Posted => Job("handler", r) \in running \cup ended
  /\ r \in Forks =>
       /\ Job("action", r) \in ended => Job("join", r) \in ended
       /\ Job("create", r) \in Posted => Job("action", r) \in running \cup ended
       /\ Job("join", r) \in Posted => Job("create", r) \in ended
       /\ Job("join", r) \in ended => Waited(r)
       /\ \A i \in Elements(r) : Element(r, i) \in Posted <=> Job("create", r) \in ended

(* The join is behind the elements in the queue.                           *)
InFront(r, i) ==
  /\ \A k, m \in 1..Len(queue) :
       queue[k] = Job("join", r) /\ queue[m] = Element(r, i) => m < k
  /\ Job("join", r) \in running \cup ended => Element(r, i) \notin Queued

Behind(r) == r \in Forks => \A i \in Elements(r) : InFront(r, i)

PoolInv == Places /\ \A r \in Requests : Chain(r) /\ Behind(r)

USE PoolOK

-----------------------------------------------------------------------------
LEMMA JobsDiffer ==
  /\ \A p, q \in {"handler", "action", "create", "join"} : \A r, s :
       Job(p, r) = Job(q, s) <=> p = q /\ r = s
  /\ \A p \in {"handler", "action", "create", "join"} : \A r, s, i : Job(p, r) # Element(s, i)
  /\ \A r, s, i, j : Element(r, i) = Element(s, j) <=> r = s /\ i = j
BY DEF Job, Element

LEMMA JobsOf ==
  /\ \A r \in Requests : Job("handler", r) \in Jobs /\ Job("action", r) \in Jobs
  /\ \A r \in Forks : Job("create", r) \in Jobs /\ Job("join", r) \in Jobs
  /\ \A r \in Forks : \A i \in Elements(r) : Element(r, i) \in Jobs
  /\ \A r : Job("create", r) \in Jobs => r \in Forks
  /\ Forks \subseteq Requests
<1>1. \A r \in Requests : Job("handler", r) \in Jobs /\ Job("action", r) \in Jobs
  BY DEF Jobs
<1>2. \A r \in Forks : Job("create", r) \in Jobs /\ Job("join", r) \in Jobs
  BY DEF Jobs
<1>3. \A r \in Forks : \A i \in Elements(r) : Element(r, i) \in Jobs
  BY DEF Jobs
<1>4. ASSUME NEW r, Job("create", r) \in Jobs PROVE r \in Forks
  <2>1. Job("create", r) \notin {Job(part, s) : part \in {"handler", "action"}, s \in Requests}
    BY JobsDiffer
  <2>2. Job("create", r) \notin UNION {{Element(s, i) : i \in Elements(s)} : s \in Forks}
    BY JobsDiffer
  <2>3. PICK part \in {"create", "join"}, s \in Forks : Job("create", r) = Job(part, s)
    BY <1>4, <2>1, <2>2 DEF Jobs
  <2>4. QED BY <2>3, JobsDiffer
<1>5. Forks \subseteq Requests
  BY DEF Forks
<1>6. QED BY <1>1, <1>2, <1>3, <1>4, <1>5

(* A job with its request.                                                 *)
LEMMA JobKinds ==
  ASSUME NEW job \in Jobs
  PROVE  \/ \E r \in Requests : job = Job("handler", r) \/ job = Job("action", r)
         \/ \E r \in Forks : job = Job("create", r) \/ job = Job("join", r)
         \/ \E r \in Forks : \E i \in Elements(r) : job = Element(r, i)
BY DEF Jobs

LEMMA WaitedStays ==
  ASSUME NEW r, ended \subseteq ended', threw \subseteq threw', Waited(r)
  PROVE  Waited(r)'
BY DEF Waited

-----------------------------------------------------------------------------
(* Jobs are posted at the end of the queue ...                             *)
LEMMA PostPlaces ==
  ASSUME Places, NEW new \in Seq(Jobs), Post(new),
         running' \cup ended' = running \cup ended, running' \cap ended' = {},
         \A k, m \in 1..Len(new) : new[k] = new[m] => k = m,
         \A k \in 1..Len(new) : new[k] \notin Posted
  PROVE  /\ Places'
         /\ Queued' = Queued \cup {new[k] : k \in 1..Len(new)}
         /\ Len(queue') = Len(queue) + Len(new)
         /\ \A k \in 1..Len(queue') :
              queue'[k] = IF k <= Len(queue) THEN queue[k] ELSE new[k - Len(queue)]
<1>1. queue' = queue \o new /\ queue \in Seq(Jobs)
  BY DEF Post, Places
<1>2. queue' \in Seq(Jobs) /\ Len(queue') = Len(queue) + Len(new)
  BY <1>1
<1>3. \A k \in 1..Len(queue') :
        queue'[k] = IF k <= Len(queue) THEN queue[k] ELSE new[k - Len(queue)]
  BY <1>1
<1>4. /\ Queued = {queue[k] : k \in 1..Len(queue)}
      /\ Queued' = {queue'[k] : k \in 1..Len(queue')}
  <2>1. DOMAIN queue = 1..Len(queue) /\ DOMAIN queue' = 1..Len(queue')
    BY <1>1, <1>2
  <2>2. Queued = {queue[k] : k \in DOMAIN queue} /\ Queued' = {queue'[k] : k \in DOMAIN queue'}
    BY DEF Queued, ToSet
  <2>3. QED BY <2>1, <2>2
<1>5. Queued' = Queued \cup {new[k] : k \in 1..Len(new)}
  <2>1. ASSUME NEW x \in Queued' PROVE x \in Queued \cup {new[k] : k \in 1..Len(new)}
    <3>1. PICK k \in 1..Len(queue') : x = queue'[k]
      BY <1>4
    <3>2. CASE k <= Len(queue)
      BY <1>1, <1>2, <1>3, <1>4, <3>1, <3>2
    <3>3. CASE k > Len(queue)
      <4>1. k - Len(queue) \in 1..Len(new) /\ x = new[k - Len(queue)]
        BY <1>1, <1>2, <1>3, <3>1, <3>3
      <4>2. QED BY <4>1
    <3>4. Len(queue) \in Nat /\ k \in Nat
      BY <1>1, <1>2
    <3>5. QED BY <3>2, <3>3, <3>4
  <2>2. ASSUME NEW x \in Queued PROVE x \in Queued'
    <3>1. PICK k \in 1..Len(queue) : x = queue[k]
      BY <1>4
    <3>2. k \in 1..Len(queue') /\ x = queue'[k]
      BY <1>1, <1>2, <1>3, <3>1
    <3>3. QED BY <1>4, <3>2
  <2>3. ASSUME NEW k \in 1..Len(new) PROVE new[k] \in Queued'
    <3>1. k + Len(queue) \in 1..Len(queue') /\ queue'[k + Len(queue)] = new[k]
      BY <1>1, <1>2, <1>3
    <3>2. QED BY <1>4, <3>1
  <2>4. QED BY <2>1, <2>2, <2>3
<1>6. ASSUME NEW k \in 1..Len(queue'), NEW m \in 1..Len(queue'), queue'[k] = queue'[m]
      PROVE  k = m
  <2>1. ASSUME NEW a \in 1..Len(queue'), NEW b \in 1..Len(queue'), a <= Len(queue), b > Len(queue)
        PROVE  queue'[a] # queue'[b]
    <3>1. queue'[a] \in Queued
      BY <1>1, <1>3, <1>4, <2>1
    <3>2. b - Len(queue) \in 1..Len(new) /\ queue'[b] = new[b - Len(queue)]
      BY <1>1, <1>2, <1>3, <2>1
    <3>3. QED BY <3>1, <3>2 DEF Posted
  <2>2. CASE k <= Len(queue) /\ m <= Len(queue)
    BY <1>1, <1>3, <1>6, <2>2 DEF Places
  <2>3. CASE k > Len(queue) /\ m > Len(queue)
    <3>1. k - Len(queue) \in 1..Len(new) /\ m - Len(queue) \in 1..Len(new)
      BY <1>1, <1>2, <2>3
    <3>2. new[k - Len(queue)] = new[m - Len(queue)]
      BY <1>1, <1>3, <1>6, <2>3
    <3>3. k - Len(queue) = m - Len(queue)
      BY <3>1, <3>2
    <3>4. QED BY <1>1, <3>3
  <2>4. QED BY <1>1, <1>2, <1>6, <2>1, <2>2, <2>3
<1>7. QED BY <1>2, <1>3, <1>5, <1>6 DEF Places, Posted

(* ... and taken at its head.                                              *)
LEMMA TakePlaces ==
  ASSUME Places, Take
  PROVE  /\ Places'
         /\ Queued = Queued' \cup {Head(queue)} /\ Head(queue) \notin Queued'
         /\ running' = running \cup {Head(queue)} /\ ended' = ended
         /\ Head(queue) = queue[1] /\ Len(queue') = Len(queue) - 1
         /\ \A k \in 1..Len(queue') : queue'[k] = queue[k + 1]
<1>1. queue \in Seq(Jobs) /\ queue # <<>> /\ queue' = Tail(queue)
  BY DEF Take, Places
<1>2. /\ queue' \in Seq(Jobs) /\ Len(queue) \in Nat \ {0} /\ Len(queue') = Len(queue) - 1
      /\ Head(queue) = queue[1] /\ queue[1] \in Jobs
      /\ \A k \in 1..Len(queue') : queue'[k] = queue[k + 1]
  BY <1>1
<1>3. /\ Queued = {queue[k] : k \in 1..Len(queue)}
      /\ Queued' = {queue'[k] : k \in 1..Len(queue')}
  <2>1. DOMAIN queue = 1..Len(queue) /\ DOMAIN queue' = 1..Len(queue')
    BY <1>1, <1>2
  <2>2. Queued = {queue[k] : k \in DOMAIN queue} /\ Queued' = {queue'[k] : k \in DOMAIN queue'}
    BY DEF Queued, ToSet
  <2>3. QED BY <2>1, <2>2
<1>4. running' = running \cup {Head(queue)} /\ ended' = ended
  BY DEF Take
<1>5. Head(queue) \notin Queued'
  <2>1. ASSUME NEW k \in 1..Len(queue') PROVE queue'[k] # queue[1]
    <3>1. k + 1 \in 1..Len(queue) /\ 1 \in 1..Len(queue) /\ k + 1 # 1
      BY <1>2
    <3>2. QED BY <1>2, <3>1 DEF Places
  <2>2. QED BY <1>2, <1>3, <2>1
<1>6. Queued = Queued' \cup {Head(queue)}
  <2>1. ASSUME NEW k \in 1..Len(queue) PROVE queue[k] \in Queued' \cup {queue[1]}
    <3>1. CASE k = 1
      BY <3>1
    <3>2. CASE k # 1
      <4>1. k - 1 \in 1..Len(queue') /\ queue'[k - 1] = queue[k]
        BY <1>2, <3>2
      <4>2. QED BY <1>3, <4>1
    <3>3. QED BY <3>1, <3>2
  <2>2. ASSUME NEW k \in 1..Len(queue') PROVE queue'[k] \in Queued
    <3>1. k + 1 \in 1..Len(queue) /\ queue'[k] = queue[k + 1]
      BY <1>2
    <3>2. QED BY <1>3, <3>1
  <2>3. queue[1] \in Queued
    BY <1>2, <1>3
  <2>4. \A x \in Queued : x \in Queued' \cup {queue[1]}
    BY <1>3, <2>1
  <2>5. \A x \in Queued' : x \in Queued
    BY <1>3, <2>2
  <2>6. QED BY <1>2, <2>3, <2>4, <2>5
<1>7. ASSUME NEW k \in 1..Len(queue'), NEW m \in 1..Len(queue'), queue'[k] = queue'[m]
      PROVE  k = m
  <2>1. k + 1 \in 1..Len(queue) /\ m + 1 \in 1..Len(queue) /\ queue[k + 1] = queue[m + 1]
    BY <1>2, <1>7
  <2>2. k + 1 = m + 1
    BY <2>1 DEF Places
  <2>3. QED BY <2>2
<1>8. Places'
  BY <1>2, <1>4, <1>5, <1>6, <1>7 DEF Places
<1>9. QED BY <1>2, <1>4, <1>5, <1>6, <1>8

LEMMA EndPlaces ==
  ASSUME Places, NEW job \in running, Ends(job), UNCHANGED queue
  PROVE  Places' /\ Queued' = Queued
<1>1. Queued' = Queued
  BY DEF Queued
<1>2. QED BY <1>1 DEF Places, Ends

(* A new job that is no element leaves the elements in front of the join,  *)
(* and the taken job is in front of all others.                            *)
LEMMA TakeBehind ==
  ASSUME Places, Take, NEW r \in Requests, Behind(r)
  PROVE  Behind(r)'
<1> SUFFICES ASSUME r \in Forks, NEW i \in Elements(r) PROVE InFront(r, i)'
  BY DEF Behind
<1>1. InFront(r, i)
  BY DEF Behind
<1>2. queue \in Seq(Jobs) /\ queue' \in Seq(Jobs) /\ queue # <<>>
  BY TakePlaces DEF Places, Take
<1>3. Len(queue) \in Nat /\ Len(queue') = Len(queue) - 1 /\ \A k \in 1..Len(queue') : queue'[k] = queue[k + 1]
  BY <1>2, TakePlaces
<1>4. ASSUME NEW k \in 1..Len(queue'), NEW m \in 1..Len(queue'),
             queue'[k] = Job("join", r), queue'[m] = Element(r, i)
      PROVE  m < k
  <2>1. k + 1 \in 1..Len(queue) /\ m + 1 \in 1..Len(queue)
    BY <1>3
  <2>2. m + 1 < k + 1
    BY <1>1, <1>3, <1>4, <2>1 DEF InFront
  <2>3. QED BY <2>2
<1>5. ASSUME Job("join", r) \in running' \cup ended' PROVE Element(r, i) \notin Queued'
  <2>1. CASE Job("join", r) \in running \cup ended
    BY <1>1, <2>1, TakePlaces DEF InFront
  <2>2. CASE Job("join", r) = queue[1]
    <3>1. SUFFICES ASSUME NEW m \in 1..Len(queue'), queue'[m] = Element(r, i) PROVE FALSE
      <4>1. DOMAIN queue' = 1..Len(queue')
        BY <1>2
      <4>2. QED BY <4>1 DEF Queued, ToSet
    <3>2. m + 1 \in 1..Len(queue) /\ 1 \in 1..Len(queue) /\ queue[m + 1] = Element(r, i)
      BY <1>2, <1>3, <3>1
    <3>3. m + 1 < 1
      BY <1>1, <2>2, <3>2 DEF InFront
    <3>4. QED BY <3>3
  <2>3. QED BY <1>5, <2>1, <2>2, TakePlaces
<1>6. QED BY <1>4, <1>5 DEF InFront

LEMMA PostBehind ==
  ASSUME Places, NEW new \in Seq(Jobs), Post(new),
         running' \cup ended' = running \cup ended, running' \cap ended' = {},
         \A k, m \in 1..Len(new) : new[k] = new[m] => k = m,
         \A k \in 1..Len(new) : new[k] \notin Posted,
         NEW r \in Requests, Behind(r),
         \/ \A i \in Elements(r), k \in 1..Len(new) : new[k] # Element(r, i)
         \/ Job("join", r) \notin Posted /\ \A k \in 1..Len(new) : new[k] # Job("join", r)
  PROVE  Behind(r)'
<1> SUFFICES ASSUME r \in Forks, NEW i \in Elements(r) PROVE InFront(r, i)'
  BY DEF Behind
<1>1. InFront(r, i)
  BY DEF Behind
<1>2. queue \in Seq(Jobs) /\ queue' \in Seq(Jobs)
  BY PostPlaces DEF Places
<1>3. /\ Len(queue') = Len(queue) + Len(new)
      /\ \A k \in 1..Len(queue') :
           queue'[k] = IF k <= Len(queue) THEN queue[k] ELSE new[k - Len(queue)]
      /\ Queued' = Queued \cup {new[k] : k \in 1..Len(new)}
  BY PostPlaces
<1>4. CASE \A j \in Elements(r), k \in 1..Len(new) : new[k] # Element(r, j)
  <2>1. ASSUME NEW k \in 1..Len(queue'), NEW m \in 1..Len(queue'),
               queue'[k] = Job("join", r), queue'[m] = Element(r, i)
        PROVE  m < k
    <3>1. m <= Len(queue)
      <4>1. SUFFICES ASSUME m > Len(queue) PROVE FALSE
        BY <1>2
      <4>2. m - Len(queue) \in 1..Len(new) /\ new[m - Len(queue)] = Element(r, i)
        BY <1>2, <1>3, <2>1, <4>1
      <4>3. QED BY <1>4, <4>2
    <3>2. CASE k <= Len(queue)
      <4>1. k \in 1..Len(queue) /\ m \in 1..Len(queue) /\ queue[k] = Job("join", r) /\ queue[m] = Element(r, i)
        BY <1>2, <1>3, <2>1, <3>1, <3>2
      <4>2. QED BY <1>1, <4>1 DEF InFront
    <3>3. CASE k > Len(queue)
      BY <1>2, <3>1, <3>3
    <3>4. QED BY <1>2, <3>2, <3>3
  <2>2. Job("join", r) \in running' \cup ended' => Element(r, i) \notin Queued'
    BY <1>1, <1>3, <1>4 DEF InFront
  <2>3. QED BY <2>1, <2>2 DEF InFront
<1>5. CASE Job("join", r) \notin Posted /\ \A k \in 1..Len(new) : new[k] # Job("join", r)
  <2>1. Job("join", r) \notin Queued' /\ Job("join", r) \notin running' \cup ended'
    BY <1>3, <1>5 DEF Posted
  <2>2. \A k \in 1..Len(queue') : queue'[k] \in Queued'
    <3>1. DOMAIN queue' = 1..Len(queue')
      BY <1>2
    <3>2. QED BY <3>1 DEF Queued, ToSet
  <2>3. QED BY <2>1, <2>2 DEF InFront
<1>6. QED BY <1>4, <1>5

LEMMA EndBehind ==
  ASSUME NEW job \in running, Ends(job), UNCHANGED queue, NEW r \in Requests, Behind(r)
  PROVE  Behind(r)'
BY DEF Behind, InFront, Ends, Queued

-----------------------------------------------------------------------------
(* The order of the jobs of a request: when some are posted, when one is   *)
(* taken, when one ends.                                                   *)
LEMMA ChainPost ==
  ASSUME NEW N, Posted' = Posted \cup N, UNCHANGED <<running, ended, threw>>,
         NEW r \in Requests, Chain(r),
         Job("action", r) \in N => Job("handler", r) \in running,
         Job("create", r) \in N => Job("action", r) \in running,
         Job("join", r) \in N => Job("create", r) \in ended,
         \A i \in Elements(r) : Element(r, i) \notin N
  PROVE  Chain(r)'
BY DEF Chain, Waited

LEMMA ChainTake ==
  ASSUME Places, Take, NEW r \in Requests, Chain(r)
  PROVE  Chain(r)'
<1>1. Posted' = Posted
  BY TakePlaces DEF Posted
<1>2. running \subseteq running' /\ ended' = ended /\ threw' = threw
  BY DEF Take
<1>3. QED BY <1>1, <1>2 DEF Chain, Waited

LEMMA ChainEnd ==
  ASSUME NEW job \in running, Ends(job), UNCHANGED queue, threw \subseteq threw',
         NEW r \in Requests, Chain(r), job # Job("create", r),
         job = Job("handler", r) => Job("action", r) \in ended,
         job = Job("action", r) /\ r \in Forks => Job("join", r) \in ended,
         job = Job("join", r) => Waited(r)
  PROVE  Chain(r)'
<1>1. Posted' = Posted /\ running' \cup ended' = running \cup ended
  BY DEF Posted, Queued, Ends
<1>2. ended' = ended \cup {job}
  BY DEF Ends
<1>3. Waited(r) => Waited(r)'
  BY <1>2, WaitedStays
<1>4. QED BY <1>1, <1>2, <1>3 DEF Chain

-----------------------------------------------------------------------------
(* A step that posts one job.                                              *)
LEMMA PostOne ==
  ASSUME PoolInv, NEW job \in Jobs, Post(<<job>>), job \notin Posted,
         UNCHANGED <<running, ended, threw>>,
         \A r \in Requests :
           /\ Job("action", r) = job => Job("handler", r) \in running
           /\ Job("create", r) = job => Job("action", r) \in running
           /\ Job("join", r) = job => Job("create", r) \in ended
           /\ \A i \in Elements(r) : Element(r, i) # job
  PROVE  PoolInv'
<1> DEFINE new == <<job>>
<1>1. new \in Seq(Jobs) /\ Len(new) = 1 /\ new[1] = job /\ Places
  BY DEF PoolInv
<1>2. /\ \A k, m \in 1..Len(new) : new[k] = new[m] => k = m
      /\ \A k \in 1..Len(new) : new[k] \notin Posted
      /\ running' \cup ended' = running \cup ended /\ running' \cap ended' = {}
  BY <1>1 DEF Places
<1> HIDE DEF new
<1>3. Post(new)
  BY DEF new
<1>4. Places' /\ Queued' = Queued \cup {new[k] : k \in 1..Len(new)}
  BY <1>1, <1>2, <1>3, PostPlaces
<1>5. Queued' = Queued \cup {job}
  BY <1>1, <1>4
<1>6. Posted' = Posted \cup {job}
  BY <1>5 DEF Posted
<1>7. ASSUME NEW r \in Requests PROVE Chain(r)' /\ Behind(r)'
  <2>1. Chain(r)'
    <3>1. Chain(r)
      BY DEF PoolInv
    <3>2. /\ Job("action", r) \in {job} => Job("handler", r) \in running
          /\ Job("create", r) \in {job} => Job("action", r) \in running
          /\ Job("join", r) \in {job} => Job("create", r) \in ended
          /\ \A i \in Elements(r) : Element(r, i) \notin {job}
      OBVIOUS
    <3>3. QED BY <1>6, <3>1, <3>2, ChainPost
  <2>2. Behind(r) /\ \A i \in Elements(r), k \in 1..Len(new) : new[k] # Element(r, i)
    BY <1>1 DEF PoolInv
  <2>3. Behind(r)'
    BY <1>1, <1>2, <1>3, <2>2, PostBehind
  <2>4. QED BY <2>1, <2>3
<1>8. QED BY <1>4, <1>7 DEF PoolInv

(* A step that ends one job.                                               *)
LEMMA EndOne ==
  ASSUME PoolInv, NEW job \in running, Ends(job), UNCHANGED queue, threw \subseteq threw',
         \A r \in Requests :
           /\ job # Job("create", r)
           /\ job = Job("handler", r) => Job("action", r) \in ended
           /\ job = Job("action", r) /\ r \in Forks => Job("join", r) \in ended
           /\ job = Job("join", r) => Waited(r)
  PROVE  PoolInv'
<1>1. Places'
  BY EndPlaces DEF PoolInv
<1>2. ASSUME NEW r \in Requests PROVE Chain(r)' /\ Behind(r)'
  BY ChainEnd, EndBehind DEF PoolInv
<1>3. QED BY <1>1, <1>2 DEF PoolInv

(* The element tasks are posted by the task that ends.                     *)
LEMMA CreateStep ==
  ASSUME PoolInv, NEW q \in Requests, Create(q)
  PROVE  PoolInv'
<1> DEFINE new == [i \in Elements(q) |-> Element(q, i)]
<1>1. Places /\ Job("create", q) \in running /\ q \in Forks
  BY JobsOf DEF Create, PoolInv, Places
<1>2. Tasks[q] \in Nat /\ Elements(q) = 1..Tasks[q]
  BY <1>1 DEF Forks, Elements
<1>3. new \in Seq(Jobs) /\ Len(new) = Tasks[q] /\ \A k \in 1..Len(new) : new[k] = Element(q, k)
  BY <1>1, <1>2, JobsOf
<1>4. Job("create", q) \notin ended /\ Job("create", q) \in Posted
  BY <1>1 DEF Places, Posted
<1>5. /\ \A k, m \in 1..Len(new) : new[k] = new[m] => k = m
      /\ \A k \in 1..Len(new) : new[k] \notin Posted
  BY <1>1, <1>2, <1>3, <1>4, JobsDiffer DEF PoolInv, Chain
<1>6. Post(new) /\ Ends(Job("create", q)) /\ threw' = threw
  BY DEF Create
<1> HIDE DEF new
<1>7. running' \cup ended' = running \cup ended /\ running' \cap ended' = {}
  BY <1>1, <1>6 DEF Ends, Places
<1>8. Places' /\ Queued' = Queued \cup {new[k] : k \in 1..Len(new)}
  BY <1>1, <1>3, <1>5, <1>6, <1>7, PostPlaces
<1>9. Posted' = Posted \cup {Element(q, i) : i \in Elements(q)}
  BY <1>2, <1>3, <1>7, <1>8 DEF Posted
<1>10. ASSUME NEW r \in Requests PROVE Behind(r)'
  <2>1. CASE r = q
    <3>1. Job("join", r) \notin Posted
      BY <1>1, <1>4, <2>1 DEF PoolInv, Chain
    <3>2. \A k \in 1..Len(new) : new[k] # Job("join", r)
      BY <1>3, JobsDiffer
    <3>3. QED BY <1>1, <1>3, <1>5, <1>6, <1>7, <3>1, <3>2, PostBehind DEF PoolInv
  <2>2. CASE r # q
    <3>1. \A i \in Elements(r), k \in 1..Len(new) : new[k] # Element(r, i)
      BY <1>3, <2>2, JobsDiffer
    <3>2. QED BY <1>1, <1>3, <1>5, <1>6, <1>7, <3>1, PostBehind DEF PoolInv
  <2>3. QED BY <2>1, <2>2
<1>11. ASSUME NEW r \in Requests PROVE Chain(r)'
  <2>1. Chain(r) /\ ended' = ended \cup {Job("create", q)}
    BY <1>6 DEF PoolInv, Ends
  <2>2. Waited(r) => Waited(r)'
    BY <1>6, <2>1, WaitedStays
  <2>3. /\ Job("handler", r) \in Posted' <=> Job("handler", r) \in Posted
        /\ Job("action", r) \in Posted' <=> Job("action", r) \in Posted
        /\ Job("create", r) \in Posted' <=> Job("create", r) \in Posted
        /\ Job("join", r) \in Posted' <=> Job("join", r) \in Posted
    BY <1>9, JobsDiffer
  <2>4. /\ Job("handler", r) \in ended' <=> Job("handler", r) \in ended
        /\ Job("action", r) \in ended' <=> Job("action", r) \in ended
        /\ Job("join", r) \in ended' <=> Job("join", r) \in ended
        /\ Job("create", r) \in ended' <=> Job("create", r) \in ended \/ r = q
    BY <2>1, JobsDiffer
  <2>5. \A i \in Elements(r) :
          Element(r, i) \in Posted' <=> Element(r, i) \in Posted \/ r = q
    BY <1>9, JobsDiffer
  <2>6. QED BY <1>7, <2>1, <2>2, <2>3, <2>4, <2>5 DEF Chain
<1>12. QED BY <1>8, <1>10, <1>11 DEF PoolInv

LEMMA PoolInit == Init => PoolInv /\ OutlivesOnlyAfterThrow
<1> SUFFICES ASSUME Init PROVE PoolInv /\ OutlivesOnlyAfterThrow
  OBVIOUS
<1>1. queue = <<>> /\ running = {} /\ ended = {} /\ threw = {}
  BY DEF Init
<1>2. Queued = {} /\ Posted = {}
  BY <1>1 DEF Queued, Posted, ToSet
<1>3. Places
  BY <1>1, <1>2 DEF Places
<1>4. \A r \in Requests : Chain(r) /\ Behind(r)
  BY <1>1, <1>2 DEF Chain, Behind, InFront
<1>5. QED BY <1>1, <1>3, <1>4 DEF PoolInv, OutlivesOnlyAfterThrow

LEMMA PoolStep == PoolInv /\ [Next]_vars => PoolInv'
<1> SUFFICES ASSUME PoolInv, [Next]_vars PROVE PoolInv'
  OBVIOUS
<1>1. ASSUME NEW q \in Requests, Arrive(q) PROVE PoolInv'
  <2>1. Job("handler", q) \in Jobs /\ Job("handler", q) \notin Posted
    BY <1>1, JobsOf DEF Arrive
  <2>2. Post(<<Job("handler", q)>>) /\ UNCHANGED <<running, ended, threw>>
    BY <1>1 DEF Arrive
  <2>3. QED BY <2>1, <2>2, JobsDiffer, PostOne
<1>2. CASE Take
  <2>1. Places'
    BY <1>2, TakePlaces DEF PoolInv
  <2>2. \A r \in Requests : Chain(r)' /\ Behind(r)'
    BY <1>2, ChainTake, TakeBehind DEF PoolInv
  <2>3. QED BY <2>1, <2>2 DEF PoolInv
<1>3. ASSUME NEW q \in Requests, Body(q) PROVE PoolInv'
  <2>1. Job("action", q) \in Jobs /\ Job("action", q) \notin Posted /\ Job("handler", q) \in running
    BY <1>3, JobsOf DEF Body
  <2>2. Post(<<Job("action", q)>>) /\ UNCHANGED <<running, ended, threw>>
    BY <1>3 DEF Body
  <2>3. QED BY <2>1, <2>2, JobsDiffer, PostOne
<1>4. ASSUME NEW q \in Requests, Fork(q) PROVE PoolInv'
  <2>1. Job("create", q) \in Jobs /\ Job("create", q) \notin Posted /\ Job("action", q) \in running
    BY <1>4, JobsOf DEF Fork
  <2>2. Post(<<Job("create", q)>>) /\ UNCHANGED <<running, ended, threw>>
    BY <1>4 DEF Fork
  <2>3. QED BY <2>1, <2>2, JobsDiffer, PostOne
<1>5. ASSUME NEW q \in Requests, Then(q) PROVE PoolInv'
  <2>1. Job("create", q) \in ended /\ Job("create", q) \in Jobs
    BY <1>5 DEF Then, PoolInv, Places
  <2>2. Job("join", q) \in Jobs /\ Job("join", q) \notin Posted
    BY <1>5, <2>1, JobsOf DEF Then
  <2>3. Post(<<Job("join", q)>>) /\ UNCHANGED <<running, ended, threw>>
    BY <1>5 DEF Then
  <2>4. QED BY <2>1, <2>2, <2>3, JobsDiffer, PostOne
<1>6. ASSUME NEW q \in Requests, Create(q) PROVE PoolInv'
  BY <1>6, CreateStep
<1>7. ASSUME NEW q \in Requests, Reply(q) PROVE PoolInv'
  <2>1. Job("handler", q) \in running /\ Ends(Job("handler", q)) /\ UNCHANGED <<queue, threw>>
    BY <1>7 DEF Reply
  <2>2. Job("action", q) \in ended
    BY <1>7 DEF Reply, Waits, Job
  <2>3. QED BY <2>1, <2>2, JobsDiffer, EndOne
<1>8. ASSUME NEW q \in Requests, Serve(q) PROVE PoolInv'
  <2>1. /\ Job("action", q) \in running /\ Ends(Job("action", q)) /\ UNCHANGED <<queue, threw>>
        /\ q \notin Forks
    BY <1>8 DEF Serve
  <2>2. QED BY <2>1, JobsDiffer, EndOne
<1>9. ASSUME NEW q \in Requests, Joined(q) PROVE PoolInv'
  <2>1. Job("action", q) \in running /\ Ends(Job("action", q)) /\ UNCHANGED <<queue, threw>>
    BY <1>9 DEF Joined
  <2>2. Job("join", q) \in ended
    BY <1>9 DEF Joined, Waits, Job
  <2>3. QED BY <2>1, <2>2, JobsDiffer, EndOne
<1>10. ASSUME NEW q \in Requests, NEW i \in Elements(q), Run(q, i) PROVE PoolInv'
  <2>1. /\ Element(q, i) \in running /\ Ends(Element(q, i)) /\ UNCHANGED queue
        /\ threw \subseteq threw'
    BY <1>10 DEF Run
  <2>2. QED BY <2>1, JobsDiffer, EndOne
<1>11. ASSUME NEW q \in Requests, Join(q) PROVE PoolInv'
  <2>1. Job("join", q) \in running /\ Ends(Job("join", q)) /\ UNCHANGED <<queue, threw>>
    BY <1>11 DEF Join
  <2>2. Waited(q)
    BY <1>11 DEF Join, Waits, Job
  <2>3. QED BY <2>1, <2>2, JobsDiffer, EndOne
<1>12. CASE UNCHANGED vars
  BY <1>12 DEF vars, PoolInv, Places, Chain, Behind, InFront, Waited, Posted, Queued
<1>13. QED
  BY <1>1, <1>2, <1>3, <1>4, <1>5, <1>6, <1>7, <1>8, <1>9, <1>10, <1>11, <1>12
     DEF Next, Work, Idle, Hang

(* A task may only outlive its handler behind one that has thrown: the     *)
(* handler waits for the action, the action for the join, the join for     *)
(* the elements up to the first that threw.                                *)
LEMMA PoolOutlives == PoolInv => OutlivesOnlyAfterThrow
<1> SUFFICES ASSUME PoolInv, NEW r \in Requests, Job("handler", r) \in ended,
                    NEW j \in Queued \cup running, j.of = r
             PROVE  /\ j.part = "element"
                    /\ \E i \in 1..(j.i - 1) : Element(r, i) \in threw
  BY DEF OutlivesOnlyAfterThrow
<1>1. Chain(r) /\ Places
  BY DEF PoolInv
<1>2. j \notin ended /\ j \in Jobs
  <2>1. Queued \subseteq Jobs
    BY <1>1 DEF Places, Queued, ToSet
  <2>2. QED BY <1>1, <2>1 DEF Places
<1>3. j # Job("handler", r) /\ j # Job("action", r)
  BY <1>1, <1>2 DEF Chain
<1>4. (j # Job("create", r) /\ j # Job("join", r)) \/ r \notin Forks
  BY <1>1, <1>2 DEF Chain, Posted
<1>5. PICK i \in Elements(r) : r \in Forks /\ j = Element(r, i)
  BY <1>2, <1>3, <1>4, JobKinds DEF Job, Element
<1>6. Waited(r)
  BY <1>1, <1>5 DEF Chain
<1>7. PICK k \in Elements(r) : (\A m \in 1..k : Element(r, m) \in ended) /\ Element(r, k) \in threw
  BY <1>2, <1>5, <1>6 DEF Waited
<1>8. Tasks[r] \in Nat /\ k \in 1..Tasks[r] /\ i \in 1..Tasks[r]
  BY <1>5, <1>7 DEF Forks, Elements
<1>9. ~(i <= k)
  BY <1>2, <1>5, <1>7, <1>8
<1>10. k \in 1..(i - 1)
  BY <1>8, <1>9
<1>11. QED BY <1>5, <1>7, <1>10 DEF Element

(* A task that uses the variables of its handler outlives the handler only *)
(* if an earlier task of the same request has thrown.                      *)
THEOREM Outlives == Spec => []OutlivesOnlyAfterThrow
<1>1. QED BY PoolInit, PoolStep, PoolOutlives, PTL DEF Spec

-----------------------------------------------------------------------------
LEMMA FiniteStep == IsFiniteSet(running) /\ [Next]_vars => IsFiniteSet(running)'
<1> SUFFICES ASSUME IsFiniteSet(running), [Next]_vars PROVE IsFiniteSet(running')
  OBVIOUS
<1>1. ASSUME NEW x, running' = running \cup {x} PROVE IsFiniteSet(running')
  BY <1>1, FS_AddElement
<1>2. ASSUME NEW x, running' = running \ {x} PROVE IsFiniteSet(running')
  BY <1>2, FS_RemoveElement
<1>3. CASE Take
  BY <1>1, <1>3 DEF Take
<1>4. ASSUME NEW r \in Requests, Work(r) PROVE IsFiniteSet(running')
  BY <1>2, <1>4 DEF Work, Body, Reply, Serve, Fork, Create, Then, Join, Joined, Run, Ends
<1>5. QED BY <1>3, <1>4 DEF Next, Arrive, Idle, Hang, vars

(* The image of a finite set is no larger.                                 *)
LEMMA ImageOfQueue == queue \in Seq(Jobs) => IsFiniteSet(Queued)
<1> SUFFICES ASSUME queue \in Seq(Jobs) PROVE IsFiniteSet(Queued)
  OBVIOUS
<1>1. Len(queue) \in Nat /\ DOMAIN queue = 1..Len(queue)
  OBVIOUS
<1>2. queue \in Surjection(1..Len(queue), Queued)
  <2>1. queue = [k \in 1..Len(queue) |-> queue[k]]
    OBVIOUS
  <2>2. Queued = {queue[k] : k \in 1..Len(queue)}
    BY <1>1 DEF Queued, ToSet
  <2>3. queue \in [1..Len(queue) -> Queued]
    BY <2>1, <2>2
  <2>4. QED BY <2>2, <2>3 DEF Surjection
<1>3. IsFiniteSet(1..Len(queue))
  BY <1>1, FS_Interval, 1 \in Int
<1>4. QED BY <1>2, <1>3, FS_Surjection

LEMMA JobsOfSome ==
  ASSUME NEW part, NEW S, IsFiniteSet(S)
  PROVE  /\ IsFiniteSet({Job(part, r) : r \in S})
         /\ Cardinality({Job(part, r) : r \in S}) <= Cardinality(S)
<1> DEFINE T == {Job(part, r) : r \in S}
           f == [r \in S |-> Job(part, r)]
<1>1. f \in Surjection(S, T)
  BY DEF Surjection
<1>2. QED BY <1>1, FS_Surjection

(* When every thread waits, the threads hold handlers, and the actions of  *)
(* searches and comparisons: a join has its elements in front of it, and   *)
(* an element waits for nothing.                                           *)
LEMMA AllWait ==
  ASSUME PoolInv, Exhausted, NEW job \in running
  PROVE  \/ \E r \in Requests : job = Job("handler", r)
         \/ \E r \in Forks : job = Job("action", r)
<1>0. job \in Jobs /\ Waits(job)
  BY DEF PoolInv, Places, Exhausted
<1>1. ASSUME NEW r, NEW i, Element(r, i) \in running PROVE FALSE
  <2>1. Waits(Element(r, i))
    BY <1>1 DEF Exhausted
  <2>2. QED BY <2>1 DEF Waits, Element
<1>2. ASSUME NEW r \in Forks, job = Job("create", r) PROVE FALSE
  BY <1>0, <1>2 DEF Waits, Job
<1>3. ASSUME NEW r \in Forks, job = Job("join", r) PROVE FALSE
  <2>1. ~Waited(r)
    BY <1>0, <1>3 DEF Waits, Job
  <2>2. PICK i \in Elements(r) : Element(r, i) \notin ended
    BY <2>1 DEF Waited
  <2>3. r \in Requests /\ Job("join", r) \in running
    BY <1>3, JobsOf
  <2>4. Element(r, i) \in Posted
    BY <2>3 DEF PoolInv, Chain, Posted
  <2>5. Element(r, i) \notin Queued
    BY <2>3 DEF PoolInv, Behind, InFront
  <2>6. QED BY <1>1, <2>2, <2>4, <2>5 DEF Posted
<1>4. ASSUME NEW r \in Requests, job = Job("action", r) PROVE r \in Forks
  BY <1>0, <1>4 DEF Waits, Job
<1>5. QED BY <1>0, <1>1, <1>2, <1>3, <1>4, JobKinds

LEMMA PoolFull == PoolInv /\ IsFiniteSet(running) => ExhaustedOnlyWhenFull
<1> SUFFICES ASSUME PoolInv, IsFiniteSet(running), Exhausted PROVE Load >= PoolSize
  BY DEF ExhaustedOnlyWhenFull
<1> DEFINE flying == {r \in Requests : InFlight(r)}
           forking == flying \cap Forks
           H == {Job("handler", r) : r \in flying}
           A == {Job("action", r) : r \in forking}
<1>1. IsFiniteSet(flying)
  <2>1. IsFiniteSet(Queued \cup running)
    BY ImageOfQueue, FS_Union DEF PoolInv, Places
  <2> DEFINE T == Queued \cup running
             U == {j.of : j \in T}
             f == [j \in T |-> j.of]
  <2>2. f \in Surjection(T, U)
    BY DEF Surjection
  <2>3. IsFiniteSet(U)
    BY <2>1, <2>2, FS_Surjection
  <2>4. ASSUME NEW r \in flying PROVE r \in U
    <3>1. Job("handler", r) \in T /\ Job("handler", r).of = r
      BY DEF InFlight, Job
    <3>2. QED BY <3>1
  <2>5. flying \in SUBSET U
    BY <2>4
  <2>6. QED BY <2>3, <2>5, FS_Subset
<1>2. IsFiniteSet(forking)
  <2>1. forking \in SUBSET flying
    OBVIOUS
  <2>2. QED BY <1>1, <2>1, FS_Subset
<1>3. running \in SUBSET (H \cup A)
  <2>1. ASSUME NEW job \in running PROVE job \in H \cup A
    <3>1. ASSUME NEW r \in Requests, job = Job("handler", r) PROVE job \in H
      BY <3>1 DEF InFlight
    <3>2. ASSUME NEW r \in Forks, job = Job("action", r) PROVE job \in A
      <4>1. r \in Requests /\ Job("action", r) \in running /\ Job("action", r) \notin ended
        BY <3>2, JobsOf DEF PoolInv, Places
      <4>2. Job("handler", r) \in running
        BY <4>1 DEF PoolInv, Chain, Posted
      <4>3. QED BY <3>2, <4>1, <4>2 DEF InFlight
    <3>3. QED BY <3>1, <3>2, AllWait
  <2>2. QED BY <2>1
<1>4. IsFiniteSet(H) /\ Cardinality(H) <= Cardinality(flying)
  BY <1>1, JobsOfSome
<1>5. IsFiniteSet(A) /\ Cardinality(A) <= Cardinality(forking)
  BY <1>2, JobsOfSome
<1>6. /\ IsFiniteSet(H \cup A)
      /\ Cardinality(H \cup A) = Cardinality(H) + Cardinality(A) - Cardinality(H \cap A)
  BY <1>4, <1>5, FS_Union
<1>7. Cardinality(running) <= Cardinality(H \cup A)
  BY <1>3, <1>6, FS_Subset
<1>8. IsFiniteSet(H \cap A)
  <2>1. H \cap A \in SUBSET H
    OBVIOUS
  <2>2. QED BY <1>4, <2>1, FS_Subset
<1>9. /\ Cardinality(H) \in Nat /\ Cardinality(A) \in Nat /\ Cardinality(H \cap A) \in Nat
      /\ Cardinality(flying) \in Nat /\ Cardinality(forking) \in Nat
  BY <1>1, <1>2, <1>4, <1>5, <1>8, FS_CardinalityType
<1>10. Load = Cardinality(flying) + Cardinality(forking)
  BY DEF Load
<1>11. Cardinality(running) = PoolSize
  BY DEF Exhausted
<1> HIDE DEF flying, forking, H, A
<1>12. QED BY <1>4, <1>5, <1>6, <1>7, <1>9, <1>10, <1>11

(* The pool is exhausted for ever only when the requests in flight hold    *)
(* all its threads, two for each search or comparison and one for another. *)
THEOREM Full == Spec => []ExhaustedOnlyWhenFull
<1>1. Init => IsFiniteSet(running)
  BY FS_EmptySet DEF Init
<1>2. QED BY <1>1, PoolInit, PoolStep, FiniteStep, PoolFull, PTL DEF Spec
=============================================================================
