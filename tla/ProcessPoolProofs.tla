--------------------------- MODULE ProcessPoolProofs --------------------------
(***************************************************************************)
(* Proofs about ProcessPool, for any keys, credentials, number of requests *)
(* and of creations, and any capacity of the pool.                         *)
(***************************************************************************)
EXTENDS ProcessPool, FiniteSetTheorems, SequenceTheorems, TLAPS

-----------------------------------------------------------------------------
(* Requests are counted, processes are closed.                              *)

LEMMA Count ==
    ASSUME NEW H \in SUBSET Request
    PROVE  /\ IsFiniteSet(H) /\ Cardinality(H) \in Nat
           /\ Cardinality(H) <= Cardinality(Request) /\ Cardinality(Request) \in Nat
           /\ Cardinality(H) = 0 <=> H = {}
BY PoolAssumption, FS_CardinalityType, FS_Subset, FS_EmptySet

\* What Closed does to each process.
LEMMA ClosedIs ==
    ASSUME NEW D, NEW proc \in [D -> Spawned], NEW P, NEW st \in {"closing", "stopping"}
    PROVE  /\ Closed(proc, P, st) \in [D -> Spawned]
           /\ \A p \in D :
                 /\ Closed(proc, P, st)[p].key = proc[p].key
                 /\ Closed(proc, P, st)[p].hash = proc[p].hash
                 /\ Closed(proc, P, st)[p].state =
                       IF p \in P /\ proc[p].state \in {"alive", "exited"} THEN st
                       ELSE proc[p].state
BY DEF Closed, Spawned

\* A request holds what it held before, or has begun to wait for a creation.
Keeps(r)   == /\ request'[r].at = request[r].at /\ request'[r].hash = request[r].hash
              /\ request'[r].pc = "idle" <=> request[r].pc = "idle"
              /\ request'[r].pc = "waiting" <=> request[r].pc = "waiting"
Waits(r)   == /\ request[r].at = 0 /\ request'[r].pc = "waiting"
              /\ request'[r].at \in pending'
              /\ process'[request'[r].at].hash = request'[r].hash

LEMMA Facts ==
    ASSUME IndInv
    PROVE  /\ pool \in [Key -> Process \cup {0}] /\ seq \in 0 .. MaxCreations
           /\ seq \in Nat /\ MaxCreations \in Nat
           /\ process \in [1 .. seq -> Spawned] /\ DOMAIN process = 1 .. seq
           /\ pending \subseteq 1 .. seq /\ retired \subseteq 1 .. seq
           /\ 1 .. seq \subseteq Process
           /\ leases \in [Process -> 0 .. Cardinality(Request)]
           /\ \A k \in Key : pool[k] # 0 =>
                 /\ pool[k] \in 1 .. seq /\ process[pool[k]].key = k
                 /\ pool[k] \notin pending
           /\ \A p \in 1 .. seq : p \in pending <=> process[p].state = "starting"
           /\ \A r \in Request : request[r].at \in 0 .. seq
<1> USE PoolAssumption
<1>1. /\ pool \in [Key -> Process \cup {0}] /\ seq \in 0 .. MaxCreations
      /\ seq \in Nat /\ MaxCreations \in Nat
      /\ process \in [1 .. seq -> Spawned] /\ DOMAIN process = 1 .. seq
      /\ pending \subseteq 1 .. seq /\ retired \subseteq 1 .. seq
      /\ 1 .. seq \subseteq Process
      /\ leases \in [Process -> 0 .. Cardinality(Request)]
  BY DEF IndInv, TypeOK, Process
<1>2. \A p \in 1 .. seq : p \in pending <=> process[p].state = "starting"
  BY <1>1 DEF IndInv, RequestsAreServed
<1> QED
  BY <1>1, <1>2 DEF IndInv, PoolIsKeyed, Pooled, RequestsAreServed

-----------------------------------------------------------------------------
(* Entries are taken out of the pool.                                       *)

\* The keys K lose their processes, which are closed or retired; beside, a
\* creation may start, and requests may begin to wait.
LEMMA TakeOutStep ==
    ASSUME IndInv, NEW K \in SUBSET Key, \A k \in K : pool[k] # 0,
           pool' = [k \in Key |-> IF k \in K THEN 0 ELSE pool[k]],
           NEW proc, Retire({pool[k] : k \in K}, leases, proc),
           seq' \in seq .. MaxCreations, proc \in [1 .. seq' -> Spawned],
           \A p \in 1 .. seq : proc[p] = process[p],
           \A p \in seq + 1 .. seq' : proc[p].state = "starting",
           pending' = pending \cup (seq + 1 .. seq'),
           UNCHANGED <<leases, down>>,
           request' \in [Request -> [pc : {"idle", "waiting", "using", "done"},
                                     at : Process \cup {0}, hash : Credentials \cup {0}]],
           \A r \in Request : Keeps(r) \/ Waits(r)
    PROVE  IndInv'
<1> DEFINE P == {pool[k] : k \in K}
<1>1. /\ seq' \in Nat /\ seq <= seq' /\ seq' \in 0 .. MaxCreations
      /\ 1 .. seq \subseteq 1 .. seq' /\ 1 .. seq' \subseteq Process
  BY Facts DEF Process
<1>2. P \subseteq 1 .. seq /\ P \cap pending = {}
  BY Facts
<1>3. /\ retired' = retired \cup {p \in P : leases[p] > 0}
      /\ process' \in [1 .. seq' -> Spawned] /\ DOMAIN process' = 1 .. seq'
      /\ \A p \in 1 .. seq' :
            /\ process'[p].key = proc[p].key /\ process'[p].hash = proc[p].hash
            /\ process'[p].state =
                  IF p \in P /\ leases[p] = 0 /\ proc[p].state \in {"alive", "exited"}
                  THEN "closing" ELSE proc[p].state
  <2> DEFINE gone == {p \in P : leases[p] = 0}
  <2>1. process' = Closed(proc, gone, "closing") /\ retired' = retired \cup {p \in P : leases[p] > 0}
    BY DEF Retire
  <2>2. \A p : p \in gone <=> p \in P /\ leases[p] = 0
    OBVIOUS
  <2> HIDE DEF gone, P
  <2> QED
    BY <2>1, <2>2, ClosedIs
<1>4. \A p \in 1 .. seq :
         /\ process'[p].key = process[p].key /\ process'[p].hash = process[p].hash
         /\ process'[p].state = "starting" <=> process[p].state = "starting"
         /\ process'[p].state \in {process[p].state, "closing"}
  BY <1>1, <1>3
<1>5. TypeOK'
  <2>1. pool' \in [Key -> Process \cup {0}]
    BY Facts
  <2>2. retired' \subseteq 1 .. seq' /\ pending' \subseteq 1 .. seq'
    BY <1>1, <1>2, <1>3, Facts
  <2>3. leases' \in [Process -> 0 .. Cardinality(Request)] /\ down' = down
    BY Facts
  <2> QED
    BY <1>1, <1>3, <2>1, <2>2, <2>3 DEF TypeOK, IndInv
<1>6. PoolIsKeyed'
  <2>1. \A k \in Key : pool'[k] \in {0, pool[k]}
    BY Facts
  <2>2. ASSUME NEW k \in Key, pool'[k] # 0
        PROVE  /\ pool'[k] \in DOMAIN process' /\ process'[pool'[k]].state # "starting"
               /\ process'[pool'[k]].key = k
    BY <1>1, <1>3, <1>4, <2>1, <2>2, Facts
  <2> QED
    BY <2>2 DEF PoolIsKeyed, Pooled
<1>7. RequestsAreServed'
  <2>1. ASSUME NEW p \in 1 .. seq'
        PROVE  p \in pending' <=> process'[p].state = "starting"
    <3>1. CASE p \in 1 .. seq
      BY <1>1, <1>4, <3>1, Facts
    <3>2. CASE p \in seq + 1 .. seq'
      BY <1>2, <1>3, <3>2, Facts
    <3> QED
      BY <1>1, <3>1, <3>2, Facts
  <2>2. ASSUME NEW r \in Request
        PROVE  /\ request'[r].at \in 0 .. seq'
               /\ request'[r].pc = "idle" <=> request'[r].at = 0
               /\ request'[r].pc = "waiting" <=> request'[r].at \in pending'
    <3>1. CASE Keeps(r)
      BY <1>1, <3>1, Facts DEF Keeps, IndInv, RequestsAreServed
    <3>2. CASE Waits(r)
      BY <1>1, <3>2, Facts DEF Waits
    <3> QED
      BY <3>1, <3>2
  <2> QED
    BY <1>3, <2>1, <2>2 DEF RequestsAreServed
<1>8. OwnCredentials'
  <2> SUFFICES ASSUME NEW r \in Request, request'[r].at # 0
               PROVE  process'[request'[r].at].hash = request'[r].hash
    BY DEF OwnCredentials
  <2>1. CASE Keeps(r)
    <3>1. request[r].at \in 1 .. seq /\ process[request[r].at].hash = request[r].hash
      BY <2>1, Facts DEF Keeps, IndInv, OwnCredentials
    <3> QED
      BY <1>4, <2>1, <3>1 DEF Keeps
  <2> QED
    BY <2>1 DEF Waits
<1>9. \A p \in 1 .. seq : p \notin pending => Holders(p)' = Holders(p)
  <2> SUFFICES ASSUME NEW p \in 1 .. seq, p \notin pending, NEW r \in Request
               PROVE  request'[r].at = p <=> request[r].at = p
    BY DEF Holders
  <2> QED
    BY Facts DEF Keeps, Waits
<1>10. LeasesAreCounted'
  <2> SUFFICES ASSUME down = "up", NEW p \in Process
               PROVE  leases[p] = IF p \in pending' THEN 0 ELSE Cardinality(Holders(p)')
    BY DEF LeasesAreCounted
  <2>0. leases[p] = IF p \in pending THEN 0 ELSE Cardinality(Holders(p))
    BY DEF IndInv, LeasesAreCounted
  <2>1. CASE p \in 1 .. seq
    BY <1>9, <2>0, <2>1, Facts
  <2>2. CASE p \notin 1 .. seq
    <3>1. Holders(p) = {} /\ p \notin pending
      BY <2>2, PoolAssumption, Facts DEF Holders, Process
    <3>2. leases[p] = 0
      BY <2>0, <3>1, FS_EmptySet
    <3>3. p \notin pending' => Holders(p)' = {}
      BY <3>1 DEF Holders, Keeps, Waits
    <3> QED
      BY <3>2, <3>3, FS_EmptySet
  <2> QED
    BY <2>1, <2>2
<1>11. \A p \in 1 .. seq : down = "up" /\ p \notin pending =>
          (leases[p] = 0 <=> Holders(p) = {}) /\ leases[p] \in Nat
  <2>1. \A p \in Process : Holders(p) \in SUBSET Request
    BY DEF Holders
  <2> QED
    BY <2>1, Facts, Count DEF IndInv, LeasesAreCounted
<1>12. HeldIsOpen'
  <2> SUFFICES ASSUME down = "up", NEW p \in 1 .. seq', Holders(p)' # {}
               PROVE  process'[p].state \in {"starting", "alive", "exited"}
    BY <1>3 DEF HeldIsOpen
  <2>1. CASE p \in 1 .. seq /\ p \notin pending
    BY <1>1, <1>3, <1>9, <1>11, <2>1, Facts DEF IndInv, HeldIsOpen
  <2>2. CASE p \in pending'
    BY <1>3, <1>7, <2>2 DEF RequestsAreServed
  <2> QED
    BY <1>1, <2>1, <2>2, Facts
<1>13. NothingLeaks'
  <2> SUFFICES ASSUME down = "up", NEW p \in 1 .. seq',
                      process'[p].state \in {"alive", "exited"}
               PROVE  \/ pool'[process'[p].key] = p
                      \/ p \in retired' /\ Holders(p)' # {}
    BY <1>3 DEF NothingLeaks
  <2>1. p \in 1 .. seq /\ process[p].state \in {"alive", "exited"} /\ p \notin pending
    <3>1. proc[p].state \in {"alive", "exited"}
      BY <1>3
    <3>2. p \in 1 .. seq \/ p \in seq + 1 .. seq'
      BY <1>1, Facts
    <3>3. p \in 1 .. seq
      BY <3>1, <3>2
    <3> QED
      BY <3>1, <3>3, Facts
  <2>2. p \in P => leases[p] # 0
    BY <1>1, <1>3, <2>1
  <2>3. CASE p \in P
    BY <1>3, <1>9, <1>11, <2>1, <2>2, <2>3
  <2>4. CASE p \notin P
    <3>1. \/ pool[process[p].key] = p
          \/ p \in retired /\ Holders(p) # {}
      BY <2>1, Facts DEF IndInv, NothingLeaks
    <3>2. process'[p].key = process[p].key /\ process[p].key \in Key
      BY <1>4, <2>1, Facts DEF Spawned
    <3> QED
      BY <1>3, <1>9, <2>1, <2>4, <3>1, <3>2
  <2> QED
    BY <2>3, <2>4
<1> QED
  BY <1>5, <1>6, <1>7, <1>8, <1>10, <1>12, <1>13 DEF IndInv

-----------------------------------------------------------------------------
(* The steps that take entries out of the pool, or none.                    *)

RequestRecord ==
    [pc : {"idle", "waiting", "using", "done"}, at : Process \cup {0},
     hash : Credentials \cup {0}]

LEMMA RequestType ==
    ASSUME IndInv
    PROVE  request \in [Request -> RequestRecord]
BY DEF IndInv, TypeOK, RequestRecord

\* No creation starts.
LEMMA TakeOutOnly ==
    ASSUME IndInv, NEW K \in SUBSET Key, \A k \in K : pool[k] # 0,
           pool' = [k \in Key |-> IF k \in K THEN 0 ELSE pool[k]],
           Retire({pool[k] : k \in K}, leases, process),
           UNCHANGED <<pending, leases, seq, down>>,
           request' \in [Request -> RequestRecord],
           \A r \in Request : Keeps(r) \/ Waits(r)
    PROVE  IndInv'
<1>1. seq' \in seq .. MaxCreations /\ seq + 1 .. seq' = {}
  BY Facts
<1>2. process \in [1 .. seq' -> Spawned]
  BY Facts
<1>3. pending' = pending \cup (seq + 1 .. seq') /\ UNCHANGED <<leases, down>>
  BY <1>1
<1>4. \A p \in seq + 1 .. seq' : process[p].state = "starting"
  BY <1>1
<1> QED
  BY <1>1, <1>2, <1>3, <1>4, TakeOutStep DEF RequestRecord

LEMMA CleanupStep ==
    ASSUME IndInv, Cleanup
    PROVE  IndInv'
<1>1. PICK K \in SUBSET {k \in Key : pool[k] # 0} :
         /\ pool' = [k \in Key |-> IF k \in K THEN 0 ELSE pool[k]]
         /\ Retire({pool[k] : k \in K}, leases, process)
  BY DEF Cleanup
<1>2. /\ UNCHANGED <<pending, leases, seq, down>>
      /\ request' \in [Request -> RequestRecord] /\ \A r \in Request : Keeps(r)
  BY RequestType DEF Cleanup, Keeps
<1>3. K \in SUBSET Key /\ \A k \in K : pool[k] # 0
  OBVIOUS
<1> QED
  BY <1>1, <1>2, <1>3, TakeOutOnly

\* Nothing is taken out.
LEMMA RequestOnly ==
    ASSUME IndInv, UNCHANGED <<pool, process, pending, leases, retired, seq, down>>,
           request' \in [Request -> RequestRecord],
           \A r \in Request : Keeps(r) \/ Waits(r)
    PROVE  IndInv'
<1>1. Closed(process, {}, "closing") = process
  BY Facts DEF Closed
<1> DEFINE K == {}
<1>2. /\ {pool[k] : k \in K} = {}
      /\ {p \in {} : leases[p] > 0} = {} /\ {p \in {} : leases[p] = 0} = {}
  OBVIOUS
<1>3. Retire({pool[k] : k \in K}, leases, process)
  BY <1>1, <1>2 DEF Retire
<1>4. pool' = [k \in Key |-> IF k \in K THEN 0 ELSE pool[k]]
  BY Facts
<1>5. K \in SUBSET Key /\ \A k \in K : pool[k] # 0
  OBVIOUS
<1> HIDE DEF K
<1> QED
  BY <1>3, <1>4, <1>5, TakeOutOnly

LEMMA AnsweredFailedSteps ==
    ASSUME IndInv, NEW r \in Request, Answered(r) \/ Failed(r)
    PROVE  IndInv'
<1>1. /\ request[r].pc = "using" /\ request' = [request EXCEPT ![r].pc = "done"]
      /\ UNCHANGED <<pending, leases, seq, down>>
  BY DEF Answered, Failed
<1>2. /\ request' \in [Request -> RequestRecord]
      /\ \A s \in Request : Keeps(s)
  BY <1>1, RequestType DEF RequestRecord, Keeps
<1>3. CASE UNCHANGED <<pool, process, retired>>
  BY <1>1, <1>2, <1>3, RequestOnly
<1>4. ASSUME NEW p, NEW k, p = request[r].at, k = process[p].key, pool[k] = p,
             pool' = [pool EXCEPT ![k] = 0], Retire({p}, leases, process)
      PROVE  IndInv'
  <2>1. p \in 1 .. seq /\ p # 0
    BY <1>1, <1>4, Facts DEF IndInv, RequestsAreServed
  <2>2. k \in Key
    BY <1>4, <2>1, Facts DEF Spawned
  <2> DEFINE K == {k}
  <2>3. K \in SUBSET Key /\ \A x \in K : pool[x] # 0
    BY <1>4, <2>1, <2>2
  <2>4. {pool[x] : x \in K} = {p}
    BY <1>4
  <2>5. pool' = [x \in Key |-> IF x \in K THEN 0 ELSE pool[x]]
    BY <1>4, Facts
  <2>6. Retire({pool[x] : x \in K}, leases, process)
    BY <1>4, <2>4
  <2> HIDE DEF K
  <2> QED
    BY <1>1, <1>2, <2>3, <2>5, <2>6, TakeOutOnly
<1> QED
  BY <1>3, <1>4 DEF Answered, Failed

\* A request begins to wait, and a dead process is taken out of its key.
LEMMA WaitStep ==
    ASSUME IndInv, NEW r \in Request, NEW k \in Key, NEW h \in Credentials, NEW p,
           request[r].pc = "idle", Hold(r, "waiting", p, h),
           pool' = IF Dead(k) THEN [pool EXCEPT ![k] = 0] ELSE pool,
           NEW proc, Retire(Unpooled(k), leases, proc),
           seq' \in seq .. MaxCreations, proc \in [1 .. seq' -> Spawned],
           \A q \in 1 .. seq : proc[q] = process[q],
           \A q \in seq + 1 .. seq' : proc[q].state = "starting",
           pending' = pending \cup (seq + 1 .. seq'),
           UNCHANGED <<leases, down>>,
           p \in pending', proc[p].hash = h
    PROVE  IndInv'
<1> DEFINE K == {x \in {k} : Dead(x)}
<1>1. K \in SUBSET Key /\ \A x \in K : pool[x] # 0
  BY DEF Dead
<1>2. {pool[x] : x \in K} = Unpooled(k)
  BY DEF Unpooled
<1>3. pool' = [x \in Key |-> IF x \in K THEN 0 ELSE pool[x]]
  <2>1. \A x : x \in K <=> x = k /\ Dead(k)
    OBVIOUS
  <2>2. pool \in [Key -> Process \cup {0}]
    BY Facts
  <2> HIDE DEF K
  <2> QED
    BY <2>1, <2>2
<1>4. p \in 1 .. seq' /\ p \in Process
  BY Facts DEF Process
<1>5. request' \in [Request -> RequestRecord]
  BY <1>4, RequestType DEF Hold, RequestRecord
<1>6. process'[p].hash = h
  BY <1>4, ClosedIs DEF Retire
<1>7. ASSUME NEW s \in Request
      PROVE  Keeps(s) \/ Waits(s)
  <2>1. request[r].at = 0
    BY DEF IndInv, RequestsAreServed
  <2>2. CASE s = r
    BY <1>6, <2>1, <2>2, RequestType DEF Hold, Waits
  <2>3. CASE s # r
    BY <2>3, RequestType DEF Hold, Keeps
  <2> QED
    BY <2>2, <2>3
<1>8. Retire({pool[x] : x \in K}, leases, proc)
  BY <1>2
<1> HIDE DEF K
<1> QED
  BY <1>1, <1>3, <1>5, <1>7, <1>8, TakeOutStep DEF RequestRecord

LEMMA JoinStep ==
    ASSUME IndInv, NEW r \in Request, NEW k \in Key, NEW h \in Credentials, Join(r, k, h)
    PROVE  IndInv'
<1>1. PICK p \in Joinable(k, h) : Hold(r, "waiting", p, h)
  BY DEF Join
<1>2. p \in pending /\ process[p].hash = h
  BY DEF Joinable
<1>3. seq' = seq /\ seq \in seq .. MaxCreations /\ seq + 1 .. seq = {}
  BY Facts DEF Join
<1>4. /\ request[r].pc = "idle" /\ Retire(Unpooled(k), leases, process)
      /\ pool' = IF Dead(k) THEN [pool EXCEPT ![k] = 0] ELSE pool
      /\ UNCHANGED <<pending, leases, down>>
  BY DEF Join
<1>5. pending' = pending \cup (seq + 1 .. seq') /\ p \in pending'
  BY <1>2, <1>3, <1>4
<1>6. process \in [1 .. seq' -> Spawned] /\ \A q \in seq + 1 .. seq' : FALSE
  BY <1>3, Facts
<1> QED
  BY <1>1, <1>2, <1>3, <1>4, <1>5, <1>6, WaitStep

\* What a creation appends.
LEMMA AppendIs ==
    ASSUME NEW n \in Nat, NEW s \in [1 .. n -> Spawned], NEW e \in Spawned
    PROVE  /\ Append(s, e) \in [1 .. n + 1 -> Spawned]
           /\ \A i \in 1 .. n : Append(s, e)[i] = s[i]
           /\ Append(s, e)[n + 1] = e
<1>1. s \in Seq(Spawned) /\ Len(s) = n
  OBVIOUS
<1>2. /\ Append(s, e) \in Seq(Spawned) /\ Len(Append(s, e)) = n + 1
      /\ \A i \in 1 .. n : Append(s, e)[i] = s[i]
      /\ Append(s, e)[n + 1] = e
  BY <1>1, AppendProperties
<1> QED
  BY <1>2, LenProperties

LEMMA CreateStep ==
    ASSUME IndInv, NEW r \in Request, NEW k \in Key, NEW h \in Credentials, Create(r, k, h)
    PROVE  IndInv'
<1> DEFINE made(v) == [key |-> k, hash |-> h, version |-> v, state |-> "starting"]
<1>1. PICK v \in {0, h} : Retire(Unpooled(k), leases, Append(process, made(v)))
  BY DEF Create
<1> DEFINE proc == Append(process, made(v))
<1>2. seq' = seq + 1 /\ seq' \in seq .. MaxCreations /\ seq + 1 .. seq' = {seq + 1}
  BY Facts DEF Create
<1>3. made(v) \in Spawned /\ made(v).hash = h /\ made(v).state = "starting"
  BY DEF Spawned
<1>4. /\ proc \in [1 .. seq' -> Spawned]
      /\ \A q \in 1 .. seq : proc[q] = process[q]
      /\ proc[seq + 1] = made(v)
  <2>1. seq \in Nat /\ process \in [1 .. seq -> Spawned]
    BY Facts
  <2> HIDE DEF made
  <2>2. /\ proc \in [1 .. seq + 1 -> Spawned]
        /\ \A q \in 1 .. seq : proc[q] = process[q]
        /\ proc[seq + 1] = made(v)
    BY <1>3, <2>1, AppendIs
  <2> QED
    BY <1>2, <2>2
<1>5. /\ request[r].pc = "idle" /\ Hold(r, "waiting", seq + 1, h)
      /\ pool' = IF Dead(k) THEN [pool EXCEPT ![k] = 0] ELSE pool
      /\ pending' = pending \cup {seq + 1}
      /\ UNCHANGED <<leases, down>>
  BY DEF Create
<1>6. /\ pending' = pending \cup (seq + 1 .. seq') /\ seq + 1 \in pending'
      /\ proc[seq + 1].hash = h /\ \A q \in seq + 1 .. seq' : proc[q].state = "starting"
  BY <1>2, <1>3, <1>4, <1>5
<1> HIDE DEF proc
<1>7. Retire(Unpooled(k), leases, proc)
  BY <1>1 DEF proc
<1> QED
  BY <1>2, <1>4, <1>5, <1>6, <1>7, WaitStep

-----------------------------------------------------------------------------
(* The other steps: what they owe the parts of the invariant that hold       *)
(* during a shutdown too.                                                   *)

\* A request has ended, still has its process, or was given one that is there.
Served(r) ==
    \/ request'[r] = NoRequest
    \/ /\ request'[r].at = request[r].at /\ request'[r].hash = request[r].hash
       /\ request'[r].pc = "idle" <=> request[r].pc = "idle"
       /\ request'[r].pc = "waiting" <=> request[r].at \in pending'
    \/ /\ request'[r].pc = "using" /\ request'[r].at \in (1 .. seq) \ pending'
       /\ process[request'[r].at].hash = request'[r].hash

LEMMA StructureStep ==
    ASSUME IndInv, UNCHANGED seq, pending' \subseteq pending,
           process' \in [1 .. seq -> Spawned],
           \A p \in 1 .. seq :
              /\ process'[p].key = process[p].key /\ process'[p].hash = process[p].hash
              /\ p \in pending' <=> process'[p].state = "starting",
           pool' \in [Key -> Process \cup {0}],
           \A k \in Key : pool'[k] # 0 =>
              /\ pool'[k] \in 1 .. seq /\ process[pool'[k]].key = k
              /\ pool'[k] \notin pending',
           retired' \subseteq 1 .. seq,
           leases' \in [Process -> 0 .. Cardinality(Request)],
           down' \in {"up", "closing", "settling", "gone"},
           request' \in [Request -> RequestRecord],
           \A r \in Request : Served(r)
    PROVE  TypeOK' /\ PoolIsKeyed' /\ RequestsAreServed' /\ OwnCredentials'
<1>1. TypeOK'
  BY Facts DEF TypeOK, RequestRecord
<1>2. DOMAIN process' = 1 .. seq
  OBVIOUS
<1>3. PoolIsKeyed'
  BY <1>2 DEF PoolIsKeyed, Pooled
<1>4. ASSUME NEW r \in Request
      PROVE  /\ request'[r].at \in 0 .. seq
             /\ request'[r].pc = "idle" <=> request'[r].at = 0
             /\ request'[r].pc = "waiting" <=> request'[r].at \in pending'
             /\ request'[r].at # 0 => process'[request'[r].at].hash = request'[r].hash
  <2>1. CASE request'[r] = NoRequest
    BY <2>1, Facts DEF NoRequest
  <2>2. CASE /\ request'[r].at = request[r].at /\ request'[r].hash = request[r].hash
             /\ request'[r].pc = "idle" <=> request[r].pc = "idle"
             /\ request'[r].pc = "waiting" <=> request[r].at \in pending'
    <3>1. /\ request[r].at \in 0 .. seq
          /\ request[r].pc = "idle" <=> request[r].at = 0
          /\ request[r].at # 0 => process[request[r].at].hash = request[r].hash
      BY DEF IndInv, RequestsAreServed, OwnCredentials
    <3>2. request[r].at # 0 => request[r].at \in 1 .. seq
      BY <3>1, Facts
    <3>3. request[r].at # 0 => process'[request[r].at].hash = request[r].hash
      BY <3>1, <3>2
    <3>4. request'[r].pc = "idle" <=> request'[r].at = 0
      BY <2>2, <3>1
    <3>5. request'[r].pc = "waiting" <=> request'[r].at \in pending'
      BY <2>2
    <3>6. /\ request'[r].at \in 0 .. seq
          /\ request'[r].at # 0 => process'[request'[r].at].hash = request'[r].hash
      BY <2>2, <3>1, <3>3
    <3> QED
      BY <3>4, <3>5, <3>6
  <2>3. CASE /\ request'[r].pc = "using" /\ request'[r].at \in (1 .. seq) \ pending'
             /\ process[request'[r].at].hash = request'[r].hash
    BY <2>3, Facts
  <2> QED
    BY <2>1, <2>2, <2>3 DEF Served
<1>5. RequestsAreServed'
  BY <1>2, <1>4 DEF RequestsAreServed
<1>6. OwnCredentials'
  BY <1>4 DEF OwnCredentials
<1> QED
  BY <1>1, <1>3, <1>5, <1>6

\* During a shutdown there is nothing more to show.
LEMMA DownStep ==
    ASSUME IndInv, down' # "up",
           TypeOK' /\ PoolIsKeyed' /\ RequestsAreServed' /\ OwnCredentials'
    PROVE  IndInv'
BY DEF IndInv, LeasesAreCounted, HeldIsOpen, NothingLeaks

LEMMA HoldersFacts ==
    ASSUME IndInv, NEW p \in Process
    PROVE  /\ IsFiniteSet(Holders(p)) /\ Holders(p) \in SUBSET Request
           /\ Cardinality(Holders(p)) \in Nat
           /\ Cardinality(Holders(p)) <= Cardinality(Request)
           /\ Cardinality(Holders(p)) = 0 <=> Holders(p) = {}
           /\ down = "up" =>
                 leases[p] = IF p \in pending THEN 0 ELSE Cardinality(Holders(p))
BY Count DEF Holders, IndInv, LeasesAreCounted

LEMMA ReuseStep ==
    ASSUME IndInv, NEW r \in Request, NEW k \in Key, NEW h \in Credentials, Reuse(r, k, h)
    PROVE  IndInv'
<1> DEFINE p == pool[k]
<1>1. /\ p \in 1 .. seq /\ p \in Process /\ p \notin pending /\ p # 0
      /\ process[p].state = "alive" /\ process[p].hash = h
      /\ request[r].pc = "idle" /\ request[r].at = 0
      /\ leases' = [leases EXCEPT ![p] = leases[p] + 1]
      /\ request' = [request EXCEPT ![r] = [pc |-> "using", at |-> p, hash |-> h]]
      /\ UNCHANGED <<pool, process, pending, retired, seq, down>> /\ down = "up"
  BY Facts DEF Reuse, Reusable, Alive, Hold, IndInv, RequestsAreServed
<1>2. \A q \in Process \ {p} : Holders(q)' = Holders(q)
  BY <1>1, RequestType, PoolAssumption DEF Holders, Process
<1>3. Holders(p)' = Holders(p) \cup {r} /\ r \notin Holders(p)
  BY <1>1, RequestType DEF Holders
<1>4. /\ Cardinality(Holders(p)') = leases[p] + 1 /\ leases[p] \in Nat
      /\ leases[p] + 1 <= Cardinality(Request) /\ Cardinality(Request) \in Nat
  <2>1. Holders(p) \cup {r} \in SUBSET Request
    BY DEF Holders
  <2> QED
    <3>1. IsFiniteSet(Holders(p)) /\ leases[p] = Cardinality(Holders(p)) /\ leases[p] \in Nat
      BY <1>1, HoldersFacts
    <3>2. Cardinality(Holders(p) \cup {r}) = leases[p] + 1
      BY <1>3, <3>1, FS_AddElement
    <3>3. /\ Cardinality(Holders(p) \cup {r}) <= Cardinality(Request)
          /\ Cardinality(Request) \in Nat
      BY <2>1, Count
    <3> QED
      BY <1>3, <3>1, <3>2, <3>3
<1>5. TypeOK' /\ PoolIsKeyed' /\ RequestsAreServed' /\ OwnCredentials'
  <2>1. leases' \in [Process -> 0 .. Cardinality(Request)]
    BY <1>1, <1>4, Facts
  <2>2. request' \in [Request -> RequestRecord]
    BY <1>1, RequestType DEF RequestRecord
  <2>3. ASSUME NEW s \in Request
        PROVE  Served(s)
    <3>1. request[s].pc = "waiting" <=> request[s].at \in pending'
      BY <1>1 DEF IndInv, RequestsAreServed
    <3> QED
      BY <1>1, <3>1, RequestType DEF Served
  <2> QED
    BY <1>1, <2>1, <2>2, <2>3, Facts, StructureStep DEF IndInv, TypeOK
<1>6. LeasesAreCounted'
  <2> SUFFICES ASSUME NEW q \in Process
               PROVE  leases'[q] = IF q \in pending THEN 0 ELSE Cardinality(Holders(q)')
    BY <1>1 DEF LeasesAreCounted
  <2>1. CASE q = p
    BY <1>1, <1>4, <2>1, Facts
  <2>2. CASE q # p
    BY <1>1, <1>2, <2>2, Facts, HoldersFacts
  <2> QED
    BY <2>1, <2>2
<1>7. HeldIsOpen'
  BY <1>1, <1>2, Facts DEF HeldIsOpen, IndInv
<1>8. NothingLeaks'
  <2> SUFFICES ASSUME NEW q \in 1 .. seq, process[q].state \in {"alive", "exited"}
               PROVE  pool[process[q].key] = q \/ (q \in retired /\ Holders(q)' # {})
    BY <1>1, Facts DEF NothingLeaks
  <2>1. pool[process[q].key] = q \/ (q \in retired /\ Holders(q) # {})
    BY <1>1, Facts DEF NothingLeaks, IndInv
  <2>2. Holders(q) # {} => Holders(q)' # {}
    <3>1. q \in Process /\ (q # p => Holders(q)' = Holders(q))
      BY <1>2, Facts
    <3>2. q = p => Holders(q)' # {}
      BY <1>1, <1>3
    <3> QED
      BY <3>1, <3>2
  <2> QED
    BY <2>1, <2>2
<1> QED
  BY <1>5, <1>6, <1>7, <1>8 DEF IndInv

\* What a change of the state of one process leaves.
WithState(d, st) == [process EXCEPT ![d].state = st]

LEMMA StateIs ==
    ASSUME IndInv, NEW d \in 1 .. seq, NEW st, st \in {"alive", "exited", "closed"}
    PROVE  /\ WithState(d, st) \in [1 .. seq -> Spawned]
           /\ \A q \in 1 .. seq :
                 /\ WithState(d, st)[q].key = process[q].key
                 /\ WithState(d, st)[q].hash = process[q].hash
                 /\ WithState(d, st)[q].state = IF q = d THEN st ELSE process[q].state
<1>1. process \in [1 .. seq -> Spawned]
  BY Facts
<1>2. [process[d] EXCEPT !.state = st] \in Spawned
  BY <1>1 DEF Spawned
<1> QED
  BY <1>1, <1>2 DEF Spawned, WithState

LEMMA FactoryFailsStep ==
    ASSUME IndInv, NEW p \in Process, FactoryFails(p)
    PROVE  IndInv'
<1>1. /\ p \in pending /\ p \in 1 .. seq
      /\ process' = [process EXCEPT ![p].state = "closed"] /\ pending' = pending \ {p}
      /\ request' = [r \in Request |-> IF r \in Holders(p) THEN NoRequest ELSE request[r]]
      /\ UNCHANGED <<pool, leases, retired, seq, down>>
  BY Facts DEF FactoryFails
<1>2. /\ process' \in [1 .. seq -> Spawned] /\ DOMAIN process' = 1 .. seq
      /\ \A q \in 1 .. seq :
            /\ process'[q].key = process[q].key /\ process'[q].hash = process[q].hash
            /\ process'[q].state = IF q = p THEN "closed" ELSE process[q].state
  <2>1. process' = WithState(p, "closed")
    BY <1>1 DEF WithState
  <2>2. p \in 1 .. seq /\ "closed" \in {"alive", "exited", "closed"}
    BY <1>1
  <2>3. /\ WithState(p, "closed") \in [1 .. seq -> Spawned]
        /\ \A q \in 1 .. seq :
              /\ WithState(p, "closed")[q].key = process[q].key
              /\ WithState(p, "closed")[q].hash = process[q].hash
              /\ WithState(p, "closed")[q].state = IF q = p THEN "closed" ELSE process[q].state
    BY <2>2, StateIs
  <2> QED
    BY <2>1, <2>3
<1>3. \A q \in Process \ {p} : Holders(q)' = Holders(q)
  BY <1>1, PoolAssumption DEF Holders, NoRequest, Process
<1>4. Holders(p)' = {}
  BY <1>1, PoolAssumption DEF Holders, NoRequest, Process
<1>5. TypeOK' /\ PoolIsKeyed' /\ RequestsAreServed' /\ OwnCredentials'
  <2>1. request' \in [Request -> RequestRecord]
    BY <1>1, RequestType DEF RequestRecord, NoRequest
  <2>2. ASSUME NEW s \in Request
        PROVE  Served(s)
    <3>1. request[s].pc = "waiting" <=> request[s].at \in pending
      BY DEF IndInv, RequestsAreServed
    <3> QED
      BY <1>1, <3>1 DEF Served, Holders
  <2> QED
    BY <1>1, <1>2, <2>1, <2>2, Facts, StructureStep DEF IndInv, TypeOK
<1>6. LeasesAreCounted'
  BY <1>1, <1>3, <1>4, HoldersFacts, FS_EmptySet DEF LeasesAreCounted
<1>7. HeldIsOpen'
  BY <1>1, <1>2, <1>3, <1>4, Facts DEF HeldIsOpen, IndInv
<1>8. NothingLeaks'
  BY <1>1, <1>2, <1>3, Facts DEF NothingLeaks, IndInv
<1> QED
  BY <1>5, <1>6, <1>7, <1>8 DEF IndInv
\* A step after which each request is where it was.
LEMMA SameRequests ==
    ASSUME IndInv, UNCHANGED <<request, pending>>
    PROVE  /\ request' \in [Request -> RequestRecord]
           /\ \A r \in Request : Served(r)
           /\ \A p : Holders(p)' = Holders(p)
<1>1. \A r \in Request : request[r].pc = "waiting" <=> request[r].at \in pending'
  BY DEF IndInv, RequestsAreServed
<1> QED
  BY <1>1, RequestType DEF Served, Holders

-----------------------------------------------------------------------------
(* A creation succeeds.                                                     *)

\* What the two outcomes of add have in common: whatever leaves the pool, or
\* does not enter it, is in the set that is retired.
LEMMA AddIs ==
    ASSUME IndInv, NEW p \in Process, FactoryAnswers(p)
    PROVE  \E out \in SUBSET (1 .. seq) :
              /\ Retire(out, [leases EXCEPT ![p] = LeasesOf(p)], WithState(p, "alive"))
              /\ pool' \in [Key -> Process \cup {0}]
              /\ \A x \in Key :
                    \/ pool'[x] = pool[x]
                    \/ /\ pool[x] # 0 => pool[x] \in out
                       /\ pool'[x] = 0 \/ (x = process[p].key /\ pool'[x] = p)
              /\ p \in out \/ pool'[process[p].key] = p
<1> DEFINE k == process[p].key
           held == [leases EXCEPT ![p] = LeasesOf(p)]
           older == pool[k] # 0 /\ Newer(pool[k], p)
<1>1. PICK victim \in Victims(k) :
         /\ pool' = (IF older THEN NotAdded(p) ELSE Added(p, victim)).pool
         /\ Retire((IF older THEN NotAdded(p) ELSE Added(p, victim)).out, held,
                   WithState(p, "alive"))
  BY DEF FactoryAnswers, WithState
<1>2. p \in 1 .. seq /\ p \in Process /\ k \in Key
  BY Facts DEF FactoryAnswers, Spawned
<1>3. CASE older
  <2>1. pool' = pool /\ Retire({p}, held, WithState(p, "alive"))
    BY <1>1, <1>3 DEF NotAdded
  <2>2. {p} \in SUBSET (1 .. seq) /\ pool' \in [Key -> Process \cup {0}]
    BY <1>2, <2>1, Facts
  <2> QED
    BY <2>1, <2>2
<1>4. CASE ~older
  <2> DEFINE out == victim \cup ({pool[k]} \ {0})
  <2>1. /\ pool' = [x \in Key |-> IF x = k THEN p
                                  ELSE IF pool[x] \in victim THEN 0 ELSE pool[x]]
        /\ Retire(out, held, WithState(p, "alive"))
    BY <1>1, <1>4 DEF Added
  <2>2. victim \subseteq Pooled
    BY DEF Victims
  <2>3. Pooled \subseteq 1 .. seq
    BY Facts DEF Pooled
  <2>4. out \in SUBSET (1 .. seq)
    <3>1. pool[k] # 0 => pool[k] \in 1 .. seq
      BY <1>2, Facts
    <3> QED
      BY <2>2, <2>3, <3>1
  <2>5. pool' \in [Key -> Process \cup {0}]
    BY <1>2, <2>1, Facts
  <2>6. \A x \in Key :
           \/ pool'[x] = pool[x]
           \/ /\ pool[x] # 0 => pool[x] \in out
              /\ pool'[x] = 0 \/ (x = k /\ pool'[x] = p)
    BY <2>1
  <2>7. pool'[k] = p
    BY <1>2, <2>1
  <2> QED
    BY <2>1, <2>4, <2>5, <2>6, <2>7
<1> QED
  BY <1>3, <1>4
LEMMA FactoryAnswersStep ==
    ASSUME IndInv, NEW p \in Process, FactoryAnswers(p)
    PROVE  IndInv'
<1> DEFINE n == Cardinality(Holders(p))
<1>1. /\ p \in pending /\ p \in 1 .. seq /\ pending' = pending \ {p}
      /\ leases' = [leases EXCEPT ![p] = n]
      /\ request' = [r \in Request |->
                       IF r \in Holders(p) THEN [request[r] EXCEPT !.pc = "using"]
                       ELSE request[r]]
      /\ UNCHANGED <<seq, down>>
  BY Facts DEF FactoryAnswers, LeasesOf
<1>2. PICK out \in SUBSET (1 .. seq) :
         /\ Retire(out, leases', WithState(p, "alive"))
         /\ pool' \in [Key -> Process \cup {0}]
         /\ \A x \in Key :
               \/ pool'[x] = pool[x]
               \/ /\ pool[x] # 0 => pool[x] \in out
                  /\ pool'[x] = 0 \/ (x = process[p].key /\ pool'[x] = p)
         /\ p \in out \/ pool'[process[p].key] = p
  BY <1>1, AddIs DEF LeasesOf
<1>3. /\ n \in Nat /\ n <= Cardinality(Request) /\ (n = 0 <=> Holders(p) = {})
      /\ n \in 0 .. Cardinality(Request)
  BY HoldersFacts, PoolAssumption, FS_CardinalityType
<1>4. \A q \in Process : /\ leases'[q] = IF q = p THEN n ELSE leases[q]
                         /\ leases[q] \in Nat
  BY <1>1, Facts
<1>5. leases' \in [Process -> 0 .. Cardinality(Request)]
  BY <1>1, <1>3, Facts
<1>6. /\ process' \in [1 .. seq -> Spawned] /\ DOMAIN process' = 1 .. seq
      /\ \A q \in 1 .. seq :
            /\ process'[q].key = process[q].key /\ process'[q].hash = process[q].hash
            /\ process'[q].state =
                  LET state == IF q = p THEN "alive" ELSE process[q].state IN
                  IF q \in out /\ leases'[q] = 0 /\ state \in {"alive", "exited"}
                  THEN "closing" ELSE state
  <2> DEFINE gone == {q \in out : leases'[q] = 0}  proc == WithState(p, "alive")
  <2>1. /\ proc \in [1 .. seq -> Spawned]
        /\ \A q \in 1 .. seq :
              /\ proc[q].key = process[q].key /\ proc[q].hash = process[q].hash
              /\ proc[q].state = IF q = p THEN "alive" ELSE process[q].state
    BY <1>1, StateIs
  <2>2. process' = Closed(proc, gone, "closing")
    BY <1>2 DEF Retire
  <2>3. \A q : q \in gone <=> q \in out /\ leases'[q] = 0
    OBVIOUS
  <2> HIDE DEF gone, proc
  <2>4. /\ process' \in [1 .. seq -> Spawned]
        /\ \A q \in 1 .. seq :
              /\ process'[q].key = proc[q].key /\ process'[q].hash = proc[q].hash
              /\ process'[q].state =
                    IF q \in gone /\ proc[q].state \in {"alive", "exited"} THEN "closing"
                    ELSE proc[q].state
    <3> DEFINE D == 1 .. seq
    <3>0. proc \in [D -> Spawned]
      BY <2>1
    <3> HIDE DEF D
    <3>1. /\ Closed(proc, gone, "closing") \in [D -> Spawned]
          /\ \A q \in D :
                /\ Closed(proc, gone, "closing")[q].key = proc[q].key
                /\ Closed(proc, gone, "closing")[q].hash = proc[q].hash
                /\ Closed(proc, gone, "closing")[q].state =
                      IF q \in gone /\ proc[q].state \in {"alive", "exited"} THEN "closing"
                      ELSE proc[q].state
      BY <3>0, ClosedIs
    <3> QED
      BY <2>2, <3>1 DEF D
  <2> QED
    BY <2>1, <2>3, <2>4
<1>7. retired' = retired \cup {q \in out : leases'[q] > 0}
  BY <1>2 DEF Retire
<1>8. \A q : Holders(q)' = Holders(q)
  <2>1. \A r \in Request : request'[r].at = request[r].at /\ request'[r].hash = request[r].hash
    BY <1>1, RequestType DEF RequestRecord
  <2> QED
    BY <2>1 DEF Holders
<1>9. TypeOK' /\ PoolIsKeyed' /\ RequestsAreServed' /\ OwnCredentials'
  <2>1. request' \in [Request -> RequestRecord]
    BY <1>1, RequestType DEF RequestRecord
  <2>2. ASSUME NEW s \in Request
        PROVE  Served(s)
    <3>1. request[s].pc = "waiting" <=> request[s].at \in pending
      BY DEF IndInv, RequestsAreServed
    <3>2. /\ request'[s].at = request[s].at /\ request'[s].hash = request[s].hash
          /\ request'[s].pc = IF request[s].at = p THEN "using" ELSE request[s].pc
      BY <1>1, RequestType DEF RequestRecord, Holders
    <3>3. request'[s].pc = "idle" <=> request[s].pc = "idle"
      BY <1>1, <3>1, <3>2
    <3>4. request'[s].pc = "waiting" <=> request[s].at \in pending'
      BY <1>1, <3>1, <3>2
    <3> QED
      BY <3>2, <3>3, <3>4 DEF Served
  <2>3. ASSUME NEW x \in Key, pool'[x] # 0
        PROVE  /\ pool'[x] \in 1 .. seq /\ process[pool'[x]].key = x
               /\ pool'[x] \notin pending'
    BY <1>1, <1>2, <2>3, Facts
  <2>4. ASSUME NEW q \in 1 .. seq
        PROVE  q \in pending' <=> process'[q].state = "starting"
    BY <1>1, <1>6, Facts
  <2>5. retired' \subseteq 1 .. seq /\ pending' \subseteq pending
    BY <1>1, <1>2, <1>7, Facts
  <2>6. down' \in {"up", "closing", "settling", "gone"} /\ UNCHANGED seq
    BY <1>1 DEF IndInv, TypeOK
  <2> QED
    BY <1>2, <1>5, <1>6, <2>1, <2>2, <2>3, <2>4, <2>5, <2>6, StructureStep
<1>10. CASE down = "up"
  <2>1. ASSUME NEW q \in Process
        PROVE  leases'[q] = IF q \in pending' THEN 0 ELSE Cardinality(Holders(q))
    BY <1>1, <1>4, <1>10, HoldersFacts
  <2>2. LeasesAreCounted'
    BY <1>1, <1>8, <1>10, <2>1 DEF LeasesAreCounted
  <2>3. \A q \in 1 .. seq : q \notin pending' => (leases'[q] = 0 <=> Holders(q) = {})
    BY <2>1, HoldersFacts, Facts
  <2>4. HeldIsOpen'
    <3> SUFFICES ASSUME NEW q \in 1 .. seq, Holders(q) # {}
                 PROVE  process'[q].state \in {"starting", "alive", "exited"}
      BY <1>6, <1>8 DEF HeldIsOpen
    <3>1. process[q].state \in {"starting", "alive", "exited"}
      BY <1>10, Facts DEF IndInv, HeldIsOpen
    <3>2. CASE q \in pending'
      BY <1>6, <3>1, <3>2, <1>1, Facts
    <3>3. CASE q \notin pending'
      BY <1>6, <2>3, <3>1, <3>3
    <3> QED
      BY <3>2, <3>3
  <2>5. NothingLeaks'
    <3> SUFFICES ASSUME NEW q \in 1 .. seq, process'[q].state \in {"alive", "exited"}
                 PROVE  \/ pool'[process[q].key] = q
                        \/ q \in retired' /\ Holders(q) # {}
      BY <1>6, <1>8 DEF NothingLeaks
    <3>1. q \notin pending' /\ leases'[q] \in Nat
      BY <1>6, <1>1, <1>5, Facts
    <3>2. q \in out => q \in retired' /\ Holders(q) # {}
      BY <1>6, <1>7, <2>3, <3>1
    <3>3. CASE q = p
      BY <1>2, <3>2, <3>3
    <3>4. CASE q # p
      <4>1. process[q].state \in {"alive", "exited"} /\ process[q].key \in Key
        BY <1>6, <3>4, Facts DEF Spawned
      <4>2. \/ pool[process[q].key] = q
            \/ q \in retired /\ Holders(q) # {}
        BY <1>10, <4>1, Facts DEF IndInv, NothingLeaks
      <4>3. q \in retired => q \in retired'
        BY <1>7
      <4>4. q # 0
        BY Facts
      <4> QED
        BY <1>2, <3>2, <4>1, <4>2, <4>3, <4>4
    <3> QED
      BY <3>3, <3>4
  <2> QED
    BY <1>9, <2>2, <2>4, <2>5 DEF IndInv
<1>11. CASE down # "up"
  BY <1>1, <1>9, <1>11, DownStep
<1> QED
  BY <1>10, <1>11
-----------------------------------------------------------------------------
(* A request ends; a process exits or is closed; the wrapper shuts down.    *)

LEMMA ReleaseStep ==
    ASSUME IndInv, NEW r \in Request, Release(r)
    PROVE  IndInv'
<1> DEFINE p == request[r].at
           last == leases[p] <= 1
<1>1. /\ request[r].pc = "done"
      /\ leases' = [leases EXCEPT ![p] = IF last THEN 0 ELSE leases[p] - 1]
      /\ request' = [request EXCEPT ![r] = NoRequest]
      /\ UNCHANGED <<pool, pending, seq, down>>
      /\ \/ /\ last /\ p \in retired /\ retired' = retired \ {p}
            /\ process' = Closed(process, {p}, "closing")
         \/ ~(last /\ p \in retired) /\ UNCHANGED <<retired, process>>
  BY DEF Release
<1>2. p \in 1 .. seq /\ p \in Process /\ p \notin pending
  <2>1. request[r].pc = "waiting" <=> p \in pending
    BY DEF IndInv, RequestsAreServed
  <2>2. request[r].pc = "idle" <=> p = 0
    BY DEF IndInv, RequestsAreServed
  <2> QED
    BY <1>1, <2>1, <2>2, Facts
<1>3. /\ process' \in [1 .. seq -> Spawned] /\ DOMAIN process' = 1 .. seq
      /\ \A q \in 1 .. seq :
            /\ process'[q].key = process[q].key /\ process'[q].hash = process[q].hash
            /\ process'[q].state =
                  IF q = p /\ last /\ p \in retired /\ process[q].state \in {"alive", "exited"}
                  THEN "closing" ELSE process[q].state
  <2>1. CASE last /\ p \in retired
    <3>1. process' = Closed(process, {p}, "closing") /\ process \in [1 .. seq -> Spawned]
      BY <1>1, <2>1, Facts
    <3>2. /\ process' \in [1 .. seq -> Spawned]
          /\ \A q \in 1 .. seq :
                /\ process'[q].key = process[q].key /\ process'[q].hash = process[q].hash
                /\ process'[q].state =
                      IF q \in {p} /\ process[q].state \in {"alive", "exited"}
                      THEN "closing" ELSE process[q].state
      <4> DEFINE gone == {p}
                 D == 1 .. seq
      <4>0. process \in [D -> Spawned]
        BY <3>1
      <4> HIDE DEF gone, D
      <4>1. /\ Closed(process, gone, "closing") \in [D -> Spawned]
            /\ \A q \in D :
                  /\ Closed(process, gone, "closing")[q].key = process[q].key
                  /\ Closed(process, gone, "closing")[q].hash = process[q].hash
                  /\ Closed(process, gone, "closing")[q].state =
                        IF q \in gone /\ process[q].state \in {"alive", "exited"}
                        THEN "closing" ELSE process[q].state
        BY <4>0, ClosedIs
      <4> QED
        BY <3>1, <4>1 DEF gone, D
    <3> HIDE DEF last, p
    <3> QED
      BY <2>1, <3>2
  <2>2. CASE ~(last /\ p \in retired)
    BY <1>1, <2>2, Facts
  <2> QED
    BY <2>1, <2>2
<1>4. retired' \subseteq retired /\ (~(last /\ p \in retired) => retired' = retired)
      /\ retired \ {p} \subseteq retired'
  BY <1>1
<1>5. \A q \in Process \ {p} : Holders(q)' = Holders(q) /\ leases'[q] = leases[q]
  <2>1. \A s \in Request : request'[s].at = IF s = r THEN 0 ELSE request[s].at
    BY <1>1, RequestType DEF NoRequest
  <2>2. \A q \in Process : q # 0
    BY PoolAssumption DEF Process
  <2> QED
    BY <1>1, <2>1, <2>2, Facts DEF Holders
<1>6. {s \in Request : request'[s].at = p} = Holders(p) \ {r} /\ r \in Holders(p)
  <2>1. \A s \in Request : request'[s].at = IF s = r THEN 0 ELSE request[s].at
    BY <1>1, RequestType DEF NoRequest
  <2>2. p # 0
    BY <1>2, PoolAssumption DEF Process
  <2> QED
    BY <2>1, <2>2 DEF Holders
<1> DEFINE left == Holders(p) \ {r}
<1>7. leases[p] \in Nat /\ leases[p] <= Cardinality(Request) /\ Cardinality(Request) \in Nat
  BY <1>2, Facts, PoolAssumption, FS_CardinalityType
<1>8. leases' \in [Process -> 0 .. Cardinality(Request)]
      /\ leases'[p] = IF last THEN 0 ELSE leases[p] - 1
  BY <1>1, <1>2, <1>7, Facts
<1>9. TypeOK' /\ PoolIsKeyed' /\ RequestsAreServed' /\ OwnCredentials'
  <2>1. request' \in [Request -> RequestRecord]
    BY <1>1, RequestType DEF RequestRecord, NoRequest
  <2>2. ASSUME NEW s \in Request
        PROVE  Served(s)
    <3>1. CASE s = r
      BY <1>1, <3>1, RequestType DEF Served
    <3>2. CASE s # r
      <4>1. request[s].pc = "waiting" <=> request[s].at \in pending'
        BY <1>1 DEF IndInv, RequestsAreServed
      <4> QED
        BY <1>1, <3>2, <4>1, RequestType DEF Served
    <3> QED
      BY <3>1, <3>2
  <2>3. \A x \in Key : pool'[x] # 0 =>
           /\ pool'[x] \in 1 .. seq /\ process[pool'[x]].key = x
           /\ pool'[x] \notin pending'
    BY <1>1, Facts
  <2>4. \A q \in 1 .. seq : q \in pending' <=> process'[q].state = "starting"
    BY <1>1, <1>3, Facts
  <2>5. retired' \subseteq 1 .. seq /\ pending' \subseteq pending
    BY <1>1, <1>4, Facts
  <2>6. /\ down' \in {"up", "closing", "settling", "gone"} /\ UNCHANGED seq
        /\ pool' \in [Key -> Process \cup {0}]
    BY <1>1 DEF IndInv, TypeOK
  <2> QED
    BY <1>3, <1>8, <2>1, <2>2, <2>3, <2>4, <2>5, <2>6, StructureStep
<1>10. CASE down = "up"
  <2>1. /\ Cardinality(left) = leases[p] - 1 /\ leases[p] >= 1
        /\ leases'[p] = Cardinality(left) /\ (last => left = {})
    <3>1. IsFiniteSet(Holders(p)) /\ leases[p] = Cardinality(Holders(p))
      BY <1>2, <1>10, HoldersFacts
    <3>2. Cardinality(left) = leases[p] - 1
      <4>1. Cardinality(Holders(p) \ {r}) = Cardinality(Holders(p)) - 1
        BY <1>6, <3>1, FS_RemoveElement
      <4> QED
        BY <3>1, <4>1
    <3>3. Cardinality(left) \in Nat /\ (Cardinality(left) = 0 <=> left = {})
      <4>1. left \in SUBSET Request
        BY DEF Holders
      <4> HIDE DEF left
      <4> QED
        BY <4>1, Count
    <3> QED
      BY <1>7, <1>8, <3>2, <3>3
  <2>2. LeasesAreCounted'
    <3> SUFFICES ASSUME NEW q \in Process
                 PROVE  leases'[q] = IF q \in pending THEN 0 ELSE Cardinality(Holders(q)')
      BY <1>1 DEF LeasesAreCounted
    <3>1. CASE q = p
      BY <1>2, <1>6, <2>1, <3>1 DEF Holders
    <3>2. CASE q # p
      BY <1>5, <1>10, <3>2, HoldersFacts
    <3> QED
      BY <3>1, <3>2
  <2>3. HeldIsOpen'
    <3> SUFFICES ASSUME NEW q \in 1 .. seq, {s \in Request : request'[s].at = q} # {}
                 PROVE  process'[q].state \in {"starting", "alive", "exited"}
      BY <1>3 DEF HeldIsOpen, Holders
    <3>1. q \in Process
      BY Facts
    <3>2. CASE q = p
      <4>1. ~last /\ Holders(p) # {}
        BY <1>6, <2>1, <3>2
      <4>2. process[p].state \in {"starting", "alive", "exited"}
        BY <1>2, <1>10, <4>1, Facts DEF IndInv, HeldIsOpen
      <4> QED
        BY <1>3, <3>2, <4>1, <4>2
    <3>3. CASE q # p
      <4>1. Holders(q) # {}
        BY <1>5, <3>1, <3>3 DEF Holders
      <4>2. process[q].state \in {"starting", "alive", "exited"}
        BY <1>10, <4>1, Facts DEF IndInv, HeldIsOpen
      <4> QED
        BY <1>3, <3>3, <4>2
    <3> QED
      BY <3>2, <3>3
  <2>4. NothingLeaks'
    <3> SUFFICES ASSUME NEW q \in 1 .. seq, process'[q].state \in {"alive", "exited"}
                 PROVE  \/ pool[process[q].key] = q
                        \/ q \in retired' /\ {s \in Request : request'[s].at = q} # {}
      BY <1>1, <1>3 DEF NothingLeaks, Holders
    <3>1. process[q].state \in {"alive", "exited"} /\ q \in Process
      BY <1>3, Facts
    <3>2. \/ pool[process[q].key] = q
          \/ q \in retired /\ Holders(q) # {}
      BY <1>10, <3>1, Facts DEF IndInv, NothingLeaks
    <3>3. CASE q = p /\ q \in retired
      <4>1. ~last
        BY <1>3, <3>1, <3>3
      <4>2. left # {}
        <5>1. leases[p] - 1 # 0
          BY <1>7, <4>1
        <5> QED
          BY <2>1, <5>1, FS_EmptySet
      <4> QED
        BY <1>4, <1>6, <3>3, <4>1, <4>2
    <3>4. CASE q # p
      BY <1>4, <1>5, <3>1, <3>2, <3>4 DEF Holders
    <3> QED
      BY <3>2, <3>3, <3>4
  <2> QED
    BY <1>9, <2>2, <2>3, <2>4 DEF IndInv
<1>11. CASE down # "up"
  BY <1>1, <1>9, <1>11, DownStep
<1> QED
  BY <1>10, <1>11
\* The processes change state, the rest of the pool's state does not.
LEMMA ProcessStep ==
    ASSUME IndInv, NEW d \in 1 .. seq, NEW st,
           \/ st = "exited" /\ process[d].state = "alive"
           \/ st = "closed" /\ process[d].state \in {"closing", "stopping"},
           process' = WithState(d, st),
           UNCHANGED <<pool, pending, leases, retired, seq, request, down>>
    PROVE  IndInv'
<1>1. /\ process' \in [1 .. seq -> Spawned] /\ DOMAIN process' = 1 .. seq
      /\ \A q \in 1 .. seq :
            /\ process'[q].key = process[q].key /\ process'[q].hash = process[q].hash
            /\ process'[q].state = IF q = d THEN st ELSE process[q].state
  <2>1. st \in {"alive", "exited", "closed"}
    OBVIOUS
  <2>2. /\ WithState(d, st) \in [1 .. seq -> Spawned]
        /\ \A q \in 1 .. seq :
              /\ WithState(d, st)[q].key = process[q].key
              /\ WithState(d, st)[q].hash = process[q].hash
              /\ WithState(d, st)[q].state = IF q = d THEN st ELSE process[q].state
    BY <2>1, StateIs
  <2> QED
    BY <2>2
<1>2. /\ request' \in [Request -> RequestRecord] /\ \A r \in Request : Served(r)
      /\ \A p : Holders(p)' = Holders(p)
  BY SameRequests
<1>3. TypeOK' /\ PoolIsKeyed' /\ RequestsAreServed' /\ OwnCredentials'
  <2>1. \A x \in Key : pool'[x] # 0 =>
           /\ pool'[x] \in 1 .. seq /\ process[pool'[x]].key = x
           /\ pool'[x] \notin pending'
    BY Facts
  <2>2. \A q \in 1 .. seq : q \in pending' <=> process'[q].state = "starting"
    BY <1>1, Facts
  <2>3. /\ pool' \in [Key -> Process \cup {0}] /\ retired' \subseteq 1 .. seq
        /\ leases' \in [Process -> 0 .. Cardinality(Request)]
        /\ pending' \subseteq pending /\ UNCHANGED seq
        /\ down' \in {"up", "closing", "settling", "gone"}
    BY Facts DEF IndInv, TypeOK
  <2> QED
    BY <1>1, <1>2, <2>1, <2>2, <2>3, StructureStep
<1>4. LeasesAreCounted'
  BY <1>2 DEF IndInv, LeasesAreCounted
<1>5. HeldIsOpen'
  <2> SUFFICES ASSUME down = "up", NEW q \in 1 .. seq, Holders(q) # {}
               PROVE  process'[q].state \in {"starting", "alive", "exited"}
    BY <1>1, <1>2 DEF HeldIsOpen
  <2>1. process[q].state \in {"starting", "alive", "exited"}
    BY Facts DEF IndInv, HeldIsOpen
  <2> QED
    BY <1>1, <2>1
<1>6. NothingLeaks'
  <2> SUFFICES ASSUME down = "up", NEW q \in 1 .. seq, process'[q].state \in {"alive", "exited"}
               PROVE  \/ pool[process[q].key] = q
                      \/ q \in retired /\ Holders(q) # {}
    BY <1>1, <1>2 DEF NothingLeaks
  <2>1. process[q].state \in {"alive", "exited"}
    BY <1>1
  <2> QED
    BY <2>1, Facts DEF IndInv, NothingLeaks
<1> QED
  BY <1>3, <1>4, <1>5, <1>6 DEF IndInv

LEMMA ExitsCloseEndsSteps ==
    ASSUME IndInv, NEW p \in Process, Exits(p) \/ CloseEnds(p)
    PROVE  IndInv'
<1>1. p \in 1 .. seq /\ UNCHANGED <<pool, pending, leases, retired, seq, request, down>>
  BY Facts DEF Exits, CloseEnds
<1>2. CASE Exits(p)
  <2>1. process' = WithState(p, "exited") /\ process[p].state = "alive"
    BY <1>2 DEF Exits, WithState, Alive
  <2> QED
    BY <1>1, <2>1, ProcessStep
<1>3. CASE CloseEnds(p)
  <2>1. process' = WithState(p, "closed") /\ process[p].state \in {"closing", "stopping"}
    BY <1>3 DEF CloseEnds, WithState
  <2> QED
    BY <1>1, <2>1, ProcessStep
<1> QED
  BY <1>2, <1>3

LEMMA ShutdownSteps ==
    ASSUME IndInv, Shutdown \/ Clear \/ Exit
    PROVE  IndInv'
<1>1. /\ UNCHANGED <<pending, seq, request>>
      /\ down' \in {"up", "closing", "settling", "gone"} /\ down' # "up"
  BY DEF Shutdown, Clear, Exit
<1>2. pool' \in [Key -> Process \cup {0}] /\ \A k \in Key : pool'[k] \in {0, pool[k]}
  BY Facts DEF Shutdown, Clear, Exit
<1>3. /\ retired' \subseteq 1 .. seq
      /\ leases' \in [Process -> 0 .. Cardinality(Request)]
  BY Facts, PoolAssumption, FS_CardinalityType DEF Shutdown, Clear, Exit
<1>4. \E P : process' \in {process, Closed(process, P, "stopping")}
  BY DEF Shutdown, Clear, Exit
<1>5. /\ process' \in [1 .. seq -> Spawned]
      /\ \A q \in 1 .. seq :
            /\ process'[q].key = process[q].key /\ process'[q].hash = process[q].hash
            /\ process'[q].state = "starting" <=> process[q].state = "starting"
  <2> DEFINE D == 1 .. seq
  <2>1. process \in [D -> Spawned]
    BY Facts
  <2>2. PICK P : process' \in {process, Closed(process, P, "stopping")}
    BY <1>4
  <2> HIDE DEF D
  <2>3. /\ Closed(process, P, "stopping") \in [D -> Spawned]
        /\ \A q \in D :
              /\ Closed(process, P, "stopping")[q].key = process[q].key
              /\ Closed(process, P, "stopping")[q].hash = process[q].hash
              /\ Closed(process, P, "stopping")[q].state =
                    IF q \in P /\ process[q].state \in {"alive", "exited"} THEN "stopping"
                    ELSE process[q].state
    BY <2>1, ClosedIs
  <2>4. CASE process' = process
    BY <2>1, <2>4 DEF D
  <2>5. CASE process' = Closed(process, P, "stopping")
    BY <2>3, <2>5 DEF D
  <2> QED
    BY <2>2, <2>4, <2>5
<1>6. request' \in [Request -> RequestRecord] /\ \A r \in Request : Served(r)
  BY <1>1, SameRequests
<1>7. \A q \in 1 .. seq : q \in pending' <=> process'[q].state = "starting"
  BY <1>1, <1>5, Facts
<1>8. \A x \in Key : pool'[x] # 0 =>
         /\ pool'[x] \in 1 .. seq /\ process[pool'[x]].key = x
         /\ pool'[x] \notin pending'
  BY <1>1, <1>2, Facts
<1>9. TypeOK' /\ PoolIsKeyed' /\ RequestsAreServed' /\ OwnCredentials'
  BY <1>1, <1>2, <1>3, <1>5, <1>6, <1>7, <1>8, StructureStep
<1> QED
  BY <1>1, <1>9, DownStep

-----------------------------------------------------------------------------
(* The theorems.                                                            *)

LEMMA InitInv == Init => IndInv
<1> SUFFICES ASSUME Init PROVE IndInv
  OBVIOUS
<1>1. Cardinality(Request) \in Nat /\ MaxCreations \in Nat
  BY PoolAssumption, FS_CardinalityType
<1>2. process = <<>> /\ DOMAIN process = {} /\ 1 .. seq = {} /\ seq = 0
  BY DEF Init
<1>3. TypeOK
  BY <1>1, <1>2 DEF Init, TypeOK, NoRequest, Process
<1>4. PoolIsKeyed /\ HeldIsOpen /\ NothingLeaks
  BY <1>2 DEF Init, PoolIsKeyed, Pooled, HeldIsOpen, NothingLeaks
<1>5. RequestsAreServed /\ OwnCredentials
  BY <1>2 DEF Init, RequestsAreServed, OwnCredentials, NoRequest
<1>6. LeasesAreCounted
  <2> SUFFICES ASSUME NEW p \in Process
               PROVE  leases[p] = IF p \in pending THEN 0 ELSE Cardinality(Holders(p))
    BY DEF LeasesAreCounted
  <2>1. Holders(p) = {}
    BY PoolAssumption DEF Init, Holders, NoRequest, Process
  <2> QED
    BY <2>1, FS_EmptySet DEF Init
<1> QED
  BY <1>3, <1>4, <1>5, <1>6 DEF IndInv

LEMMA StepInv == IndInv /\ [Next]_vars => IndInv'
<1> SUFFICES ASSUME IndInv, [Next]_vars PROVE IndInv'
  OBVIOUS
<1>1. ASSUME NEW r \in Request, RequestStep(r)
      PROVE  IndInv'
  <2>1. CASE \E k \in Key, h \in Credentials : Reuse(r, k, h) \/ Join(r, k, h) \/ Create(r, k, h)
    BY <2>1, ReuseStep, JoinStep, CreateStep
  <2>2. CASE Answered(r) \/ Failed(r)
    BY <2>2, AnsweredFailedSteps
  <2>3. CASE Release(r)
    BY <2>3, ReleaseStep
  <2> QED
    BY <1>1, <2>1, <2>2, <2>3 DEF RequestStep
<1>2. ASSUME NEW p \in Process,
             FactoryFails(p) \/ FactoryAnswers(p) \/ Exits(p) \/ CloseEnds(p)
      PROVE  IndInv'
  BY <1>2, FactoryFailsStep, FactoryAnswersStep, ExitsCloseEndsSteps
<1>3. CASE Cleanup
  BY <1>3, CleanupStep
<1>4. CASE Shutdown \/ Clear \/ Exit
  BY <1>4, ShutdownSteps
<1>5. CASE UNCHANGED vars
  BY <1>5 DEF vars, IndInv, TypeOK, PoolIsKeyed, Pooled, RequestsAreServed, LeasesAreCounted,
              HeldIsOpen, NothingLeaks, OwnCredentials, Holders
<1> QED
  BY <1>1, <1>2, <1>3, <1>4, <1>5 DEF Next

(***************************************************************************)
(* The pool's entries, its leases, its retired processes and the requests  *)
(* on them always fit (process-pool.ts): among others, until a shutdown    *)
(* takes the leases back, a process has one lease per request that uses it.*)
(***************************************************************************)
THEOREM InvHolds == Spec => []IndInv
BY InitInv, StepInv, PTL DEF Spec

(***************************************************************************)
(* A request never sees its process closed, whatever replaces, evicts,     *)
(* reaps or fails beside it (retire and release), unless the wrapper shuts *)
(* down.                                                                   *)
(***************************************************************************)
THEOREM LeasedIsOpenHolds == Spec => []LeasedIsOpen
<1>1. IndInv => LeasedIsOpen
  <2> SUFFICES ASSUME IndInv, down = "up", NEW r \in Request, request[r].pc = "using"
               PROVE  process[request[r].at].state \in {"alive", "exited"}
    BY DEF LeasedIsOpen
  <2> DEFINE p == request[r].at
  <2>1. request[r].pc = "waiting" <=> p \in pending
    BY DEF IndInv, RequestsAreServed
  <2>2. request[r].pc = "idle" <=> p = 0
    BY DEF IndInv, RequestsAreServed
  <2>3. p \in 1 .. seq /\ p \notin pending
    BY <2>1, <2>2, Facts
  <2>4. r \in Holders(p)
    BY DEF Holders
  <2>5. process[p].state \in {"starting", "alive", "exited"}
    BY <2>3, <2>4, Facts DEF IndInv, HeldIsOpen
  <2> QED
    BY <2>3, <2>5, Facts
<1> QED
  BY <1>1, InvHolds, PTL

(***************************************************************************)
(* A process that runs is in the pool or has a request that will give its  *)
(* last lease back: none is left to run for nobody (add, get and cleanup). *)
(***************************************************************************)
THEOREM NothingLeaksHolds == Spec => []NothingLeaks
<1>1. IndInv => NothingLeaks
  BY DEF IndInv
<1> QED
  BY <1>1, InvHolds, PTL

(***************************************************************************)
(* No request is served by a process that was started with the credentials *)
(* of another (getOrCreate), through a rotation or not.                    *)
(***************************************************************************)
THEOREM OwnCredentialsHolds == Spec => []OwnCredentials
<1>1. IndInv => OwnCredentials
  BY DEF IndInv
<1> QED
  BY <1>1, InvHolds, PTL
=============================================================================
