------------------------------ MODULE ProcessPool ------------------------------
(***************************************************************************)
(* The pool of child processes of the MCP STDIO wrapper: one per key (a    *)
(* user, an organization and a configuration), shared by the requests that *)
(* carry the same credentials, replaced when the credentials change,       *)
(* evicted at capacity, reaped when idle.                                  *)
(*                                                                         *)
(* The code is single-threaded: a step is what runs between two awaits.    *)
(* Requests, the creations they start, the closes that run in the          *)
(* background, the cleanup timer and the shutdown interleave at the awaits.*)
(*                                                                         *)
(* A process is its creationSeq.  The clock is left out: any other entry   *)
(* may be the least recently used, and none is when every entry was used   *)
(* in the current millisecond or the clock was set back.                   *)
(***************************************************************************)
EXTENDS Integers, Sequences, FiniteSets

CONSTANTS
    Key,          \* pool keys
    Credentials,  \* their hashes, numbered by freshness
    Request,      \* requests being served at a time
    MaxProcesses, \* maxProcesses
    MaxCreations  \* bound: creations started

ASSUME PoolAssumption ==
    /\ Credentials \subseteq Nat \ {0}
    /\ MaxProcesses \in Nat \ {0} /\ MaxCreations \in Nat
    /\ IsFiniteSet(Request)

VARIABLES
    pool,     \* processes: the process of each key, or 0
    process,  \* what each process was created with, and what became of it
    pending,  \* pendingCreations
    leases,   \* leases
    retired,  \* retired
    seq,      \* nextCreationSeq: creations started
    request,  \* what each request is doing
    down      \* how far the shutdown is

vars == <<pool, process, pending, leases, retired, seq, request, down>>

Process == 1 .. MaxCreations

(* credentialsVersion is 0 when the caller sends none. *)
Spawned == [key : Key, hash : Credentials, version : Credentials \cup {0},
            state : {"starting", "alive", "exited", "closing", "stopping", "closed"}]

NoRequest == [pc |-> "idle", at |-> 0, hash |-> 0]

TypeOK ==
    /\ pool \in [Key -> Process \cup {0}]
    /\ seq \in 0 .. MaxCreations
    /\ process \in [1 .. seq -> Spawned]
    /\ pending \subseteq 1 .. seq
    /\ leases \in [Process -> 0 .. Cardinality(Request)]
    /\ retired \subseteq 1 .. seq
    /\ request \in [Request -> [pc : {"idle", "waiting", "using", "done"},
                                at : Process \cup {0}, hash : Credentials \cup {0}]]
    /\ down \in {"up", "closing", "settling", "gone"}

Init ==
    /\ pool = [k \in Key |-> 0]
    /\ process = <<>>
    /\ pending = {}
    /\ leases = [p \in Process |-> 0]
    /\ retired = {}
    /\ seq = 0
    /\ request = [r \in Request |-> NoRequest]
    /\ down = "up"

Pooled == {pool[k] : k \in Key} \ {0}

Alive(p) == process[p].state = "alive"

(* Requests that hold a process, or wait for its creation. *)
Holders(p) == {r \in Request : request[r].at = p}

(* closeInBackground, for those of P that no request holds; retired, the rest. *)
Closed(proc, P, state) ==
    [p \in DOMAIN proc |->
        IF p \in P /\ proc[p].state \in {"alive", "exited"}
        THEN [proc[p] EXCEPT !.state = state] ELSE proc[p]]

Retire(P, held, proc) ==
    /\ retired' = retired \cup {p \in P : held[p] > 0}
    /\ process' = Closed(proc, {p \in P : held[p] = 0}, "closing")

-----------------------------------------------------------------------------
(* getOrCreate, up to its first await.  A dead process is taken out. *)

(* Mutant: a creation is joined whatever credentials it runs with. *)
JoinableByKey(k, h) == {p \in pending : process[p].key = k}

Joinable(k, h) == {p \in pending : process[p].key = k /\ process[p].hash = h}

Hold(r, pc, p, h) == request' = [request EXCEPT ![r] = [pc |-> pc, at |-> p, hash |-> h]]

Dead(k) == pool[k] # 0 /\ ~Alive(pool[k])

Reusable(k, h) ==
    pool[k] # 0 /\ Alive(pool[k]) /\ process[pool[k]].hash = h

(* A healthy process with the request's credentials is leased. *)
Reuse(r, k, h) ==
    /\ request[r].pc = "idle" /\ down = "up" /\ Reusable(k, h)
    /\ leases' = [leases EXCEPT ![pool[k]] = @ + 1]
    /\ Hold(r, "using", pool[k], h)
    /\ UNCHANGED <<pool, process, pending, retired, seq, down>>

(* get: a dead process is taken out of the pool. *)
Unpooled(k) == IF Dead(k) THEN {pool[k]} ELSE {}

(* A creation with these credentials is joined; it cannot have its process *)
(* yet, as the entry goes in the step that sets it.                        *)
Join(r, k, h) ==
    /\ request[r].pc = "idle" /\ down = "up" /\ ~Reusable(k, h)
    /\ \E p \in Joinable(k, h) : Hold(r, "waiting", p, h)
    /\ pool' = IF Dead(k) THEN [pool EXCEPT ![k] = 0] ELSE pool
    /\ Retire(Unpooled(k), leases, process)
    /\ UNCHANGED <<pending, leases, seq, down>>

Create(r, k, h) ==
    /\ request[r].pc = "idle" /\ down = "up" /\ ~Reusable(k, h)
    /\ Joinable(k, h) = {} /\ seq < MaxCreations
    /\ seq' = seq + 1
    /\ \E v \in {0, h} :
          Retire(Unpooled(k), leases,
                 Append(process, [key |-> k, hash |-> h, version |-> v, state |-> "starting"]))
    /\ pool' = IF Dead(k) THEN [pool EXCEPT ![k] = 0] ELSE pool
    /\ pending' = pending \cup {seq + 1}
    /\ Hold(r, "waiting", seq + 1, h)
    /\ UNCHANGED <<leases, down>>

-----------------------------------------------------------------------------
(* A creation ends. *)

(* The factory closed what it had started; every request on it fails. *)
FactoryFails(p) ==
    /\ p \in pending /\ down # "gone"
    /\ process' = [process EXCEPT ![p].state = "closed"]
    /\ pending' = pending \ {p}
    /\ request' = [r \in Request |-> IF r \in Holders(p) THEN NoRequest ELSE request[r]]
    /\ UNCHANGED <<pool, leases, retired, seq, down>>

(* add: is the process that the key holds the newer one? *)
Newer(e, p) ==
    LET ve == process[e].version  vp == process[p].version IN
    IF ve # 0 /\ vp # 0 /\ ve # vp THEN vp < ve ELSE e > p

(* add's two outcomes: the processes the pool has then, those that it retires. *)
Added(p, victim) ==
    LET k == process[p].key IN
    [pool |-> [x \in Key |-> IF x = k THEN p
                             ELSE IF pool[x] \in victim THEN 0 ELSE pool[x]],
     out  |-> victim \cup ({pool[k]} \ {0})]

(* Mutant: a process that is not pooled is left to its requests. *)
NotAddedNorRetired(p) == [pool |-> pool, out |-> {}]

NotAdded(p) == [pool |-> pool, out |-> {p}]

(* The least recently used entry of another key, when the pool is full. *)
Victims(k) ==
    LET others == Pooled \ {pool[k]} IN
    IF Cardinality(others) < MaxProcesses THEN {{}}
    ELSE {{}} \cup {{e} : e \in others}

(* Mutant: the requests that joined the creation get no lease. *)
LeasesOfCreator(p) == 1

LeasesOf(p) == Cardinality(Holders(p))

(* The factory answers: leases for its request and for those that joined,  *)
(* add, and the end of the pending entry, in one step.                     *)
FactoryAnswers(p) ==
    LET k == process[p].key
        held == [leases EXCEPT ![p] = LeasesOf(p)]
        older == pool[k] # 0 /\ Newer(pool[k], p)
    IN
    /\ p \in pending /\ down # "gone"
    /\ \E victim \in Victims(k) :
          LET add == IF older THEN NotAdded(p) ELSE Added(p, victim) IN
          /\ older => victim = {}
          /\ pool' = add.pool
          /\ Retire(add.out, held, [process EXCEPT ![p].state = "alive"])
    /\ leases' = held
    /\ pending' = pending \ {p}
    /\ request' = [r \in Request |->
                     IF r \in Holders(p) THEN [request[r] EXCEPT !.pc = "using"]
                     ELSE request[r]]
    /\ UNCHANGED <<seq, down>>

-----------------------------------------------------------------------------
(* A request ends (server.ts). *)

(* It is answered; or it fails, and its process is taken out of the pool *)
(* when the key still holds it.                                          *)
Answered(r) ==
    /\ request[r].pc = "using" /\ down # "gone"
    /\ request' = [request EXCEPT ![r].pc = "done"]
    /\ UNCHANGED <<pool, process, pending, leases, retired, seq, down>>

Failed(r) ==
    LET p == request[r].at  k == process[p].key IN
    /\ request[r].pc = "using" /\ down # "gone"
    /\ IF pool[k] = p
       THEN pool' = [pool EXCEPT ![k] = 0] /\ Retire({p}, leases, process)
       ELSE UNCHANGED <<pool, process, retired>>
    /\ request' = [request EXCEPT ![r].pc = "done"]
    /\ UNCHANGED <<pending, leases, seq, down>>

(* Mutant: a lease is returned that a shutdown already took back. *)
ReleaseBelowZero(r) ==
    LET p == request[r].at  last == leases[p] = 1 IN
    /\ request[r].pc = "done" /\ down # "gone"
    /\ leases' = [leases EXCEPT ![p] = IF @ = 0 THEN -1 ELSE @ - 1]
    /\ IF last /\ p \in retired
       THEN /\ retired' = retired \ {p}
            /\ process' = Closed(process, {p}, "closing")
       ELSE UNCHANGED <<retired, process>>
    /\ request' = [request EXCEPT ![r] = NoRequest]
    /\ UNCHANGED <<pool, pending, seq, down>>

(* Mutant: what was taken out of the pool meanwhile is not looked for. *)
ReleaseOnly(r) ==
    /\ request[r].pc = "done" /\ down # "gone"
    /\ leases' = [leases EXCEPT ![request[r].at] = IF @ > 0 THEN @ - 1 ELSE 0]
    /\ request' = [request EXCEPT ![r] = NoRequest]
    /\ UNCHANGED <<pool, process, pending, retired, seq, down>>

(* release; after a shutdown its lease is gone. *)
Release(r) ==
    LET p == request[r].at
        last == leases[p] <= 1
    IN
    /\ request[r].pc = "done" /\ down # "gone"
    /\ leases' = [leases EXCEPT ![p] = IF last THEN 0 ELSE @ - 1]
    /\ IF last /\ p \in retired
       THEN /\ retired' = retired \ {p}
            /\ process' = Closed(process, {p}, "closing")
       ELSE UNCHANGED <<retired, process>>
    /\ request' = [request EXCEPT ![r] = NoRequest]
    /\ UNCHANGED <<pool, pending, seq, down>>

-----------------------------------------------------------------------------
(* The processes, and the cleanup timer. *)

Exits(p) ==
    /\ p \in DOMAIN process /\ Alive(p)
    /\ process' = [process EXCEPT ![p].state = "exited"]
    /\ UNCHANGED <<pool, pending, leases, retired, seq, request, down>>

(* closeTransport ends: the child exited or was killed. *)
CloseEnds(p) ==
    /\ p \in DOMAIN process /\ process[p].state \in {"closing", "stopping"}
    /\ process' = [process EXCEPT ![p].state = "closed"]
    /\ UNCHANGED <<pool, pending, leases, retired, seq, request, down>>

(* cleanupIdleProcesses: whatever is idle for too long or has exited. *)
Cleanup ==
    /\ down = "up"
    /\ \E K \in SUBSET {k \in Key : pool[k] # 0} \ {{}} :
          /\ pool' = [k \in Key |-> IF k \in K THEN 0 ELSE pool[k]]
          /\ Retire({pool[k] : k \in K}, leases, process)
    /\ UNCHANGED <<pending, leases, seq, request, down>>

-----------------------------------------------------------------------------
(* shutdown, from one await to the next.  Requests may still be running: a *)
(* client that hangs up ends its connection, not its handler; none that     *)
(* has yet to ask the pool for a process is considered.                    *)

Stopping == {p \in DOMAIN process : process[p].state = "stopping"}
Closing  == {p \in DOMAIN process : process[p].state = "closing"}

Shutdown ==
    /\ down = "up"
    /\ down' = "closing"
    /\ process' = Closed(process, Pooled, "stopping")
    /\ UNCHANGED <<pool, pending, leases, retired, seq, request>>

(* The entries it found are closed: the map is cleared, and what is retired *)
(* is closed.                                                               *)
Clear ==
    /\ down = "closing" /\ Stopping = {}
    /\ down' = "settling"
    /\ pool' = [k \in Key |-> 0]
    /\ retired' = {}
    /\ leases' = [p \in Process |-> 0]
    /\ process' = Closed(process, retired, "stopping")
    /\ UNCHANGED <<pending, seq, request>>

(* closesSettled; then the wrapper exits. *)
Exit ==
    /\ down = "settling" /\ Stopping = {} /\ Closing = {}
    /\ down' = "gone"
    /\ UNCHANGED <<pool, process, pending, leases, retired, seq, request>>

RequestStep(r) ==
    \/ \E k \in Key, h \in Credentials : Reuse(r, k, h) \/ Join(r, k, h) \/ Create(r, k, h)
    \/ Answered(r) \/ Failed(r) \/ Release(r)

Next ==
    \/ \E r \in Request : RequestStep(r)
    \/ \E p \in Process : FactoryFails(p) \/ FactoryAnswers(p) \/ Exits(p) \/ CloseEnds(p)
    \/ Cleanup
    \/ Shutdown \/ Clear \/ Exit

Spec == Init /\ [][Next]_vars

-----------------------------------------------------------------------------
(***************************************************************************)
(* A process is not closed under a request that uses it: not by a          *)
(* replacement, an eviction, the cleanup timer, or the failure of another  *)
(* request on it (process-pool.ts, retire and release).  A shutdown may.   *)
(***************************************************************************)
LeasedIsOpen ==
    down = "up" =>
        \A r \in Request : request[r].pc = "using" =>
            process[request[r].at].state \in {"alive", "exited"}

(***************************************************************************)
(* No process is forgotten: one that runs is in the pool under its own     *)
(* key, or is retired with a request left to return its last lease.        *)
(***************************************************************************)
NothingLeaks ==
    down = "up" =>
        \A p \in DOMAIN process : process[p].state \in {"alive", "exited"} =>
            \/ pool[process[p].key] = p
            \/ p \in retired /\ Holders(p) # {}

(***************************************************************************)
(* A request is served by a process that was started with the credentials  *)
(* it carries, whether it was reused, joined or created.                   *)
(***************************************************************************)
OwnCredentials ==
    \A r \in Request : request[r].at # 0 =>
        process[request[r].at].hash = request[r].hash

(***************************************************************************)
(* The inductive invariant behind LeasedIsOpen, NothingLeaks and           *)
(* OwnCredentials (ProcessPoolProofs).                                     *)
(***************************************************************************)

PoolIsKeyed ==
    \A p \in Pooled :
        /\ p \in DOMAIN process /\ process[p].state # "starting"
        /\ \A k \in Key : pool[k] = p => process[p].key = k

(* A request waits for a creation as long as that is pending. *)
RequestsAreServed ==
    /\ \A p \in DOMAIN process : p \in pending <=> process[p].state = "starting"
    /\ \A r \in Request :
          /\ request[r].at \in 0 .. seq
          /\ request[r].pc = "idle" <=> request[r].at = 0
          /\ request[r].pc = "waiting" <=> request[r].at \in pending

(* Until a shutdown takes the leases back, each request has its own. *)
LeasesAreCounted ==
    down = "up" =>
        \A p \in Process : leases[p] = IF p \in pending THEN 0 ELSE Cardinality(Holders(p))

HeldIsOpen ==
    down = "up" =>
        \A p \in DOMAIN process : Holders(p) # {} =>
            process[p].state \in {"starting", "alive", "exited"}

IndInv ==
    /\ TypeOK
    /\ PoolIsKeyed
    /\ RequestsAreServed
    /\ LeasesAreCounted
    /\ HeldIsOpen
    /\ NothingLeaks
    /\ OwnCredentials

(***************************************************************************)
(* The wrapper leaves no process behind: "Shutdown the pool, closing all   *)
(* processes" (process-pool.ts:590).                                       *)
(***************************************************************************)
ShutdownClosesAll ==
    down = "gone" => \A p \in DOMAIN process : process[p].state # "alive"

-----------------------------------------------------------------------------
(***************************************************************************)
(* Liveness.  A request ends by its answer, its timeout or the exit of its *)
(* process; StdioTransport kills a child that does not exit.               *)
(***************************************************************************)
FairSpec ==
    /\ Spec
    /\ \A r \in Request : WF_vars(Answered(r) \/ Failed(r)) /\ WF_vars(Release(r))
    /\ \A p \in Process : WF_vars(CloseEnds(p))

(***************************************************************************)
(* A process that was taken out of the pool is closed in the end, whoever  *)
(* was using it; unless the wrapper exits before.                          *)
(***************************************************************************)
RetiredIsClosed ==
    \A p \in Process :
        p \in retired ~> \/ down = "gone"
                         \/ p \in DOMAIN process /\ process[p].state = "closed"
=============================================================================
