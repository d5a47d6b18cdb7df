-------------------- MODULE InstructionSyncHeadProofs --------------------
(***************************************************************************)
(* That a commit handed over is never slept on, proved for any number of   *)
(* checks, deliveries, runs, delegates, configurations and commits.        *)
(***************************************************************************)
EXTENDS InstructionSyncProofs

-----------------------------------------------------------------------------
(* The invariant in the parts a step keeps one by one.                      *)

LEMMA Values ==
    ASSUME IndInv
    PROVE  /\ row \in Row /\ row.generation \in Nat
           /\ row.evaluated \in Commit /\ row.suppressed \in Commit
           /\ row.pending \in BOOLEAN /\ row.exists \in BOOLEAN
           /\ head \in 1..MaxHead /\ head \in Nat /\ head \in Commit /\ head # None
           /\ last \in Nat /\ last \in 0..MaxRun
           /\ taken \in Commit \cup {None} /\ (taken # None => taken \in Nat)
           /\ asker \in [Asker -> AskerState] /\ run \in [Runs -> RunState]
           /\ \A e \in Commit : e \in Nat
<1>1. TypeOK
  BY DEF IndInv
<1>2. \A e \in Commit : e \in Nat
  BY BoundsAssumption DEF Commit
<1>3. row \in Row /\ head \in Commit
  BY <1>1, States
<1>4. row.generation \in Nat /\ head \in Nat /\ last \in Nat /\ head # None
  BY <1>1, <1>3, BoundsAssumption DEF TypeOK, Row, Commit
<1> QED
  BY <1>1, <1>2, <1>3, <1>4 DEF TypeOK, Row

LEMMA AskerIs ==
    ASSUME IndInv, NEW a \in Asker
    PROVE  /\ asker[a] \in AskerState /\ AskerInOrder(a)
           /\ asker[a].head \in Commit /\ asker[a].head \in Nat /\ asker[a].head <= head
           /\ asker[a].row \in Row /\ asker[a].row.generation \in Nat
<1>1. asker[a] \in AskerState /\ AskerInOrder(a)
  BY Values DEF IndInv
<1>2. asker[a].row.generation \in Nat
  BY <1>1, BoundsAssumption DEF AskerState, Row
<1> QED
  BY <1>1, <1>2, Values DEF AskerState, AskerInOrder

LEMMA RunIs ==
    ASSUME IndInv, NEW n \in Runs
    PROVE  /\ run[n] \in RunState /\ RunInOrder(n)
           /\ run[n].saw \in Commit /\ run[n].generation \in Nat
           /\ run[n].row \in Row /\ run[n].row.generation \in Nat
<1>1. run[n] \in RunState /\ RunInOrder(n)
  BY Values DEF IndInv
<1>2. run[n].generation \in Nat /\ run[n].row.generation \in Nat
  BY <1>1, BoundsAssumption DEF RunState, Row, Generation
<1> QED
  BY <1>1, <1>2 DEF RunState

InOrder ==
    (\A n \in Runs : RunInOrder(n)) /\ (\A a \in Asker : AskerInOrder(a)) /\ CursorsAreTaken

Safe ==
    /\ RowSleepsSafely
    /\ \A c \in Check : CheckSleepsSafely(c)
    /\ \A n \in Runs : RunSleepsSafely(n)

\* Where nothing is asleep, or somebody will wake it, nothing is forgotten.
LEMMA SafeRemembers ==
    ASSUME TypeOK, \A n \in Runs : RunInOrder(n), RowSleepsSafely
    PROVE  NoHeadIsForgotten
<1> SUFFICES ASSUME Live, taken = None, row.next \notin Check \cup {"due", "soon"}
             PROVE  \/ \E n \in Runs : run[n].at \in {"queued", "loaded", "begun"}
                    \/ row.pending /\ \E n \in Runs :
                          run[n].receipt = "open" /\ run[n].generation = row.generation
                    \/ LeftBehind \/ stolen
  BY DEF NoHeadIsForgotten
<1>1. row.next = "later"
  BY DEF TypeOK, Row
<1>2. Awaited
  BY <1>1 DEF RowSleepsSafely, AllTaken
<1>3. CASE WillConsume
  <2>1. PICK n \in 1..last : run[n].receipt # "finished" \/ run[n].generation # row.generation
    BY <1>3 DEF WillConsume
  <2>2. n \in Runs /\ RunInOrder(n) /\ run[n] \in RunState
    BY BoundsAssumption DEF Runs, TypeOK
  <2>3. run[n].receipt \in {"absent", "open", "finished"} /\ run[n].at \in Phase
    BY <2>2 DEF RunState
  <2>4. run[n].at # "none"
    BY <2>1, <2>2, BoundsAssumption DEF RunInOrder, TypeOK
  <2>5. CASE run[n].receipt = "absent"
    <3>1. run[n].at \in {"queued", "loaded", "closed"}
      BY <2>2, <2>3, <2>4, <2>5 DEF RunInOrder, Phase, Live
    <3> QED
      BY <1>3, <2>1, <2>2, <2>5, <3>1 DEF LeftBehind, WillConsume
  <2>6. CASE run[n].receipt # "absent"
    BY <1>3, <2>1, <2>2, <2>3, <2>6 DEF LeftBehind, WillConsume
  <2> QED
    BY <2>5, <2>6
<1> QED
  BY <1>2, <1>3 DEF Awaited, WillRead

LEMMA Gathered ==
    ASSUME IInv, InOrder, Safe
    PROVE  IndInv
BY SafeRemembers DEF IInv, InOrder, Safe, IndInv

-----------------------------------------------------------------------------
(* Steps and the order of runs, of askers and of commits.                   *)

LEMMA RunsStay ==
    ASSUME IndInv, UNCHANGED <<run, last>>, row'.generation \in Nat,
           row.generation <= row'.generation, row'.exists => row.exists
    PROVE  \A n \in Runs : RunInOrder(n)'
<1> SUFFICES ASSUME NEW n \in Runs PROVE RunInOrder(n)'
  OBVIOUS
<1> QED
  BY RunIs, Values DEF RunInOrder, Open

\* Run n goes on, as r.
LEMMA OneRunMoves ==
    ASSUME IndInv, NEW n \in Runs, NEW r, SetRun(n, r), last' = last,
           row'.generation = row.generation, row'.exists = row.exists,
           r.at # "none", run[n].at # "none",
           r.at # "closed" => run[n].at # "closed",
           r.at \in {"queued", "loaded"} => r.receipt # "finished",
           r.at = "begun" => r.receipt = "open",
           r.at = "recording" => r.receipt = "open" \/ (r.receipt = "absent" /\ ~row.exists),
           r.at = "completed" => r.receipt = "finished",
           r.generation <= row.generation, r.row.generation <= row.generation
    PROVE  /\ \A m \in Runs : RunInOrder(m)'
           /\ run'[n] = r /\ \A m \in Runs \ {n} : run'[m] = run[m]
<1>1. run'[n] = r /\ \A m \in Runs \ {n} : run'[m] = run[m]
  BY Values DEF SetRun
<1>2. ASSUME NEW m \in Runs \ {n}
      PROVE  RunInOrder(m)'
  BY <1>1, RunIs DEF RunInOrder, Open
<1>3. RunInOrder(n)'
  BY <1>1, RunIs DEF RunInOrder, Open
<1> QED
  BY <1>1, <1>2, <1>3

LEMMA RegisterMoves ==
    ASSUME IndInv, NEW t, NEW e, Register(t, e),
           row'.generation = row.generation, row'.exists = row.exists
    PROVE  /\ \A m \in Runs : RunInOrder(m)'
           /\ last' = last + 1 /\ last + 1 \in Runs
           /\ run'[last + 1] = [NoRun EXCEPT !.at = "queued", !.trigger = t, !.expected = e]
           /\ \A m \in Runs \ {last + 1} : run'[m] = run[m]
           /\ \A m \in Runs : run[m].at \in {"none", "closed"}
<1> DEFINE r == [NoRun EXCEPT !.at = "queued", !.trigger = t, !.expected = e]
<1>1. last' = last + 1 /\ last + 1 \in Runs
  BY Values, BoundsAssumption DEF Register, Runs
<1>2. run'[last + 1] = r /\ \A m \in Runs \ {last + 1} : run'[m] = run[m]
  BY <1>1, Values DEF Register
<1>3. r.at = "queued" /\ r.receipt = "absent" /\ r.generation = 0 /\ r.row = Blank
  BY DEF NoRun
<1> HIDE DEF r
<1>4. ASSUME NEW m \in Runs
      PROVE  run[m].at \in {"none", "closed"}
  <2>1. Open(m) => m = last
    BY RunIs DEF RunInOrder
  <2> QED
    BY <2>1, BoundsAssumption DEF Register, Open, Runs
<1>5. Blank.generation <= row.generation
  BY Values, BoundsAssumption DEF Blank, Row
<1>6. ASSUME NEW m \in Runs, m = last + 1
      PROVE  RunInOrder(m)'
  BY <1>1, <1>2, <1>3, <1>5, <1>6, Values DEF RunInOrder, Open, Runs
<1>7. ASSUME NEW m \in Runs \ {last + 1}
      PROVE  RunInOrder(m)'
  <2>1. run'[m] = run[m] /\ RunInOrder(m) /\ m \in Nat /\ m # last + 1
    BY <1>1, <1>2, RunIs DEF Runs
  <2>2. m > last + 1 <=> m > last
    BY <2>1, Values
  <2> QED
    BY <1>1, <1>4, <2>1, <2>2 DEF RunInOrder, Open
<1>8. \A m \in Runs : RunInOrder(m)'
  BY <1>6, <1>7
<1> QED
  BY <1>1, <1>2, <1>4, <1>8 DEF r

\* No lease is given, and one that stays keeps its request.
LeaseStays == row'.next \in Check => row'.next = row.next /\ (row.pending => row'.pending)

LEMMA AskersStay ==
    ASSUME IndInv, asker' = asker, head' \in Nat, head <= head', last' \in Nat, last <= last',
           LeaseStays
    PROVE  \A a \in Asker : AskerInOrder(a)'
<1> SUFFICES ASSUME NEW a \in Asker PROVE AskerInOrder(a)'
  OBVIOUS
<1>1. AskerInOrder(a) /\ asker[a].head \in Nat /\ asker'[a] = asker[a]
  BY AskerIs
<1>2. 1..last \subseteq 1..last'
  BY Values
<1> QED
  BY <1>1, <1>2, Values DEF AskerInOrder, LeaseStays

\* Asker a goes on, as x.
LEMMA OneAskerMoves ==
    ASSUME IndInv, NEW a \in Asker, NEW x, asker' = [asker EXCEPT ![a] = x],
           head' = head, last' \in Nat, last <= last', LeaseStays,
           x.head <= head, x.at \in {"marking", "settling"} => x.run \in 1..last',
           a \in Check /\ row'.next = a =>
              /\ x.at = "settling" => row'.pending
              /\ x.at = "writing" /\ x.write = "success" => x.head = x.row.evaluated
              /\ x.at = "writing" /\ x.write = "suppress" => x.head = x.row.suppressed
    PROVE  /\ \A b \in Asker : AskerInOrder(b)'
           /\ asker'[a] = x /\ \A b \in Asker \ {a} : asker'[b] = asker[b]
<1>1. asker'[a] = x /\ \A b \in Asker \ {a} : asker'[b] = asker[b]
  BY Values
<1>2. 1..last \subseteq 1..last'
  BY Values
<1>3. AskerInOrder(a)'
  BY <1>1 DEF AskerInOrder
<1>4. ASSUME NEW b \in Asker \ {a}
      PROVE  AskerInOrder(b)'
  <2>1. AskerInOrder(b) /\ asker'[b] = asker[b]
    BY <1>1, AskerIs
  <2> QED
    BY <1>2, <2>1 DEF AskerInOrder, LeaseStays
<1> QED
  BY <1>1, <1>3, <1>4

\* How taken moves within a configuration.
TakenMoves ==
    \/ taken' = taken /\ head' \in {head, head + 1}
    \/ taken' = head /\ head' = head
    \/ head' = head /\ \E sha \in Commit : sha <= head /\ taken' = Handed(sha)

LEMMA ReachedStays ==
    ASSUME IndInv, TakenMoves, NEW e \in Commit, Reached(e)
    PROVE  Reached(e)'
<1>1. e \in Nat /\ head \in Nat /\ head # None /\ (taken # None => taken \in Nat /\ taken <= head)
  BY Values DEF IndInv, CursorsAreTaken
<1>2. CASE taken' = taken /\ head' \in {head, head + 1}
  BY <1>1, <1>2 DEF Reached
<1>3. CASE taken' = head /\ head' = head
  BY <1>1, <1>3 DEF Reached
<1>4. CASE head' = head /\ \E sha \in Commit : sha <= head /\ taken' = Handed(sha)
  <2>1. PICK sha \in Commit : sha <= head /\ taken' = Handed(sha)
    BY <1>4
  <2>2. sha \in Nat
    BY Values
  <2> QED
    BY <1>1, <1>4, <2>1, <2>2 DEF Reached, Handed
<1> QED
  BY <1>2, <1>3, <1>4 DEF TakenMoves

LEMMA TakenBehind ==
    ASSUME IndInv, TakenMoves
    PROVE  taken' # None => taken' <= head'
<1>1. head \in Nat /\ (taken # None => taken \in Nat /\ taken <= head)
  BY Values DEF IndInv, CursorsAreTaken
<1> QED
  BY <1>1 DEF TakenMoves, Handed

LEMMA CursorsStay ==
    ASSUME IndInv, TakenMoves, row'.exists => row.exists, row'.generation = row.generation,
           row'.evaluated = row.evaluated \/ Reached(row.evaluated)',
           row'.suppressed = row.suppressed \/ Reached(row.suppressed)',
           \A n \in Runs :
              row.exists /\ run'[n].at = "recording" /\ run'[n].generation = row.generation =>
                  \/ run[n].at = "recording" /\ run[n].generation = row.generation
                     /\ run'[n].saw = run[n].saw
                  \/ Reached(run[n].saw)'
    PROVE  CursorsAreTaken'
<1> SUFFICES ASSUME row'.exists PROVE CursorsAreTaken'
  BY TakenBehind DEF CursorsAreTaken
<1>1. CursorsAreTaken /\ row.exists
  BY DEF IndInv
<1>2. Reached(row.evaluated)'
  <2>1. CASE row'.evaluated = row.evaluated
    <3>1. IF taken' = None THEN row.evaluated < head' ELSE row.evaluated <= taken'
      BY <1>1, Values, ReachedStays DEF CursorsAreTaken, Reached
    <3> QED
      BY <2>1, <3>1 DEF Reached
  <2> QED
    BY <2>1
<1>3. Reached(row.suppressed)'
  <2>1. CASE row'.suppressed = row.suppressed
    <3>1. IF taken' = None THEN row.suppressed < head' ELSE row.suppressed <= taken'
      BY <1>1, Values, ReachedStays DEF CursorsAreTaken, Reached
    <3> QED
      BY <2>1, <3>1 DEF Reached
  <2> QED
    BY <2>1
<1>4. ASSUME NEW n \in Runs, run'[n].at = "recording", run'[n].generation = row.generation
      PROVE  Reached(run[n].saw)'
  <2>1. CASE run[n].at = "recording" /\ run[n].generation = row.generation
             /\ run'[n].saw = run[n].saw
    <3>1. Reached(run[n].saw) /\ run[n].saw \in Commit
      BY <1>1, <2>1, RunIs DEF CursorsAreTaken
    <3>2. IF taken' = None THEN run[n].saw < head' ELSE run[n].saw <= taken'
      BY <3>1, ReachedStays DEF Reached
    <3> QED
      BY <2>1, <3>2 DEF Reached
  <2> QED
    BY <1>1, <1>4, <2>1
<1>5. taken' # None => taken' <= head'
  BY TakenBehind
<1> QED
  BY <1>2, <1>3, <1>4, <1>5 DEF CursorsAreTaken, Reached

-----------------------------------------------------------------------------
(* Steps and what is asleep.                                                *)

\* What a run or a request is still to do, it is to do after the step.
LEMMA AwaitedStays ==
    ASSUME IndInv, stolen => stolen', row.pending => row'.pending,
           row'.generation = row.generation, last' \in Nat, last <= last',
           \A n \in Runs :
              run'[n].receipt = "finished" /\ run'[n].generation = row.generation =>
                 run[n].receipt = "finished" /\ run[n].generation = row.generation,
           \A n \in Runs : WillRead(n) => WillRead(n)',
           Awaited
    PROVE  Awaited'
<1>1. CASE WillConsume
  <2>1. PICK n \in 1..last :
           row.pending /\ (run[n].receipt # "finished" \/ run[n].generation # row.generation)
    BY <1>1 DEF WillConsume
  <2>2. n \in Runs /\ n \in 1..last'
    BY Values, BoundsAssumption DEF Runs
  <2> QED
    BY <2>1, <2>2 DEF Awaited, WillConsume
<1> QED
  BY <1>1 DEF Awaited

LEMMA AllTakenStays ==
    ASSUME IndInv, taken' = taken, row.pending => row'.pending,
           \A d \in Delivery :
              asker'[d].at = "settling" => asker'[d] = asker[d] \/ row'.pending,
           AllTaken
    PROVE  AllTaken'
BY DEF AllTaken

\* The branch is read, or the attempt failed: nothing is left behind.
LEMMA TriedIsSafe ==
    ASSUME IndInv, taken' = head, head' = head, \A a \in Asker : AskerInOrder(a)'
    PROVE  Safe'
<1>1. \A a \in Asker : asker'[a].head <= taken'
  BY DEF AskerInOrder
<1>2. AllTaken'
  BY <1>1, Values DEF AllTaken, Asker
<1> QED
  BY <1>1, <1>2 DEF Safe, RowSleepsSafely, CheckSleepsSafely, RunSleepsSafely, Asker

LEMMA RunSleepStays ==
    ASSUME IndInv, row'.exists => row.exists, row'.generation = row.generation,
           row.pending => row'.pending, stolen => stolen', AllTaken => AllTaken',
           NEW n \in Runs, run'[n] = run[n]
    PROVE  RunSleepsSafely(n)'
BY DEF IndInv, RunSleepsSafely

\* The row sleeps or wakes as before.
LEMMA SleepStays ==
    ASSUME IndInv, row'.next = row.next, row'.generation = row.generation, Live' => Live,
           row'.exists => row.exists, row.pending => row'.pending, stolen => stolen',
           Live /\ Awaited => Awaited',
           AllTaken => (AllTaken' /\ taken' = taken) \/ (Awaited' /\ row'.pending),
           \A c \in Check : asker'[c] = asker[c] \/ CheckSleepsSafely(c)',
           \A n \in Runs : run'[n] = run[n] \/ RunSleepsSafely(n)'
    PROVE  Safe'
<1>2. RowSleepsSafely'
  BY DEF IndInv, RowSleepsSafely
<1>3. ASSUME NEW c \in Check, asker'[c] = asker[c]
      PROVE  CheckSleepsSafely(c)'
  BY <1>3 DEF IndInv, CheckSleepsSafely
<1>4. ASSUME NEW n \in Runs, run'[n] = run[n]
      PROVE  RunSleepsSafely(n)'
  BY <1>4 DEF IndInv, RunSleepsSafely
<1> QED
  BY <1>2, <1>3, <1>4 DEF Safe

\* The row wakes, or is not synced automatically.
LEMMA WakeIsSafe ==
    ASSUME row'.next \in {"due", "soon", None} \/ ~Live',
           \A n \in Runs : RunSleepsSafely(n)'
    PROVE  Safe'
BY BoundsAssumption DEF Safe, RowSleepsSafely, CheckSleepsSafely

LEMMA NoRunMoves ==
    ASSUME IndInv, UNCHANGED <<run, last>>, row'.generation = row.generation
    PROVE  /\ \A n \in Runs : WillRead(n) => WillRead(n)'
           /\ \A n \in Runs :
                 run'[n].receipt = "finished" /\ run'[n].generation = row.generation =>
                    run[n].receipt = "finished" /\ run[n].generation = row.generation
           /\ last' \in Nat /\ last <= last'
BY Values DEF WillRead

-----------------------------------------------------------------------------
(* Steps of checks and deliveries.                                          *)

\* Asker a goes on, as x, and a delivery may hand over its commit.
LEMMA AskerAsks ==
    ASSUME IndInv, NEW a \in Asker, NEW x, asker' = [asker EXCEPT ![a] = x],
           UNCHANGED <<row, head, run, last, stolen>>, TakenMoves,
           taken' # taken => a \notin Check /\ (WillConsume \/ ~AllTaken),
           x.head <= head, x.at # "settling", x.at = "marking" => x.run \in 1..last,
           a \in Check /\ row.next = a /\ x.at = "writing" =>
              /\ x.write = "success" => x.head = x.row.evaluated
              /\ x.write = "suppress" => x.head = x.row.suppressed
              /\ Live /\ x.write \in Reschedules =>
                    Awaited \/ (AllTaken /\ x.head <= taken)
    PROVE  InOrder' /\ Safe'
<1>1. \A n \in Runs : RunInOrder(n)'
  BY RunsStay, Values
<1>2. /\ \A b \in Asker : AskerInOrder(b)'
      /\ asker'[a] = x /\ \A b \in Asker \ {a} : asker'[b] = asker[b]
  <2>1. last' \in Nat /\ last <= last' /\ LeaseStays
    BY Values DEF LeaseStays
  <2>2. x.at \in {"marking", "settling"} => x.run \in 1..last'
    OBVIOUS
  <2>3. a \in Check /\ row'.next = a =>
              /\ x.at = "settling" => row'.pending
              /\ x.at = "writing" /\ x.write = "success" => x.head = x.row.evaluated
              /\ x.at = "writing" /\ x.write = "suppress" => x.head = x.row.suppressed
    OBVIOUS
  <2> QED
    BY <2>1, <2>2, <2>3, OneAskerMoves
<1>3. CursorsAreTaken'
  BY CursorsStay
<1>4. Awaited => Awaited'
  BY AwaitedStays, NoRunMoves
<1>5. taken' = taken /\ AllTaken => AllTaken'
  BY <1>2, AllTakenStays DEF Asker
<1>6. AllTaken => (AllTaken' /\ taken' = taken) \/ (Awaited' /\ row'.pending)
  BY <1>4, <1>5 DEF Awaited, WillConsume
<1>7. Live' <=> Live
  BY DEF Live
<1>8. a \in Check => CheckSleepsSafely(a)'
  BY <1>2, <1>4, <1>5, <1>7 DEF CheckSleepsSafely
<1>9. \A c \in Check : asker'[c] = asker[c] \/ CheckSleepsSafely(c)'
  BY <1>2, <1>8 DEF Asker
<1> QED
  BY <1>1, <1>2, <1>3, <1>4, <1>6, <1>7, <1>9, SleepStays DEF InOrder

\* Asker a goes on, as x, and nothing else changes.
LEMMA AskerMoves ==
    ASSUME IndInv, NEW a \in Asker, NEW x, asker' = [asker EXCEPT ![a] = x],
           UNCHANGED <<row, head, run, last, taken, stolen>>,
           x.head <= head, x.at # "settling", x.at = "marking" => x.run \in 1..last,
           a \in Check /\ row.next = a /\ x.at = "writing" =>
              /\ x.write = "success" => x.head = x.row.evaluated
              /\ x.write = "suppress" => x.head = x.row.suppressed
              /\ Live /\ x.write \in Reschedules =>
                    Awaited \/ (AllTaken /\ x.head <= taken)
    PROVE  InOrder' /\ Safe'
<1>1. TakenMoves
  BY DEF TakenMoves
<1> QED
  BY <1>1, AskerAsks

\* One that asks nothing any more.
LEMMA LeaveMoves ==
    ASSUME IndInv, NEW a \in Asker, Leave(a), UNCHANGED <<row, head, run, last, taken, stolen>>
    PROVE  InOrder' /\ Safe'
<1>1. Idle.at = "idle" /\ Idle.head <= head
  BY Values DEF Idle
<1> QED
  BY <1>1, AskerMoves DEF Leave

LEMMA GotoMoves ==
    ASSUME IndInv, NEW a \in Asker, NEW at \in Stage \ {"settling", "marking", "writing"},
           Goto(a, at), UNCHANGED <<row, head, run, last, taken, stolen>>
    PROVE  InOrder' /\ Safe'
<1> DEFINE x == [asker[a] EXCEPT !.at = at]
<1>1. x.at = at /\ x.head = asker[a].head
  BY AskerIs DEF AskerState
<1>2. asker' = [asker EXCEPT ![a] = x]
  BY DEF Goto
<1> HIDE DEF x
<1> QED
  BY <1>1, <1>2, AskerIs, AskerMoves

\* What a check was given, it still has under its lease.
LEMMA LeaseIsFresh ==
    ASSUME IndInv, NEW c \in Check, row.next = c, asker[c].at # "idle"
    PROVE  /\ row.generation = asker[c].row.generation
           /\ row.evaluated = asker[c].row.evaluated
           /\ row.suppressed = asker[c].row.suppressed
           /\ c \in Asker
BY DEF IndInv, Fresh, Watched, Asker

LEMMA WriteIs ==
    ASSUME IndInv, NEW c \in Check, NEW e, NEW sha, Write(c, e, sha)
    PROVE  \E x : /\ asker' = [asker EXCEPT ![c] = x]
                  /\ x.at = "writing" /\ x.write = e /\ x.head = sha /\ x.row = asker[c].row
<1> DEFINE x == [asker[c] EXCEPT !.at = "writing", !.write = e, !.head = sha]
<1>1. c \in Asker
  BY DEF Asker
<1>2. x.at = "writing" /\ x.write = e /\ x.head = sha /\ x.row = asker[c].row
  BY <1>1, AskerIs DEF AskerState
<1>3. asker' = [asker EXCEPT ![c] = x]
  BY DEF Write
<1> HIDE DEF x
<1> QED
  BY <1>2, <1>3

LEMMA ClaimOrderly ==
    ASSUME IndInv, NEW c \in Check, Claim(c)
    PROVE  InOrder' /\ Safe'
<1> DEFINE x == [Idle EXCEPT !.at = "claimed", !.row = Seen(row)]
<1>1. /\ UNCHANGED <<head, run, last, taken, stolen>>
      /\ asker' = [asker EXCEPT ![c] = x] /\ asker[c].at = "idle" /\ c \in Asker
  BY DEF Claim, Asker
<1>2. /\ row'.generation = row.generation /\ row'.exists = row.exists
      /\ row'.pending = row.pending /\ row'.evaluated = row.evaluated
      /\ row'.suppressed = row.suppressed /\ row'.next = c
  BY Values DEF Claim, Row
<1>3. x.at = "claimed" /\ x.head = 0
  BY DEF Idle
<1> HIDE DEF x
<1>4. asker'[c] = x /\ \A b \in Asker \ {c} : asker'[b] = asker[b]
  BY <1>1, Values
<1>5. \A n \in Runs : RunInOrder(n)'
  BY <1>1, <1>2, RunsStay, Values
<1>6. \A b \in Asker : AskerInOrder(b)'
  <2>1. AskerInOrder(c)'
    BY <1>1, <1>3, <1>4, Values DEF AskerInOrder
  <2>2. ASSUME NEW b \in Asker \ {c} PROVE AskerInOrder(b)'
    BY <1>1, <1>2, <1>4, AskerIs DEF AskerInOrder
  <2> QED
    BY <2>1, <2>2
<1>7. CursorsAreTaken'
  BY <1>1, <1>2, CursorsStay DEF TakenMoves
<1>8. AllTaken => AllTaken'
  BY <1>1, <1>2, <1>3, <1>4, AllTakenStays DEF Asker
<1>9. \A n \in Runs : RunSleepsSafely(n)'
  BY <1>1, <1>2, <1>8, RunSleepStays
<1>10. RowSleepsSafely' /\ \A b \in Check : CheckSleepsSafely(b)'
  BY <1>2, <1>3, <1>4, BoundsAssumption DEF RowSleepsSafely, CheckSleepsSafely
<1> QED
  BY <1>5, <1>6, <1>7, <1>9, <1>10 DEF InOrder, Safe

LEMMA ReadLeaseOrderly ==
    ASSUME IndInv, NEW c \in Check, ReadLease(c)
    PROVE  InOrder' /\ Safe'
<1>1. c \in Asker /\ UNCHANGED <<row, head, run, last, taken, stolen>>
  BY DEF ReadLease, Asker
<1>2. CASE Leave(c) \/ Goto(c, "permitted")
  BY <1>1, <1>2, LeaveMoves, GotoMoves DEF Stage
<1>3. CASE Write(c, "PERMISSION_REVOKED", 0)
  <2>1. PICK x : /\ asker' = [asker EXCEPT ![c] = x]
                 /\ x.at = "writing" /\ x.write = "PERMISSION_REVOKED" /\ x.head = 0
    BY <1>3, WriteIs
  <2>2. x.head <= head /\ x.write \notin Reschedules \cup {"success", "suppress"}
    BY <2>1, Values DEF Reschedules
  <2> QED
    BY <1>1, <2>1, <2>2, AskerMoves
<1> QED
  BY <1>2, <1>3 DEF ReadLease

LEMMA ReadLeaseAgainOrderly ==
    ASSUME IndInv, NEW c \in Check, ReadLeaseAgain(c)
    PROVE  InOrder' /\ Safe'
<1>1. c \in Asker /\ UNCHANGED <<row, head, run, last, taken, stolen>>
  BY DEF ReadLeaseAgain, Asker
<1> QED
  BY <1>1, LeaveMoves, GotoMoves DEF ReadLeaseAgain, Stage
\* With the newest commit taken, all are.
LEMMA HeadTaken ==
    ASSUME IndInv, Reached(head)
    PROVE  AllTaken /\ head <= taken
<1>1. taken # None /\ head <= taken /\ taken \in Nat /\ head \in Nat
  BY Values DEF Reached
<1>2. \A d \in Delivery : asker[d].head \in Nat /\ asker[d].head <= head
  BY AskerIs DEF Asker
<1> QED
  BY <1>1, <1>2 DEF AllTaken

LEMMA RemoteHeadOrderly ==
    ASSUME IndInv, NEW c \in Check, RemoteHead(c)
    PROVE  InOrder' /\ Safe'
<1>1. c \in Asker /\ UNCHANGED <<row, head, run, last>> /\ asker[c].at = "permitted"
  BY DEF RemoteHead, Asker
<1>2. CASE Write(c, "REF_MISSING", 0) /\ UNCHANGED <<taken, stolen>>
  <2>1. PICK x : /\ asker' = [asker EXCEPT ![c] = x]
                 /\ x.at = "writing" /\ x.write = "REF_MISSING" /\ x.head = 0
    BY <1>2, WriteIs
  <2>2. x.head <= head /\ x.write \notin Reschedules \cup {"success", "suppress"}
    BY <2>1, Values DEF Reschedules
  <2> QED
    BY <1>1, <1>2, <2>1, <2>2, AskerMoves
<1>3. CASE Write(c, "backoff", 0) /\ Attempted(asker[c].row.generation)
  <2>1. PICK x : /\ asker' = [asker EXCEPT ![c] = x]
                 /\ x.at = "writing" /\ x.write = "backoff" /\ x.head = 0
    BY <1>3, WriteIs
  <2>2. x.head <= head
    BY <2>1, Values
  <2>3. CASE Current(c)
    <3>1. taken' = head
      BY <1>3, <2>3 DEF Attempted, Current
    <3>2. \A n \in Runs : RunInOrder(n)'
      BY <1>1, RunsStay, Values
    <3>3. last' \in Nat /\ last <= last' /\ LeaseStays
      BY <1>1, Values DEF LeaseStays
    <3>4. \A b \in Asker : AskerInOrder(b)'
      BY <1>1, <2>1, <2>2, <3>3, OneAskerMoves
    <3>5. CursorsAreTaken'
      BY <1>1, <3>1, CursorsStay DEF TakenMoves
    <3> QED
      BY <1>1, <3>1, <3>2, <3>4, <3>5, TriedIsSafe DEF InOrder
  <2>4. CASE ~Current(c)
    <3>1. UNCHANGED <<taken, stolen>>
      BY <1>3, <2>4 DEF Attempted, Current
    <3>2. ~(Live /\ row.next = c)
      BY <1>1, <2>4, LeaseIsFresh DEF Current, Live
    <3> QED
      BY <1>1, <2>1, <2>2, <3>1, <3>2, AskerMoves
  <2> QED
    BY <2>3, <2>4
<1>4. ASSUME NEW e \in {"success", "suppress"}, Write(c, e, head), UNCHANGED <<taken, stolen>>,
             head = (IF e = "success" THEN asker[c].row.evaluated ELSE asker[c].row.suppressed)
      PROVE  InOrder' /\ Safe'
  <2>1. PICK x : /\ asker' = [asker EXCEPT ![c] = x] /\ x.row = asker[c].row
                 /\ x.at = "writing" /\ x.write = e /\ x.head = head
    BY <1>4, WriteIs
  <2>2. x.head <= head
    BY <2>1, Values
  <2>3. ASSUME Live, row.next = c
        PROVE  AllTaken /\ head <= taken
    <3>1. Reached(head)
      BY <1>1, <1>4, <2>3, LeaseIsFresh DEF IndInv, CursorsAreTaken, Live
    <3> QED
      BY <3>1, HeadTaken
  <2>4. row.next = c /\ x.at = "writing" =>
              /\ x.write = "success" => x.head = x.row.evaluated
              /\ x.write = "suppress" => x.head = x.row.suppressed
    BY <1>4, <2>1
  <2> QED
    BY <1>1, <1>4, <2>1, <2>2, <2>3, <2>4, AskerMoves
<1>5. CASE /\ asker' = [asker EXCEPT ![c].at = "decided", ![c].head = head]
           /\ UNCHANGED <<taken, stolen>>
  <2> DEFINE x == [asker[c] EXCEPT !.at = "decided", !.head = head]
  <2>1. x.at = "decided" /\ x.head = head
    BY <1>1, AskerIs DEF AskerState
  <2>2. asker' = [asker EXCEPT ![c] = x]
    BY <1>5
  <2> HIDE DEF x
  <2>3. x.head <= head
    BY <2>1, Values
  <2> QED
    BY <1>1, <1>5, <2>1, <2>2, <2>3, AskerMoves
<1> QED
  BY <1>2, <1>3, <1>4, <1>5 DEF RemoteHead

LEMMA DeliverOrderly ==
    ASSUME IndInv, NEW d \in Delivery, Deliver(d)
    PROVE  InOrder' /\ Safe'
<1>1. PICK sha \in 1..head :
        asker' = [asker EXCEPT ![d] =
                    [Idle EXCEPT !.at = "starting", !.row = Flags(row), !.head = sha]]
  BY DEF Deliver
<1> DEFINE x == [Idle EXCEPT !.at = "starting", !.row = Flags(row), !.head = sha]
<1>2. x.at = "starting" /\ x.head = sha
  BY DEF Idle
<1>3. asker' = [asker EXCEPT ![d] = x]
  BY <1>1
<1> HIDE DEF x
<1>4. d \in Asker /\ x.head <= head /\ UNCHANGED <<row, head, run, last, taken, stolen>>
  BY <1>2, Values DEF Deliver, Asker
<1> QED
  BY <1>2, <1>3, <1>4, AskerMoves

LEMMA DescribeRunOrderly ==
    ASSUME IndInv, NEW a \in Asker, DescribeRun(a)
    PROVE  InOrder' /\ Safe'
<1> DEFINE x == [asker[a] EXCEPT !.at = "marking", !.run = last]
<1>1. x.at = "marking" /\ x.head = asker[a].head /\ x.run = last
  BY AskerIs DEF AskerState
<1>2. asker' = [asker EXCEPT ![a] = x]
  BY DEF DescribeRun
<1> HIDE DEF x
<1>3. last \in 1..last
  BY Values DEF DescribeRun, Open
<1> QED
  BY <1>1, <1>2, <1>3, AskerIs, AskerMoves DEF DescribeRun
\* While a run is recording, only a request can be awaited.
LEMMA RecordingAwaits ==
    ASSUME IndInv, Awaited, NEW n \in Runs, run[n].at = "recording"
    PROVE  row.pending \/ stolen
<1>1. ASSUME NEW m \in Runs
      PROVE  ~WillRead(m)
  <2>1. n = last /\ (Open(m) => m = last)
    BY RunIs DEF RunInOrder, Open, Runs
  <2> QED
    BY <2>1 DEF WillRead, Open, Runs
<1> QED
  BY <1>1 DEF Awaited, WillConsume

\* A commit handed over that was taken before.
LEMMA HandedAgain ==
    ASSUME AllTaken, NEW sha, sha <= taken, NEW t, t = Handed(sha), taken \in Nat, sha \in Nat
    PROVE  t = taken
BY DEF AllTaken, Handed

LEMMA FencedWriteOrderly ==
    ASSUME IndInv, NEW c \in Check, FencedWrite(c)
    PROVE  InOrder' /\ Safe'
<1> DEFINE e == asker[c].write
           sha == asker[c].head
<1>1. /\ c \in Asker /\ UNCHANGED <<head, run, last, stolen>> /\ asker[c].at = "writing"
      /\ asker' = [asker EXCEPT ![c] = Idle] /\ Leave(c)
      /\ Idle.at = "idle" /\ Idle.head <= head
      /\ sha \in Commit /\ sha \in Nat /\ sha <= head /\ e \in Effect
  BY AskerIs, Values DEF FencedWrite, Asker, Leave, Idle, AskerState
<1>2. CASE ~Holds(c)
  BY <1>1, <1>2, LeaveMoves DEF FencedWrite
<1>3. CASE Holds(c)
  <2>1. /\ row' = Patched(row, e, sha)
        /\ taken' = IF e \in {"later", "soon"} THEN Handed(sha) ELSE taken
    BY <1>3 DEF FencedWrite
  <2>2. row.next = c /\ Live /\ row.exists
    BY <1>3 DEF Holds, Live
  <2>3. CASE e = "none"
    BY <1>1, <2>1, <2>3, LeaveMoves DEF Patched
  <2>4. ASSUME e # "none"
        PROVE  /\ row'.generation = row.generation /\ row'.exists = row.exists
               /\ row'.pending = row.pending /\ row'.evaluated = row.evaluated
               /\ row'.suppressed = row.suppressed
               /\ IF e \in Reschedules THEN row'.next \in {"later", "soon"}
                  ELSE row'.next = None /\ row'.pause # None
    <3>1. AskerInOrder(c) /\ row \in Row
      BY <1>1, AskerIs, Values
    <3>2. /\ e = "success" => sha = row.evaluated
          /\ e = "suppress" => sha = row.suppressed
      BY <1>1, <2>2, <3>1, LeaseIsFresh DEF AskerInOrder
    <3>3. CASE e = "success"
      BY <2>1, <3>1, <3>2, <3>3 DEF Patched, Row, Reschedules
    <3>4. CASE e = "suppress"
      BY <2>1, <3>1, <3>2, <3>4 DEF Patched, Row, Reschedules
    <3>5. CASE e \in {"backoff", "later", "soon"}
      BY <2>1, <3>1, <3>5 DEF Patched, Row, Reschedules
    <3>6. CASE e \in {"REF_MISSING", "PERMISSION_REVOKED"}
      BY <2>1, <3>1, <3>6, BoundsAssumption DEF Patched, Row, Reschedules
    <3> QED
      BY <1>1, <2>4, <3>3, <3>4, <3>5, <3>6 DEF Effect
  <2> HIDE DEF e, sha
  <2>5. CASE e # "none"
    <3>1. row'.next \notin Check /\ LeaseStays /\ last' \in Nat /\ last <= last'
      BY <1>1, <2>4, <2>5, Values, BoundsAssumption DEF LeaseStays
    <3>2. \A n \in Runs : RunInOrder(n)'
      BY <1>1, <2>4, <2>5, RunsStay, Values
    <3>3. /\ \A b \in Asker : AskerInOrder(b)'
          /\ asker'[c] = Idle /\ \A b \in Asker \ {c} : asker'[b] = asker[b]
      BY <1>1, <3>1, OneAskerMoves
    <3>4. TakenMoves
      BY <1>1, <2>1 DEF TakenMoves
    <3>5. CursorsAreTaken'
      BY <1>1, <2>4, <2>5, <3>4, CursorsStay
    <3>6. Awaited => Awaited'
      BY <1>1, <2>4, <2>5, NoRunMoves, AwaitedStays
    <3>7. taken' = taken /\ AllTaken => AllTaken'
      BY <1>1, <2>4, <2>5, <3>3, AllTakenStays DEF Asker
    <3>8. e \in Reschedules => Awaited \/ (AllTaken /\ taken' = taken)
      <4>1. e \in Reschedules => Awaited \/ (AllTaken /\ sha <= taken)
        BY <1>1, <2>2 DEF IndInv, CheckSleepsSafely, e, sha
      <4>2. AllTaken => taken \in Nat
        BY Values DEF AllTaken
      <4> QED
        BY <1>1, <2>1, <4>1, <4>2, HandedAgain
    <3>9. ASSUME NEW n \in Runs
          PROVE  RunSleepsSafely(n)'
      <4>1. RunSleepsSafely(n) /\ run'[n] = run[n]
        BY <1>1 DEF IndInv
      <4>2. CASE taken' = taken
        BY <1>1, <2>4, <2>5, <3>7, <4>1, <4>2 DEF RunSleepsSafely
      <4>3. CASE taken' # taken
        <5>1. Awaited
          BY <2>1, <3>8, <4>3 DEF Reschedules
        <5> QED
          BY <1>1, <2>4, <2>5, <4>1, <5>1, RecordingAwaits DEF RunSleepsSafely
      <4> QED
        BY <4>2, <4>3
    <3>10. RowSleepsSafely'
      BY <2>4, <2>5, <3>6, <3>7, <3>8, BoundsAssumption DEF RowSleepsSafely
    <3>11. \A b \in Check : CheckSleepsSafely(b)'
      BY <3>1 DEF CheckSleepsSafely
    <3> QED
      BY <3>2, <3>3, <3>5, <3>9, <3>10, <3>11 DEF InOrder, Safe
  <2> QED
    BY <2>3, <2>5
<1> QED
  BY <1>2, <1>3
-----------------------------------------------------------------------------
(* Starting a run, or leaving a request for the one that is open.           *)

LEMMA RegisterSafe ==
    ASSUME IndInv, NEW t, NEW e, Register(t, e), UNCHANGED <<row, head, stolen>>, TakenMoves,
           taken' = taken \/ e \in {0, row.generation},
           \A a \in Asker : AskerInOrder(a)',
           \A d \in Delivery : asker'[d].at = "settling" => asker'[d] = asker[d],
           \A c \in Check : \/ asker'[c] = asker[c] \/ asker'[c].at # "writing"
                            \/ row.next # c \/ e \in {0, row.generation}
    PROVE  InOrder' /\ Safe'
<1>1. /\ \A m \in Runs : RunInOrder(m)'
      /\ last' = last + 1 /\ last + 1 \in Runs
      /\ run'[last + 1] = [NoRun EXCEPT !.at = "queued", !.trigger = t, !.expected = e]
      /\ \A m \in Runs \ {last + 1} : run'[m] = run[m]
      /\ \A m \in Runs : run[m].at \in {"none", "closed"}
  BY RegisterMoves
<1>2. PICK m \in Runs :
        /\ m = last + 1
        /\ run'[m].at = "queued" /\ run'[m].expected = e /\ run'[m].receipt = "absent"
  BY <1>1 DEF NoRun
<1>3. \A n \in Runs : run'[n] = run[n] \/ n = m
  BY <1>1, <1>2
<1>4. /\ last' \in Nat /\ last <= last' /\ (Live' <=> Live)
      /\ \A n \in Runs : run[n].at \notin {"queued", "loaded", "begun", "recording"}
  BY <1>1, Values DEF Live
<1>5. \A n \in Runs : run'[n].at # "recording"
  BY <1>2, <1>3, <1>4
<1>6. CursorsAreTaken'
  BY <1>5, CursorsStay
<1>7. Awaited => Awaited'
  <2>1. \A n \in Runs : ~WillRead(n)
    BY <1>4 DEF WillRead
  <2>2. \A n \in Runs : run'[n].receipt = "finished" => run'[n] = run[n]
    BY <1>2, <1>3
  <2> QED
    BY <1>4, <2>1, <2>2, AwaitedStays
<1>8. e \in {0, row.generation} => Awaited'
  <2>1. e \in {0, row.generation} => WillRead(m)'
    BY <1>2 DEF WillRead
  <2> QED
    BY <1>4, <2>1 DEF Awaited
<1>9. taken' = taken /\ AllTaken => AllTaken'
  BY AllTakenStays
<1>10. RowSleepsSafely'
  BY <1>4, <1>7, <1>8, <1>9 DEF IndInv, RowSleepsSafely
<1>11. ASSUME NEW c \in Check
       PROVE  CheckSleepsSafely(c)'
  <2>1. CheckSleepsSafely(c)
    BY DEF IndInv
  <2> QED
    BY <1>4, <1>7, <1>8, <1>9, <2>1 DEF CheckSleepsSafely
<1>12. \A n \in Runs : RunSleepsSafely(n)'
  BY <1>5 DEF RunSleepsSafely
<1> QED
  BY <1>1, <1>6, <1>10, <1>11, <1>12 DEF InOrder, Safe

LEMMA RegisterLater ==
    ASSUME IndInv, NEW t, NEW e, Register(t, e), row' = row
    PROVE  last' \in Nat /\ last <= last' /\ LeaseStays
<1>1. last' = last + 1
  BY DEF Register
<1>2. last \in Nat
  BY Values
<1>3. LeaseStays
  BY DEF LeaseStays
<1> QED
  BY <1>1, <1>2, <1>3

LEMMA RequestedOrderly ==
    ASSUME IndInv, NEW t, NEW g, Requested(t, g)
    PROVE  InOrder' /\ Safe'
<1>1. Register(t, g) /\ UNCHANGED <<row, head, asker, taken, stolen>>
  BY DEF Requested
<1>2. last' \in Nat /\ last <= last' /\ head' \in Nat /\ head <= head' /\ LeaseStays
  BY <1>1, Values, RegisterLater
<1>3. \A a \in Asker : AskerInOrder(a)'
  BY <1>1, <1>2, AskersStay
<1> QED
  BY <1>1, <1>3, RegisterSafe DEF TakenMoves

LEMMA StartAnswerLostOrderly ==
    ASSUME IndInv, NEW a \in Asker, StartAnswerLost(a)
    PROVE  InOrder' /\ Safe'
<1> DEFINE g == asker[a].row.generation
<1>1. /\ Register("AUTOMATIC", g) /\ UNCHANGED <<row, head, taken, stolen>>
      /\ asker' = [asker EXCEPT ![a] = Idle] /\ Idle.at = "idle" /\ Idle.head <= head
  BY Values DEF StartAnswerLost, Leave, Idle
<1> HIDE DEF g
<1>2. last' \in Nat /\ last <= last' /\ LeaseStays
  BY <1>1, RegisterLater
<1>3. /\ \A b \in Asker : AskerInOrder(b)'
      /\ asker'[a] = Idle /\ \A b \in Asker \ {a} : asker'[b] = asker[b]
  BY <1>1, <1>2, OneAskerMoves
<1>4. /\ \A d \in Delivery : asker'[d].at = "settling" => asker'[d] = asker[d]
      /\ \A c \in Check : asker'[c] = asker[c] \/ asker'[c].at # "writing"
  BY <1>1, <1>3 DEF Asker
<1> QED
  BY <1>1, <1>3, <1>4, RegisterSafe DEF TakenMoves

\* How taken moves for one who asked.
LEMMA AskedMoves ==
    ASSUME IndInv, NEW a \in Asker, head' = head, taken' = Asked(a)
    PROVE  /\ TakenMoves
           /\ taken' = taken \/ (a \in Delivery /\ Current(a) /\ taken' = Handed(asker[a].head))
BY AskerIs DEF TakenMoves, Asked, Current

LEMMA StartRunOrderly ==
    ASSUME IndInv, NEW a \in Asker, StartRun(a)
    PROVE  InOrder' /\ Safe'
<1> DEFINE g == asker[a].row.generation
           y == [asker[a] EXCEPT !.at = "writing", !.write = "later"]
           x == IF a \in Check THEN y ELSE Idle
<1>1. /\ Register("AUTOMATIC", g) /\ UNCHANGED <<row, head, stolen>>
      /\ asker' = [asker EXCEPT ![a] = x] /\ taken' = Asked(a) /\ asker[a].at = "starting"
  BY DEF StartRun
<1>2. y.at = "writing" /\ y.write = "later" /\ y.head = asker[a].head
  BY AskerIs DEF AskerState
<1> HIDE DEF y
<1>3. /\ x.head <= head /\ x.at \notin {"settling", "marking"}
      /\ x.at = "writing" => x.write = "later" /\ a \in Check
  BY <1>2, AskerIs, Values DEF Idle
<1> HIDE DEF x
<1>4. TakenMoves /\ (taken' = taken \/ row.generation = g)
  BY <1>1, AskedMoves DEF Current
<1>5. last' \in Nat /\ last <= last' /\ LeaseStays
  BY <1>1, RegisterLater
<1>6. /\ \A b \in Asker : AskerInOrder(b)'
      /\ asker'[a] = x /\ \A b \in Asker \ {a} : asker'[b] = asker[b]
  BY <1>1, <1>3, <1>5, OneAskerMoves
<1>7. \A d \in Delivery : asker'[d].at = "settling" => asker'[d] = asker[d]
  BY <1>3, <1>6 DEF Asker
<1>8. ASSUME NEW c \in Check, row.next = c, asker'[c].at = "writing", asker'[c] # asker[c]
      PROVE  row.generation = g
  <2>1. c = a
    BY <1>6, <1>8 DEF Asker
  <2> QED
    BY <1>1, <1>8, <2>1, LeaseIsFresh
<1> HIDE DEF g
<1>9. \A c \in Check : \/ asker'[c] = asker[c] \/ asker'[c].at # "writing"
                       \/ row.next # c \/ g \in {0, row.generation}
  BY <1>8
<1>10. taken' = taken \/ g \in {0, row.generation}
  BY <1>4
<1> QED
  BY <1>1, <1>4, <1>6, <1>7, <1>9, <1>10, RegisterSafe
LEMMA FinishIs ==
    ASSUME IndInv, NEW a \in Asker, Finish(a)
    PROVE  \E x : /\ asker' = [asker EXCEPT ![a] = x]
                  /\ x.head <= head /\ x.at \notin {"settling", "marking"}
                  /\ x.at = "writing" =>
                        a \in Check /\ x.write \in {"soon", "later"} /\ x.head = asker[a].head
<1> DEFINE e == IF asker[a].row.evaluated = 0 THEN "soon" ELSE "later"
           y == [asker[a] EXCEPT !.at = "writing", !.write = e]
           x == IF a \in Check THEN y ELSE Idle
<1>1. asker' = [asker EXCEPT ![a] = x]
  BY DEF Finish
<1>2. e \in {"soon", "later"}
  OBVIOUS
<1> HIDE DEF e
<1>3. y.at = "writing" /\ y.write = e /\ y.head = asker[a].head
  BY AskerIs DEF AskerState
<1> HIDE DEF y
<1>4. /\ x.head <= head /\ x.at \notin {"settling", "marking"}
      /\ x.at = "writing" =>
            a \in Check /\ x.write \in {"soon", "later"} /\ x.head = asker[a].head
  BY <1>2, <1>3, AskerIs, Values DEF Idle
<1> HIDE DEF x
<1> QED
  BY <1>1, <1>4

LEMMA RecordPendingHeadOrderly ==
    ASSUME IndInv, NEW a \in Asker, RecordPendingHead(a)
    PROVE  InOrder' /\ Safe'
<1>1. asker[a].at = "marking" /\ UNCHANGED <<head, run, last, stolen>>
  BY DEF RecordPendingHead
<1>2. CASE Current(a)
  <2> DEFINE x == [asker[a] EXCEPT !.at = "settling"]
  <2>1. /\ row' = [row EXCEPT !.pending = TRUE] /\ taken' = taken
        /\ asker' = [asker EXCEPT ![a] = x]
    BY <1>2 DEF RecordPendingHead, Goto
  <2>2. x.at = "settling" /\ x.head = asker[a].head /\ x.run = asker[a].run
    BY AskerIs DEF AskerState
  <2> HIDE DEF x
  <2>3. /\ row'.generation = row.generation /\ row'.exists = row.exists /\ row'.next = row.next
        /\ row'.evaluated = row.evaluated /\ row'.suppressed = row.suppressed
        /\ row'.pending /\ (Live' <=> Live)
    BY <2>1, Values DEF Row, Live
  <2>4. /\ \A b \in Asker : AskerInOrder(b)'
        /\ asker'[a] = x /\ \A b \in Asker \ {a} : asker'[b] = asker[b]
    <3>1. last' \in Nat /\ last <= last' /\ LeaseStays
      BY <1>1, <2>3, Values DEF LeaseStays
    <3>2. x.head <= head /\ x.run \in 1..last'
      BY <1>1, <2>2, AskerIs DEF AskerInOrder
    <3> QED
      BY <1>1, <2>1, <2>2, <2>3, <3>1, <3>2, OneAskerMoves
  <2>5. \A n \in Runs : RunInOrder(n)'
    BY <1>1, <2>3, RunsStay, Values
  <2>6. CursorsAreTaken'
    BY <1>1, <2>1, <2>3, CursorsStay DEF TakenMoves
  <2>7. Awaited => Awaited'
    BY <1>1, <2>3, AwaitedStays, NoRunMoves
  <2>8. AllTaken => AllTaken'
    BY <2>1, <2>3, AllTakenStays
  <2>9. \A c \in Check : asker'[c] = asker[c] \/ CheckSleepsSafely(c)'
    BY <2>2, <2>4 DEF Asker, CheckSleepsSafely
  <2>10. Safe'
    BY <1>1, <2>1, <2>3, <2>7, <2>8, <2>9, SleepStays
  <2> QED
    BY <2>4, <2>5, <2>6, <2>10 DEF InOrder
<1>3. CASE ~Current(a)
  <2>1. Finish(a) /\ row' = row /\ taken' = taken
    BY <1>3 DEF RecordPendingHead, Finish, Asked, Current
  <2>2. PICK x : /\ asker' = [asker EXCEPT ![a] = x]
                 /\ x.head <= head /\ x.at \notin {"settling", "marking"}
                 /\ x.at = "writing" => x.write \in {"soon", "later"}
    BY <2>1, FinishIs
  <2>3. ~(a \in Check /\ row.next = a /\ Live)
    BY <1>1, <1>3, LeaseIsFresh DEF Current, Live
  <2>4. x.at # "settling" /\ x.at # "marking"
        /\ (x.at = "writing" => x.write # "success" /\ x.write # "suppress")
    BY <2>2
  <2> QED
    BY <1>1, <2>1, <2>2, <2>3, <2>4, AskerMoves
<1> QED
  BY <1>2, <1>3

LEMMA SettlePendingHeadOrderly ==
    ASSUME IndInv, NEW a \in Asker, SettlePendingHead(a)
    PROVE  InOrder' /\ Safe'
<1> DEFINE n == asker[a].run
           applied == Current(a) /\ run[n].receipt = "finished"
<1>1. /\ asker[a].at = "settling" /\ UNCHANGED <<head, run, last>>
      /\ row' = IF applied THEN WithPendingHead(row) ELSE row
      /\ stolen' = (stolen \/ (applied /\ Steals(n)))
      /\ Finish(a) /\ taken' = Asked(a)
  BY DEF SettlePendingHead, Finish
<1>2. n \in 1..last /\ n \in Runs
  <2>1. n \in 1..last
    BY <1>1, AskerIs DEF AskerInOrder
  <2>2. last \in Nat /\ last <= MaxRun
    BY Values
  <2> QED
    BY <2>1, <2>2, BoundsAssumption DEF Runs
<1>3. /\ TakenMoves
      /\ taken' = taken \/ (a \in Delivery /\ Current(a) /\ taken' = Handed(asker[a].head))
  BY <1>1, AskedMoves
<1>4. PICK x : /\ asker' = [asker EXCEPT ![a] = x]
               /\ x.head <= head /\ x.at \notin {"settling", "marking"}
               /\ x.at = "writing" =>
                     a \in Check /\ x.write \in {"soon", "later"} /\ x.head = asker[a].head
  BY <1>1, FinishIs
<1>5. CASE applied /\ row.pending
  <2>1. /\ row'.generation = row.generation /\ row'.exists = row.exists
        /\ row'.evaluated = row.evaluated /\ row'.suppressed = row.suppressed
        /\ row'.next \in {"due", None}
    BY <1>1, <1>5, Values DEF WithPendingHead, Row
  <2>2. \A m \in Runs : RunInOrder(m)'
    BY <1>1, <2>1, RunsStay, Values
  <2>3. row'.next \notin Check /\ last' \in Nat /\ last <= last' /\ LeaseStays
    BY <1>1, <2>1, Values, BoundsAssumption DEF LeaseStays
  <2>4. \A b \in Asker : AskerInOrder(b)'
    BY <1>1, <1>4, <2>3, OneAskerMoves
  <2>5. CursorsAreTaken'
    BY <1>1, <1>3, <2>1, CursorsStay
  <2>6. ASSUME NEW m \in Runs
        PROVE  RunSleepsSafely(m)'
    <3>1. CASE run[m].at = "recording"
      <4>1. m # n
        BY <1>5, <3>1, RunIs DEF RunInOrder
      <4>2. stolen'
        BY <1>1, <1>5, <3>1, <4>1 DEF Steals
      <4> QED
        BY <4>2 DEF RunSleepsSafely
    <3>2. CASE run[m].at # "recording"
      BY <1>1, <3>2 DEF RunSleepsSafely
    <3> QED
      BY <3>1, <3>2
  <2>7. Safe'
    BY <2>1, <2>6, WakeIsSafe
  <2> QED
    BY <2>2, <2>4, <2>5, <2>7 DEF InOrder
<1>6. CASE ~(applied /\ row.pending)
  <2>1. row' = row /\ stolen' = stolen
    BY <1>1, <1>6, Values DEF WithPendingHead, Steals, TypeOK, IndInv
  <2>2. Current(a) /\ row.pending => WillConsume
    BY <1>2, <1>6 DEF WillConsume
  <2>3. a \in Check /\ row.next = a /\ Live => Awaited
    <3>1. a \in Check /\ row.next = a /\ Live => Current(a) /\ row.pending
      BY <1>1, AskerIs, LeaseIsFresh DEF AskerInOrder, Current, Live
    <3> QED
      BY <2>2, <3>1 DEF Awaited
  <2>4. ASSUME taken' # taken
        PROVE  a \notin Check /\ (WillConsume \/ ~AllTaken)
    <3>1. a \in Delivery /\ Current(a) /\ taken' = Handed(asker[a].head) /\ a \notin Check
      BY <1>3, <2>4, BoundsAssumption
    <3>2. AllTaken /\ ~row.pending => asker[a].head <= taken /\ taken \in Nat
      BY <1>1, <3>1, Values DEF AllTaken
    <3>3. AllTaken => row.pending
      BY <2>4, <3>1, <3>2, AskerIs, HandedAgain
    <3> QED
      BY <2>2, <3>1, <3>3
  <2>5. x.at # "settling" /\ x.at # "marking"
        /\ (x.at = "writing" => x.write # "success" /\ x.write # "suppress")
    BY <1>4
  <2> QED
    BY <1>1, <1>3, <1>4, <2>1, <2>3, <2>4, <2>5, AskerAsks
<1> QED
  BY <1>5, <1>6

LEMMA GiveUpOrderly ==
    ASSUME IndInv, NEW a \in Asker, GiveUp(a)
    PROVE  InOrder' /\ Safe'
BY LeaveMoves DEF GiveUp
-----------------------------------------------------------------------------
(* Steps of runs.                                                           *)

\* What run n may become in a step.
Follows(n, r) ==
    /\ r.at # "none" /\ run[n].at # "none" /\ (r.at # "closed" => run[n].at # "closed")
    /\ r.at \in {"queued", "loaded"} => r.receipt # "finished"
    /\ r.at = "begun" => r.receipt = "open"
    /\ r.at = "recording" => r.receipt = "open" \/ (r.receipt = "absent" /\ ~row.exists)
    /\ r.at = "completed" => r.receipt = "finished"
    /\ r.generation <= row.generation /\ r.row.generation <= row.generation
    /\ r.receipt = "finished" => run[n].receipt = "finished" /\ r.generation = run[n].generation

\* A run that writes no more than a lifted pause.
RowStays ==
    /\ row'.generation = row.generation /\ row'.exists = row.exists
    /\ row'.evaluated = row.evaluated /\ row'.suppressed = row.suppressed
    /\ row'.pending = row.pending
    /\ row' = row \/ row'.next = "due"

LEMMA RunGoesOn ==
    ASSUME IndInv, NEW n \in Runs, NEW r, SetRun(n, r), UNCHANGED <<head, asker, last>>,
           RowStays, Follows(n, r),
           row.exists /\ r.at = "recording" /\ r.generation = row.generation =>
              r.saw = 0 \/ (r.saw = head /\ taken' = head),
           \/ taken' = head
           \/ /\ UNCHANGED <<taken, stolen>>
              /\ row' = row /\ Live /\ WillRead(n) => WillRead(n)'
              /\ r.at = "recording" /\ r.effect \in Reschedules =>
                    ~row.exists \/ r.generation # row.generation
    PROVE  InOrder' /\ Safe'
<1>1. /\ \A m \in Runs : RunInOrder(m)'
      /\ run'[n] = r /\ \A m \in Runs \ {n} : run'[m] = run[m]
  BY OneRunMoves DEF RowStays, Follows
<1>2. /\ last' \in Nat /\ last <= last' /\ head' \in Nat /\ head <= head' /\ LeaseStays
      /\ TakenMoves
  BY Values, BoundsAssumption DEF LeaseStays, RowStays, TakenMoves
<1>3. \A a \in Asker : AskerInOrder(a)'
  BY <1>2, AskersStay
<1>4. ASSUME row.exists, r.at = "recording", r.generation = row.generation
      PROVE  IF taken' = None THEN r.saw < head' ELSE r.saw <= taken'
  BY <1>4, Values
<1>5. CursorsAreTaken'
  <2>1. ASSUME NEW m \in Runs, row.exists, run'[m].at = "recording",
               run'[m].generation = row.generation
        PROVE  \/ run[m].at = "recording" /\ run[m].generation = row.generation
                  /\ run'[m].saw = run[m].saw
               \/ Reached(run[m].saw)'
    BY <1>1, <1>4, <2>1 DEF Reached
  <2> QED
    BY <1>2, <2>1, CursorsStay DEF RowStays
<1>6. CASE taken' = head
  BY <1>1, <1>3, <1>5, <1>6, TriedIsSafe DEF InOrder
<1>7. CASE /\ UNCHANGED <<taken, stolen>>
           /\ row' = row /\ Live /\ WillRead(n) => WillRead(n)'
           /\ r.at = "recording" /\ r.effect \in Reschedules =>
                 ~row.exists \/ r.generation # row.generation
  <2>1. RunSleepsSafely(n)'
    BY <1>1, <1>7 DEF RunSleepsSafely, RowStays
  <2>2. AllTaken => AllTaken'
    BY <1>7, AllTakenStays DEF RowStays
  <2>3. CASE row' = row
    <3>1. \A m \in Runs : run'[m].receipt = "finished" /\ run'[m].generation = row.generation =>
              run[m].receipt = "finished" /\ run[m].generation = row.generation
      BY <1>1 DEF Follows
    <3>2. ASSUME Live, NEW m \in Runs, WillRead(m)
          PROVE  WillRead(m)'
      BY <1>1, <1>7, <2>3, <3>2 DEF WillRead
    <3>3. Live /\ Awaited => Awaited'
      BY <1>2, <1>7, <2>3, <3>1, <3>2, AwaitedStays
    <3>4. Live' => Live
      BY <2>3 DEF Live
    <3>5. \A m \in Runs : run'[m] = run[m] \/ RunSleepsSafely(m)'
      BY <1>1, <2>1
    <3>6. Safe'
      BY <1>7, <2>2, <2>3, <3>3, <3>4, <3>5, SleepStays
    <3> QED
      BY <1>1, <1>3, <1>5, <3>6 DEF InOrder
  <2>4. CASE row'.next = "due"
    <3>1. \A m \in Runs : RunSleepsSafely(m)'
      BY <1>1, <1>7, <2>1, <2>2, RunSleepStays DEF RowStays
    <3> QED
      BY <1>1, <1>3, <1>5, <2>4, <3>1, WakeIsSafe DEF InOrder
  <2> QED
    BY <2>3, <2>4 DEF RowStays
<1> QED
  BY <1>6, <1>7
LEMMA RecordingIs ==
    ASSUME NEW q, NEW e, NEW saw
    PROVE  LET r == Recording(q, e, saw) IN
           /\ r.at = "recording" /\ r.receipt = q.receipt /\ r.generation = q.generation
           /\ r.saw \in {0, saw} /\ r.effect \in {e, "none"} /\ r.row = Blank
BY DEF Recording, NoRun

LEMMA OldGeneration ==
    ASSUME IndInv
    PROVE  Blank.generation <= row.generation
BY Values, BoundsAssumption DEF Blank, Row

\* An attempt that counts for the row, or for no row there is.
LEMMA AttemptedIs ==
    ASSUME NEW g, Attempted(g)
    PROVE  \/ row.exists /\ g = row.generation /\ taken' = head
           \/ ~(row.exists /\ g = row.generation) /\ UNCHANGED <<taken, stolen>>
BY DEF Attempted

LEMMA SameRowStays ==
    ASSUME row' = row
    PROVE  RowStays
BY DEF RowStays

LEMMA LoadRowOrderly ==
    ASSUME IndInv, NEW n \in Runs, LoadRow(n)
    PROVE  InOrder' /\ Safe'
<1>1. /\ run[n].at = "queued" /\ UNCHANGED <<row, head, asker, last, taken, stolen>>
      /\ run[n].receipt # "finished" /\ run[n].receipt \in {"absent", "open", "finished"}
      /\ run[n].generation <= row.generation
  BY RunIs DEF LoadRow, RunInOrder, RunState
<1>2. RowStays
  BY <1>1, SameRowStays
<1>3. CASE row.exists
  <2> DEFINE r == [run[n] EXCEPT !.at = "loaded", !.row = Flags(row)]
  <2>1. SetRun(n, r)
    BY <1>3 DEF LoadRow
  <2>2. /\ r.at = "loaded" /\ r.receipt = run[n].receipt /\ r.generation = run[n].generation
        /\ r.expected = run[n].expected /\ r.row = Flags(row)
    BY RunIs DEF RunState
  <2>3. /\ Flags(row).generation = row.generation /\ Flags(row).automatic = row.automatic
        /\ Flags(row).pause = row.pause
    BY DEF Flags, Blank
  <2> HIDE DEF r
  <2>4. run'[n] = r
    BY <2>1, Values DEF SetRun
  <2>5. Live /\ WillRead(n) => WillRead(n)'
    BY <1>1, <2>2, <2>3, <2>4 DEF WillRead, Live
  <2>6. Follows(n, r)
    BY <1>1, <2>2, <2>3, Values DEF Follows
  <2> QED
    BY <1>1, <1>2, <2>1, <2>2, <2>5, <2>6, RunGoesOn
<1>4. CASE ~row.exists
  <2> DEFINE r == Recording(run[n], "backoff", 0)
  <2>1. SetRun(n, r)
    BY <1>4 DEF LoadRow
  <2>2. /\ r.at = "recording" /\ r.receipt = run[n].receipt /\ r.generation = run[n].generation
        /\ r.row = Blank
    BY RecordingIs
  <2> HIDE DEF r
  <2>3. Follows(n, r)
    BY <1>1, <1>4, <2>2, OldGeneration DEF Follows
  <2> QED
    BY <1>1, <1>2, <1>4, <2>1, <2>2, <2>3, RunGoesOn DEF Live
<1> QED
  BY <1>3, <1>4

LEMMA CloseOrderly ==
    ASSUME IndInv, NEW n \in Runs, Close(n)
    PROVE  InOrder' /\ Safe'
<1> DEFINE r == [run[n] EXCEPT !.at = "closed"]
<1>1. /\ run[n].at \in {"completed", "recording"} /\ SetRun(n, r)
      /\ UNCHANGED <<row, head, asker, last, taken, stolen>>
  BY DEF Close
<1>2. /\ r.at = "closed" /\ r.receipt = run[n].receipt /\ r.generation = run[n].generation
      /\ r.row = run[n].row
  BY RunIs DEF RunState
<1> HIDE DEF r
<1>3. Follows(n, r)
  BY <1>1, <1>2, RunIs DEF Follows, RunInOrder
<1>4. ~WillRead(n)
  BY <1>1 DEF WillRead
<1>5. RowStays
  BY <1>1, SameRowStays
<1> QED
  BY <1>1, <1>2, <1>3, <1>4, <1>5, RunGoesOn

LEMMA TerminateOrderly ==
    ASSUME IndInv, NEW n \in Runs, Terminate(n)
    PROVE  InOrder' /\ Safe'
<1> DEFINE r == [NoRun EXCEPT !.at = "closed", !.generation = run[n].generation,
                              !.receipt = run[n].receipt]
<1>1. /\ run[n].at \notin {"none", "closed"} /\ SetRun(n, r)
      /\ UNCHANGED <<row, head, asker, last>> /\ Attempted(row.generation)
  BY DEF Terminate, Open
<1>2. /\ r.at = "closed" /\ r.receipt = run[n].receipt /\ r.generation = run[n].generation
      /\ r.row = Blank
  BY DEF NoRun
<1> HIDE DEF r
<1>3. Follows(n, r)
  BY <1>1, <1>2, RunIs, OldGeneration DEF Follows, RunInOrder
<1>4. RowStays
  BY <1>1, SameRowStays
<1>5. taken' = head \/ (UNCHANGED <<taken, stolen>> /\ ~Live)
  BY <1>1, AttemptedIs DEF Live
<1> QED
  BY <1>1, <1>2, <1>3, <1>4, <1>5, RunGoesOn

LEMMA AcquireOrderly ==
    ASSUME IndInv, NEW n \in Runs, Acquire(n)
    PROVE  InOrder' /\ Safe'
<1>1. /\ run[n].at = "begun" /\ UNCHANGED <<row, head, asker, last>>
      /\ Attempted(run[n].generation)
  BY DEF Acquire
<1>2. PICK effect \in Effect : SetRun(n, Recording(run[n], effect, head))
  BY DEF Acquire
<1> DEFINE r == Recording(run[n], effect, head)
<1>3. /\ r.at = "recording" /\ r.receipt = run[n].receipt /\ r.generation = run[n].generation
      /\ r.row = Blank /\ r.saw \in {0, head}
  BY RecordingIs
<1>4. SetRun(n, r)
  BY <1>2
<1> HIDE DEF r
<1>5. Follows(n, r)
  BY <1>1, <1>3, RunIs, OldGeneration DEF Follows, RunInOrder
<1>6. RowStays
  BY <1>1, SameRowStays
<1>7. CASE row.exists /\ run[n].generation = row.generation /\ taken' = head
  BY <1>1, <1>3, <1>4, <1>5, <1>6, <1>7, RunGoesOn
<1>8. CASE ~(row.exists /\ run[n].generation = row.generation) /\ UNCHANGED <<taken, stolen>>
  <2>1. ~(Live /\ WillRead(n))
    BY <1>1, <1>8, RunIs DEF Live, WillRead, RunInOrder
  <2> QED
    BY <1>1, <1>3, <1>4, <1>5, <1>6, <1>8, <2>1, RunGoesOn
<1> QED
  BY <1>1, <1>7, <1>8, AttemptedIs
\* A loaded run, with its receipt.
LEMMA LoadedIs ==
    ASSUME IndInv, NEW n \in Runs, NEW q, q = WithReceipt(run[n]), q.at = "loaded"
    PROVE  /\ run[n].at = "loaded" /\ q.receipt = "open" /\ q.row = run[n].row
           /\ q.trigger = run[n].trigger /\ q.expected = run[n].expected
           /\ q.generation <= row.generation /\ q.row.generation <= row.generation
           /\ WillRead(n) => /\ q.generation = row.generation
                             /\ q.row.generation = row.generation
                             /\ q.row.automatic /\ q.row.pause = None
                             /\ q.expected \in {0, row.generation}
<1>1. /\ run[n] \in RunState /\ RunInOrder(n)
  BY RunIs
<1>2. CASE run[n].receipt = "absent"
  <2>1. q = [run[n] EXCEPT !.receipt = "open", !.generation = run[n].row.generation]
    BY <1>2 DEF WithReceipt
  <2>2. /\ q.at = run[n].at /\ q.receipt = "open" /\ q.row = run[n].row
        /\ q.trigger = run[n].trigger /\ q.expected = run[n].expected
        /\ q.generation = run[n].row.generation
    BY <1>1, <2>1 DEF RunState
  <2> QED
    BY <1>1, <2>2 DEF RunInOrder, WillRead
<1>3. CASE run[n].receipt # "absent"
  <2>1. q = run[n]
    BY <1>3 DEF WithReceipt
  <2>2. run[n].receipt \in {"absent", "open", "finished"}
    BY <1>1 DEF RunState
  <2> QED
    BY <1>1, <1>3, <2>1, <2>2 DEF RunInOrder, WillRead
<1> QED
  BY <1>2, <1>3

LEMMA LiftedStays ==
    ASSUME IndInv, NEW lifted, row' = IF lifted THEN Lifted(row) ELSE row
    PROVE  RowStays
BY Values DEF RowStays, Lifted, Row

\* A run whose begin failed, and is recorded.
LEMMA BeginFailed ==
    ASSUME IndInv, NEW n \in Runs, NEW q, q = WithReceipt(run[n]), q.at = "loaded",
           NEW out, SetRun(n, Recording(q, out, 0)), UNCHANGED <<head, asker, last>>,
           RowStays, Attempted(q.generation)
    PROVE  InOrder' /\ Safe'
<1> DEFINE r == Recording(q, out, 0)
<1>1. /\ r.at = "recording" /\ r.receipt = q.receipt /\ r.generation = q.generation
      /\ r.row = Blank /\ r.saw = 0
  BY RecordingIs
<1>2. SetRun(n, r)
  OBVIOUS
<1> HIDE DEF r
<1>3. Follows(n, r)
  BY <1>1, LoadedIs, OldGeneration DEF Follows
<1>4. CASE row.exists /\ q.generation = row.generation /\ taken' = head
  BY <1>1, <1>2, <1>3, <1>4, RunGoesOn
<1>5. CASE ~(row.exists /\ q.generation = row.generation) /\ UNCHANGED <<taken, stolen>>
  <2>1. ~(Live /\ WillRead(n))
    BY <1>5, LoadedIs DEF Live
  <2> QED
    BY <1>1, <1>2, <1>3, <1>5, <2>1, RunGoesOn
<1> QED
  BY <1>4, <1>5, AttemptedIs

LEMMA BeginOrderly ==
    ASSUME IndInv, NEW n \in Runs, Begin(n)
    PROVE  InOrder' /\ Safe'
<1> DEFINE q == WithReceipt(run[n])
<1>1. q.at = "loaded" /\ UNCHANGED <<head, asker, last>>
  BY DEF Begin
<1>2. PICK lifted \in LiftsPause(q) : \E out \in BeginOutcomes(q, lifted) :
         /\ row' = IF lifted THEN Lifted(row) ELSE row
         /\ SetRun(n, IF out = "begun" THEN [q EXCEPT !.at = "begun", !.row = Blank, !.expected = 0]
                      ELSE Recording(q, out, 0))
         /\ IF out \in {"backoff", "PERMISSION_REVOKED"}
            THEN Attempted(q.generation) ELSE UNCHANGED <<taken, stolen>>
  BY DEF Begin
<1>3. PICK out \in BeginOutcomes(q, lifted) :
         /\ row' = IF lifted THEN Lifted(row) ELSE row
         /\ SetRun(n, IF out = "begun" THEN [q EXCEPT !.at = "begun", !.row = Blank, !.expected = 0]
                      ELSE Recording(q, out, 0))
         /\ IF out \in {"backoff", "PERMISSION_REVOKED"}
            THEN Attempted(q.generation) ELSE UNCHANGED <<taken, stolen>>
  BY <1>2
<1>4. RowStays
  BY <1>3, LiftedStays
<1>5. /\ run[n].at = "loaded" /\ q.receipt = "open" /\ q.row = run[n].row
      /\ q.generation <= row.generation /\ q.row.generation <= row.generation
      /\ WillRead(n) => /\ q.generation = row.generation
                        /\ q.row.generation = row.generation
                        /\ q.row.automatic /\ q.row.pause = None
                        /\ q.expected \in {0, row.generation}
  BY <1>1, LoadedIs
<1>6. CASE out \in {"backoff", "PERMISSION_REVOKED"}
  BY <1>1, <1>3, <1>4, <1>6, BeginFailed
<1>7. CASE out = "none"
  <2> DEFINE r == Recording(q, "none", 0)
  <2>1. SetRun(n, r) /\ UNCHANGED <<taken, stolen>>
    BY <1>3, <1>7
  <2>2. ~WillRead(n)
    BY <1>3, <1>5, <1>7 DEF BeginOutcomes
  <2>3. /\ r.at = "recording" /\ r.receipt = q.receipt /\ r.generation = q.generation
        /\ r.row = Blank /\ r.saw = 0 /\ r.effect = "none"
    BY RecordingIs
  <2> HIDE DEF r, q
  <2>4. Follows(n, r)
    BY <1>5, <2>3, OldGeneration DEF Follows
  <2>5. r.effect \notin Reschedules
    BY <2>3 DEF Reschedules
  <2> QED
    BY <1>1, <1>4, <2>1, <2>2, <2>3, <2>4, <2>5, RunGoesOn
<1>8. CASE out = "begun"
  <2> DEFINE r == [q EXCEPT !.at = "begun", !.row = Blank, !.expected = 0]
  <2>1. SetRun(n, r) /\ UNCHANGED <<taken, stolen>>
    BY <1>3, <1>8
  <2>2. q \in RunState
    BY RunIs, ReceiptState
  <2>3. /\ r.at = "begun" /\ r.receipt = q.receipt /\ r.generation = q.generation
        /\ r.row = Blank /\ r.expected = 0
    BY <2>2 DEF RunState
  <2> HIDE DEF r, q
  <2>4. Follows(n, r)
    BY <1>5, <2>3, OldGeneration DEF Follows
  <2>5. run'[n] = r
    BY <2>1, Values DEF SetRun
  <2>6. row' = row /\ WillRead(n) => WillRead(n)'
    BY <1>5, <2>3, <2>5 DEF WillRead
  <2> QED
    BY <1>1, <1>4, <2>1, <2>3, <2>4, <2>6, RunGoesOn
<1> QED
  BY <1>6, <1>7, <1>8 DEF BeginOutcomes

LEMMA BeginLostOrderly ==
    ASSUME IndInv, NEW n \in Runs, BeginLost(n)
    PROVE  InOrder' /\ Safe'
<1> DEFINE q == WithReceipt(run[n])
           r == [q EXCEPT !.at = "queued", !.row = Blank]
<1>1. /\ q.at = "loaded" /\ UNCHANGED <<head, asker, last>>
      /\ \E lifted \in LiftsPause(q) : row' = IF lifted THEN Lifted(row) ELSE row
      /\ \/ SetRun(n, r) /\ UNCHANGED <<taken, stolen>>
         \/ SetRun(n, Recording(q, "backoff", 0)) /\ Attempted(q.generation)
  BY DEF BeginLost
<1>2. RowStays
  BY <1>1, LiftedStays
<1>3. CASE SetRun(n, Recording(q, "backoff", 0)) /\ Attempted(q.generation)
  BY <1>1, <1>2, <1>3, BeginFailed
<1>4. CASE SetRun(n, r) /\ UNCHANGED <<taken, stolen>>
  <2>1. q \in RunState
    BY RunIs, ReceiptState
  <2>2. /\ r.at = "queued" /\ r.receipt = q.receipt /\ r.generation = q.generation
        /\ r.row = Blank /\ r.expected = q.expected
    BY <2>1 DEF RunState
  <2>3. /\ run[n].at = "loaded" /\ q.receipt = "open" /\ q.row = run[n].row
        /\ q.generation <= row.generation
        /\ WillRead(n) => /\ q.generation = row.generation
                          /\ q.expected \in {0, row.generation}
    BY <1>1, LoadedIs
  <2> HIDE DEF r, q
  <2>4. Follows(n, r)
    BY <2>2, <2>3, OldGeneration DEF Follows
  <2>5. run'[n] = r
    BY <1>4, Values DEF SetRun
  <2>6. row' = row /\ WillRead(n) => WillRead(n)'
    BY <2>2, <2>3, <2>5 DEF WillRead
  <2> QED
    BY <1>1, <1>2, <1>4, <2>2, <2>4, <2>6, RunGoesOn
<1> QED
  BY <1>1, <1>3, <1>4
-----------------------------------------------------------------------------
(* A completion: the receipt, and the schedule of the current configuration.*)

LEMMA PatchedIs ==
    ASSUME NEW r \in Row, NEW e \in Effect, NEW sha \in Commit
    PROVE  LET s == Patched(r, e, sha) IN
           /\ s \in Row
           /\ s.generation = r.generation /\ s.exists = r.exists /\ s.pending = r.pending
           /\ s.evaluated \in {r.evaluated, sha} /\ s.suppressed \in {r.suppressed, sha}
           /\ e = "none" => s = r
           /\ e \in Reschedules => s.next \in {"later", "soon"}
           /\ e \notin Reschedules \cup {"none"} => s.next = None
<1>1. CASE e \in {"none", "success", "suppress"}
  BY <1>1 DEF Patched, Row, Reschedules
<1>2. CASE e \in {"backoff", "later", "soon"}
  BY <1>2 DEF Patched, Row, Reschedules
<1>3. CASE e \in {"REF_MISSING", "PERMISSION_REVOKED"}
  BY <1>3 DEF Patched, Row, Reschedules, Pause
<1> QED
  BY <1>1, <1>2, <1>3 DEF Effect

LEMMA PendingIs ==
    ASSUME NEW r \in Row, r.pending
    PROVE  LET s == WithPendingHead(r) IN
           /\ s.generation = r.generation /\ s.exists = r.exists
           /\ s.evaluated = r.evaluated /\ s.suppressed = r.suppressed
           /\ s.next \in {"due", None} /\ ~s.pending
BY DEF WithPendingHead, Row

LEMMA NothingPending ==
    ASSUME NEW r \in Row, ~r.pending
    PROVE  WithPendingHead(r) = r
BY DEF WithPendingHead

LEMMA CompleteOrderly ==
    ASSUME IndInv, NEW n \in Runs, NEW effect \in Effect, NEW at,
           \/ run[n].at = "recording" /\ run[n].effect = effect /\ at = "completed"
           \/ run[n].at = "closed" /\ effect = "none" /\ at = "closed",
           Complete(n, effect, at)
    PROVE  InOrder' /\ Safe'
<1> DEFINE r == [NoRun EXCEPT !.at = at, !.generation = run[n].generation,
                              !.receipt = "finished"]
           current == row.exists /\ row.generation = run[n].generation
<1>1. /\ SetRun(n, r) /\ UNCHANGED <<head, asker, last, taken>>
      /\ stolen' = (stolen \/ Steals(n)) /\ run[n].receipt = "open"
      /\ ~current => row' = row
  BY DEF Complete
<1>2. /\ r.at = at /\ r.receipt = "finished" /\ r.generation = run[n].generation
      /\ r.row = Blank
  BY DEF NoRun
<1> HIDE DEF r
<1>3. run[n].saw \in Commit /\ run[n].generation <= row.generation /\ row \in Row
  BY RunIs, Values DEF RunInOrder
<1>4. current => \E e \in Effect :
         /\ row' = WithPendingHead(Patched(row, e, run[n].saw))
         /\ e \in {effect, "none"}
  BY DEF Complete, Effect
<1>5. ASSUME row'.generation = row.generation, row'.exists = row.exists
      PROVE  /\ \A m \in Runs : RunInOrder(m)'
             /\ run'[n] = r /\ \A m \in Runs \ {n} : run'[m] = run[m]
             /\ run'[n].at # "recording" /\ TakenMoves
  <2>1. /\ \A m \in Runs : RunInOrder(m)'
        /\ run'[n] = r /\ \A m \in Runs \ {n} : run'[m] = run[m]
    BY <1>1, <1>2, <1>3, <1>5, OldGeneration, OneRunMoves
  <2> QED
    BY <1>1, <1>2, <2>1 DEF TakenMoves
<1>6. LeaseStays => \A a \in Asker : AskerInOrder(a)'
  BY <1>1, AskersStay, Values
<1>7. ~WillRead(n)
  BY DEF WillRead
\* The row stays as it is: of another configuration, or without an effect.
<1>8. ASSUME row' = row, ~current \/ ~row.pending
      PROVE  InOrder' /\ Safe'
  <2>1. /\ \A m \in Runs : RunInOrder(m)'
        /\ run'[n] = r /\ \A m \in Runs \ {n} : run'[m] = run[m]
        /\ run'[n].at # "recording" /\ TakenMoves
    BY <1>5, <1>8
  <2>2. \A a \in Asker : AskerInOrder(a)'
    BY <1>6, <1>8 DEF LeaseStays
  <2>3. CursorsAreTaken'
    BY <1>8, <2>1, CursorsStay
  <2>4. Live /\ Awaited => Awaited'
    <3>1. \A m \in Runs : WillRead(m) => WillRead(m)'
      BY <1>7, <1>8, <2>1 DEF WillRead
    <3>2. CASE ~row.pending
      BY <1>1, <3>1, <3>2 DEF Awaited, WillConsume
    <3>3. CASE Live /\ ~current
      <4>1. \A m \in Runs : run'[m].receipt = "finished" /\ run'[m].generation = row.generation =>
                run[m].receipt = "finished" /\ run[m].generation = row.generation
        BY <1>2, <2>1, <3>3 DEF Live
      <4>2. last' \in Nat /\ last <= last'
        BY <1>1, Values
      <4> QED
        BY <1>1, <1>8, <3>1, <4>1, <4>2, AwaitedStays
    <3> QED
      BY <1>8, <3>2, <3>3
  <2>5. AllTaken => AllTaken'
    BY <1>1, <1>8, AllTakenStays
  <2>6. \A m \in Runs : run'[m] = run[m] \/ RunSleepsSafely(m)'
    BY <2>1 DEF RunSleepsSafely
  <2>7. Live' => Live
    BY <1>8 DEF Live
  <2>8. Safe'
    BY <1>1, <1>8, <2>4, <2>5, <2>6, <2>7, SleepStays
  <2> QED
    BY <2>1, <2>2, <2>3, <2>8 DEF InOrder
\* The run is of the current configuration.
<1>9. CASE current
  <2>1. PICK e \in Effect : /\ row' = WithPendingHead(Patched(row, e, run[n].saw))
                            /\ e \in {effect, "none"}
    BY <1>4, <1>9
  <2> DEFINE s == Patched(row, e, run[n].saw)
  <2>2. /\ s \in Row
        /\ s.generation = row.generation /\ s.exists = row.exists /\ s.pending = row.pending
        /\ s.evaluated \in {row.evaluated, run[n].saw}
        /\ s.suppressed \in {row.suppressed, run[n].saw}
        /\ e = "none" => s = row
        /\ e \in Reschedules => s.next \in {"later", "soon"}
        /\ e \notin Reschedules \cup {"none"} => s.next = None
    BY <1>3, PatchedIs
  <2>3. row' = WithPendingHead(s)
    BY <2>1
  <2> HIDE DEF s
  <2>4. e # "none" => run[n].at = "recording" /\ run[n].effect = e
    BY <2>1
  <2>5. e # "none" => /\ IF taken' = None THEN run[n].saw < head' ELSE run[n].saw <= taken'
    <3>1. e # "none" => Reached(run[n].saw)
      BY <1>9, <2>4 DEF IndInv, CursorsAreTaken
    <3> QED
      BY <1>1, <3>1 DEF Reached
  <2>6. ASSUME row'.evaluated = s.evaluated, row'.suppressed = s.suppressed,
               row'.generation = row.generation, row'.exists = row.exists
        PROVE  CursorsAreTaken'
    <3>1. /\ row'.evaluated = row.evaluated \/ Reached(row.evaluated)'
          /\ row'.suppressed = row.suppressed \/ Reached(row.suppressed)'
      BY <2>2, <2>5, <2>6 DEF Reached
    <3> QED
      BY <1>5, <2>6, <3>1, CursorsStay
  <2>7. CASE row.pending
    <3>1. /\ row'.generation = row.generation /\ row'.exists = row.exists
          /\ row'.evaluated = s.evaluated /\ row'.suppressed = s.suppressed
          /\ row'.next \in {"due", None}
      BY <2>2, <2>3, <2>7, PendingIs
    <3>2. LeaseStays
      BY <3>1, BoundsAssumption DEF LeaseStays
    <3>3. ASSUME NEW m \in Runs
          PROVE  RunSleepsSafely(m)'
      <4>1. CASE m # n /\ run[m].at = "recording"
        BY <1>1, <2>7, <4>1 DEF Steals, RunSleepsSafely
      <4>2. CASE m = n \/ run[m].at # "recording"
        BY <1>5, <3>1, <4>2 DEF RunSleepsSafely
      <4> QED
        BY <4>1, <4>2
    <3>4. Safe'
      BY <3>1, <3>3, WakeIsSafe
    <3> QED
      BY <1>5, <1>6, <2>6, <3>1, <3>2, <3>4 DEF InOrder
  <2>8. CASE ~row.pending /\ e = "none"
    BY <1>8, <2>2, <2>3, <2>8, NothingPending
  <2>9. CASE ~row.pending /\ e # "none"
    <3>1. row' = s
      BY <2>2, <2>3, <2>9, NothingPending
    <3>2. row'.next \notin Check /\ LeaseStays
      BY <2>2, <2>9, <3>1, BoundsAssumption DEF LeaseStays
    <3>3. /\ \A m \in Runs : RunInOrder(m)'
          /\ \A m \in Runs \ {n} : run'[m] = run[m]
          /\ run'[n].at # "recording" /\ CursorsAreTaken'
      BY <1>5, <2>2, <2>6, <3>1
    <3>4. stolen' = stolen
      BY <1>1, <2>9, Values DEF Steals, IndInv, TypeOK
    <3>5. AllTaken => AllTaken'
      BY <1>1, <2>2, <3>1, AllTakenStays
    <3>6. ASSUME NEW m \in Runs
          PROVE  RunSleepsSafely(m)'
      <4>1. CASE m = n
        BY <3>3, <4>1 DEF RunSleepsSafely
      <4>2. CASE m # n
        BY <2>2, <3>1, <3>3, <3>4, <3>5, <4>2, RunSleepStays
      <4> QED
        BY <4>1, <4>2
    <3>7. e \in Reschedules => stolen' \/ AllTaken'
      <4>1. RunSleepsSafely(n)
        BY DEF IndInv
      <4> QED
        BY <1>9, <2>4, <2>9, <3>4, <3>5, <4>1 DEF RunSleepsSafely
    <3>8. RowSleepsSafely'
      BY <2>2, <2>9, <3>1, <3>7, BoundsAssumption DEF RowSleepsSafely, Awaited
    <3>9. \A c \in Check : CheckSleepsSafely(c)'
      BY <3>2 DEF CheckSleepsSafely
    <3> QED
      BY <1>6, <3>2, <3>3, <3>6, <3>8, <3>9 DEF InOrder, Safe
  <2> QED
    BY <2>7, <2>8, <2>9
<1> QED
  BY <1>1, <1>8, <1>9
LEMMA RecordOrderly ==
    ASSUME IndInv, NEW n \in Runs, Record(n)
    PROVE  InOrder' /\ Safe'
<1>1. run[n].effect \in Effect
  BY RunIs DEF RunState
<1> QED
  BY <1>1, CompleteOrderly DEF Record

LEMMA ReapOrderly ==
    ASSUME IndInv, NEW n \in Runs, Reap(n)
    PROVE  InOrder' /\ Safe'
BY CompleteOrderly DEF Reap, Effect

-----------------------------------------------------------------------------
(* Members, the branch and time.                                            *)

\* A new configuration has read nothing and heard of nothing.
LEMMA NewConfiguration ==
    ASSUME IndInv, UNCHANGED <<head, asker, run, last>>, taken' = None,
           row'.generation = row.generation + 1, row'.exists => row.exists,
           row'.evaluated = 0, row'.suppressed = 0, row'.next = "due"
    PROVE  InOrder' /\ Safe'
<1>1. \A n \in Runs : RunInOrder(n)'
  BY RunsStay, Values
<1>2. LeaseStays
  BY BoundsAssumption DEF LeaseStays
<1>3. \A a \in Asker : AskerInOrder(a)'
  BY <1>2, AskersStay, Values
<1>4. \A n \in Runs : run'[n].generation # row'.generation
  <2> SUFFICES ASSUME NEW n \in Runs PROVE run[n].generation # row.generation + 1
    OBVIOUS
  <2>1. run[n].generation <= row.generation /\ run[n].generation \in Nat
    BY RunIs DEF RunInOrder
  <2> QED
    BY <2>1, Values
<1>5. CursorsAreTaken'
  BY <1>4, Values DEF CursorsAreTaken, Reached
<1>6. \A n \in Runs : RunSleepsSafely(n)'
  BY <1>4 DEF RunSleepsSafely
<1> QED
  BY <1>1, <1>3, <1>5, <1>6, WakeIsSafe DEF InOrder

\* The row comes due, and keeps what it knows.
LEMMA RowWakes ==
    ASSUME IndInv, RowStays, row'.next = "due", UNCHANGED <<head, asker, run, last, taken, stolen>>
    PROVE  InOrder' /\ Safe'
<1>1. \A n \in Runs : RunInOrder(n)'
  BY RunsStay, Values DEF RowStays
<1>2. LeaseStays /\ TakenMoves
  BY BoundsAssumption DEF LeaseStays, TakenMoves
<1>3. \A a \in Asker : AskerInOrder(a)'
  BY <1>2, AskersStay, Values
<1>4. CursorsAreTaken'
  BY <1>2, CursorsStay DEF RowStays
<1>5. AllTaken => AllTaken'
  BY AllTakenStays DEF RowStays
<1>6. \A n \in Runs : RunSleepsSafely(n)'
  BY <1>5, RunSleepStays DEF RowStays
<1> QED
  BY <1>1, <1>3, <1>4, <1>6, WakeIsSafe DEF InOrder

LEMMA ReconfigureOrderly ==
    ASSUME IndInv, Reconfigure
    PROVE  InOrder' /\ Safe'
<1>1. PICK u \in Delegate, on \in BOOLEAN : row' = Evaluate(Configured(row, u, on))
  BY DEF Reconfigure
<1> DEFINE s == Configured(row, u, on)
<1>2. s \in Row /\ s.generation = row.generation
  BY Values, ConfiguredRow
<1>3. s.exists = row.exists
  BY Values DEF Configured, Row
<1>4. row' = Evaluate(s)
  BY <1>1
<1> HIDE DEF s
<1>5. /\ row'.generation = row.generation + 1 /\ row'.exists = row.exists
      /\ row'.evaluated = 0 /\ row'.suppressed = 0 /\ row'.next = "due"
  BY <1>2, <1>3, <1>4 DEF Evaluate, Row
<1> QED
  BY <1>5, NewConfiguration DEF Reconfigure

LEMMA ChangeSettingsOrderly ==
    ASSUME IndInv, ChangeSettings
    PROVE  InOrder' /\ Safe'
<1>1. /\ row'.generation = row.generation + 1 /\ row'.exists = row.exists
      /\ row'.evaluated = 0 /\ row'.suppressed = 0 /\ row'.next = "due"
  BY Values DEF ChangeSettings, Evaluate, Row
<1> QED
  BY <1>1, NewConfiguration DEF ChangeSettings

LEMMA ConfigureFlagsOrderly ==
    ASSUME IndInv, ConfigureFlags
    PROVE  InOrder' /\ Safe'
<1>1. PICK u \in Delegate, on \in BOOLEAN : row' = Configured(row, u, on)
  BY DEF ConfigureFlags
<1>2. RowStays /\ row'.next = "due"
  BY <1>1, Values DEF Configured, Row, RowStays
<1> QED
  BY <1>2, RowWakes DEF ConfigureFlags

LEMMA ComeDueOrderly ==
    ASSUME IndInv, ComeDue
    PROVE  InOrder' /\ Safe'
<1>1. RowStays /\ row'.next = "due"
  BY Values DEF ComeDue, Row, RowStays
<1> QED
  BY <1>1, RowWakes DEF ComeDue

LEMMA DisconnectOrderly ==
    ASSUME IndInv, Disconnect
    PROVE  InOrder' /\ Safe'
<1>1. /\ row'.generation = row.generation /\ ~row'.exists /\ row'.next = "due"
      /\ UNCHANGED <<head, asker, run, last>> /\ taken' = None
  BY Values DEF Disconnect, Blank, Row
<1>2. \A n \in Runs : RunInOrder(n)'
  BY <1>1, RunsStay, Values
<1>3. LeaseStays
  BY <1>1, BoundsAssumption DEF LeaseStays
<1>4. \A a \in Asker : AskerInOrder(a)'
  BY <1>1, <1>3, AskersStay, Values
<1>5. CursorsAreTaken'
  BY <1>1 DEF CursorsAreTaken
<1>6. \A n \in Runs : RunSleepsSafely(n)'
  BY <1>1 DEF RunSleepsSafely
<1> QED
  BY <1>1, <1>2, <1>4, <1>5, <1>6, WakeIsSafe DEF InOrder

\* The row, the runs and the askers stand still.
LEMMA OnlyTheBranch ==
    ASSUME IndInv, UNCHANGED <<row, asker, run, last, taken, stolen>>, head' \in {head, head + 1}
    PROVE  InOrder' /\ Safe'
<1>1. \A n \in Runs : RunInOrder(n)'
  BY RunsStay, Values
<1>2. LeaseStays /\ TakenMoves /\ head' \in Nat /\ head <= head' /\ last' \in Nat /\ last <= last'
  BY Values DEF LeaseStays, TakenMoves
<1>3. \A a \in Asker : AskerInOrder(a)'
  BY <1>2, AskersStay
<1>4. CursorsAreTaken'
  BY <1>2, CursorsStay
<1>5. Awaited => Awaited'
  BY <1>2, AwaitedStays, NoRunMoves
<1>6. AllTaken => AllTaken'
  BY AllTakenStays
<1>7. Live' => Live
  BY DEF Live
<1>8. Safe'
  BY <1>5, <1>6, <1>7, SleepStays
<1> QED
  BY <1>1, <1>3, <1>4, <1>8 DEF InOrder

-----------------------------------------------------------------------------
(* The theorems.                                                            *)

LEMMA InitIsOrderly ==
    ASSUME Init
    PROVE  InOrder /\ Safe
<1>1. \A n \in Runs : RunInOrder(n)
  BY BoundsAssumption DEF Init, RunInOrder, Open, NoRun, Blank, Runs
<1>2. \A a \in Asker : AskerInOrder(a)
  BY BoundsAssumption DEF Init, AskerInOrder, Idle, Blank
<1>3. CursorsAreTaken
  BY DEF Init, CursorsAreTaken, Reached, Blank, NoRun
<1>4. Safe
  BY BoundsAssumption DEF Init, Safe, RowSleepsSafely, CheckSleepsSafely, RunSleepsSafely,
     Blank, NoRun, Idle
<1> QED
  BY <1>1, <1>2, <1>3, <1>4 DEF InOrder

LEMMA NextIsOrderly ==
    ASSUME IndInv, Next
    PROVE  InOrder' /\ Safe'
<1>1. CASE \E c \in Check : CheckStep(c)
  BY <1>1, ClaimOrderly, ReadLeaseOrderly, RemoteHeadOrderly, ReadLeaseAgainOrderly,
     FencedWriteOrderly DEF CheckStep
<1>2. CASE \E d \in Delivery : Deliver(d)
  BY <1>2, DeliverOrderly
<1>3. CASE \E a \in Asker : AskerStep(a)
  BY <1>3, StartRunOrderly, StartAnswerLostOrderly, DescribeRunOrderly,
     RecordPendingHeadOrderly, SettlePendingHeadOrderly, GiveUpOrderly DEF AskerStep
<1>4. CASE \E n \in Runs : RunStep(n)
  BY <1>4, LoadRowOrderly, BeginOrderly, BeginLostOrderly, AcquireOrderly, RecordOrderly,
     CloseOrderly, TerminateOrderly, ReapOrderly DEF RunStep
<1>5. CASE \/ Requested("MANUAL", 0)
           \/ \E g \in 1..row.generation : Requested("COMMIT_PUSHED", g)
  BY <1>5, RequestedOrderly
<1>6. CASE Push
  BY <1>6, OnlyTheBranch DEF Push
<1>7. CASE Reconfigure \/ ChangeSettings \/ ConfigureFlags \/ Disconnect \/ ComeDue
  BY <1>7, ReconfigureOrderly, ChangeSettingsOrderly, ConfigureFlagsOrderly,
     DisconnectOrderly, ComeDueOrderly
<1> QED
  BY <1>1, <1>2, <1>3, <1>4, <1>5, <1>6, <1>7 DEF Next

LEMMA StepKeepsOrder ==
    ASSUME IInv, InOrder, Safe, [Next]_vars
    PROVE  IInv' /\ InOrder' /\ Safe'
<1>1. IndInv
  BY Gathered
<1>2. IInv'
  BY NextKeeps, StutterKeeps
<1>3. InOrder' /\ Safe'
  <2>1. CASE Next
    BY <1>1, <2>1, NextIsOrderly
  <2>2. CASE UNCHANGED vars
    BY <1>1, <2>2, OnlyTheBranch DEF vars
  <2> QED
    BY <2>1, <2>2
<1> QED
  BY <1>2, <1>3

\* The runs keep their order, the cursors stay behind what was read, and
\* whoever lets the row sleep knows that nothing waits or who will wake it,
\* however checks, deliveries, runs and members interleave.
THEOREM InvHolds == Spec => []IndInv
<1>1. Init => IInv /\ InOrder /\ Safe
  BY InitHolds, InitIsOrderly
<1>2. IInv /\ InOrder /\ Safe /\ [Next]_vars => IInv' /\ InOrder' /\ Safe'
  BY StepKeepsOrder
<1>3. IInv /\ InOrder /\ Safe => IndInv
  BY Gathered
<1> QED
  BY <1>1, <1>2, <1>3, PTL DEF Spec

\* A commit that a push or a check has handed over is never slept on: it was
\* read since, the row is due or leased, a run is about to read, or a request
\* waits for a completion, for any number of checks, deliveries and runs.
THEOREM NoHeadIsForgottenHolds == Spec => []NoHeadIsForgotten
<1>1. IndInv => NoHeadIsForgotten
  BY DEF IndInv
<1> QED
  BY <1>1, InvHolds, PTL
==========================================================================
