---------------------- MODULE InstructionSyncProofs ----------------------
(***************************************************************************)
(* Proofs about InstructionSync, for any number of checks, deliveries,     *)
(* runs, delegates, configurations and commits.                            *)
(***************************************************************************)
EXTENDS InstructionSync, TLAPS

-----------------------------------------------------------------------------
(* What the writers make of a row.                                          *)

\* A row that syncs automatically has a next check.
Scheduled(r) == r.exists /\ r.automatic /\ r.pause = None => r.next # None

LEMMA BlankRow == Blank \in Row /\ Scheduled(Blank)
BY BoundsAssumption DEF Blank, Row, Scheduled, Commit, Pause

LEMMA SeenRow ==
    ASSUME NEW r \in Row
    PROVE  Seen(r) \in Row /\ Watched(Seen(r)) = Watched(r)
BY DEF Seen, Watched, Row

LEMMA FlagsRow ==
    ASSUME NEW r \in Row
    PROVE  Flags(r) \in Row
BY BlankRow DEF Flags, Row

LEMMA ConfiguredRow ==
    ASSUME NEW r \in Row, NEW u \in Delegate, NEW on \in BOOLEAN
    PROVE  /\ Configured(r, u, on) \in Row
           /\ Configured(r, u, on).next = "due"
           /\ Configured(r, u, on).generation = r.generation
BY DEF Configured, Row, Pause

LEMMA EvaluatedRow ==
    ASSUME NEW r \in Row, r.generation < MaxGeneration
    PROVE  /\ Evaluate(r) \in Row
           /\ Evaluate(r).next = "due"
<1>1. r.generation + 1 \in 1..MaxGeneration
  BY BoundsAssumption DEF Row
<1>2. 0 \in Commit
  BY BoundsAssumption DEF Commit
<1> QED
  BY <1>1, <1>2 DEF Evaluate, Row

LEMMA LiftedRow ==
    ASSUME NEW r \in Row
    PROVE  Lifted(r) \in Row /\ Lifted(r).next = "due"
BY DEF Lifted, Row, Pause

\* What was not written anew keeps its lease and what the lease covers.
Kept(r, s) == s.next \notin Check \/ (s.next = r.next /\ Watched(s) = Watched(r))

LEMMA DueRow ==
    ASSUME NEW r, NEW s, s.next = "due"
    PROVE  Kept(r, s) /\ Scheduled(s)
BY BoundsAssumption DEF Kept, Scheduled

LEMMA PatchedRow ==
    ASSUME NEW r \in Row, NEW e \in Effect, NEW sha \in Commit, Scheduled(r)
    PROVE  /\ Patched(r, e, sha) \in Row
           /\ Scheduled(Patched(r, e, sha))
           /\ Kept(r, Patched(r, e, sha))
<1>1. CASE e = "none"
  BY <1>1 DEF Patched, Kept
<1>2. CASE e \in {"success", "suppress", "backoff", "later", "soon"}
  BY <1>2, BoundsAssumption DEF Patched, Kept, Row, Scheduled
<1>3. CASE e \in {"REF_MISSING", "PERMISSION_REVOKED"}
  BY <1>3, BoundsAssumption DEF Patched, Kept, Row, Scheduled, Pause
<1> QED
  BY <1>1, <1>2, <1>3 DEF Effect

LEMMA PendingHeadRow ==
    ASSUME NEW r \in Row, Scheduled(r)
    PROVE  /\ WithPendingHead(r) \in Row
           /\ Scheduled(WithPendingHead(r))
           /\ Kept(r, WithPendingHead(r))
BY BoundsAssumption DEF WithPendingHead, Row, Scheduled, Kept

LEMMA KeptTwice ==
    ASSUME NEW q, NEW r, NEW s, Kept(q, r), Kept(r, s)
    PROVE  Kept(q, s)
BY DEF Kept

-----------------------------------------------------------------------------
(* The invariant, and what a step has to keep of it.                        *)

\* The part of the invariant that is about the lease.
IInv == TypeOK /\ Fresh

RowGood == row' \in Row /\ Scheduled(row') /\ Kept(row, row')

\* No check is made to work for a row it did not claim.
AskerGood ==
    /\ asker' \in [Asker -> AskerState]
    /\ \A c \in Check :
          asker'[c].at = "idle" \/ (asker[c].at # "idle" /\ asker'[c].row = asker[c].row)

RunGood == run' \in [Runs -> RunState] /\ last' \in 0..MaxRun

RestGood == head' \in 1..MaxHead /\ taken' \in Commit \cup {None} /\ stolen' \in BOOLEAN

LEMMA GoodStep ==
    ASSUME IInv, RowGood, AskerGood, RunGood, RestGood
    PROVE  IInv'
<1>1. TypeOK'
  BY DEF RowGood, AskerGood, RunGood, RestGood, TypeOK, Live, Scheduled
<1>2. Fresh'
  <2> SUFFICES ASSUME NEW c \in Check, asker'[c].at # "idle", row'.next = c
               PROVE  Watched(row') = Watched(asker'[c].row)
    BY DEF Fresh, Watched
  <2>1. asker[c].at # "idle" /\ asker'[c].row = asker[c].row
    BY DEF AskerGood
  <2>2. row.next = c /\ Watched(row') = Watched(row)
    BY DEF RowGood, Kept
  <2> QED
    BY <2>1, <2>2 DEF IInv, Fresh
<1> QED
  BY <1>1, <1>2 DEF IInv

LEMMA States ==
    ASSUME TypeOK
    PROVE  /\ row \in Row /\ Scheduled(row)
           /\ head \in 1..MaxHead /\ head \in Commit
           /\ \A a \in Asker : asker[a] \in AskerState
           /\ \A n \in Runs : run[n] \in RunState
           /\ \A c \in Check : c \in Asker
BY BoundsAssumption DEF TypeOK, Live, Scheduled, Commit, Asker

LEMMA SameRow ==
    ASSUME TypeOK, row' = row
    PROVE  RowGood
BY States DEF RowGood, Kept

LEMMA SameAsker ==
    ASSUME TypeOK, asker' = asker
    PROVE  AskerGood
BY DEF AskerGood, TypeOK

LEMMA SameRun ==
    ASSUME TypeOK, run' = run, last' = last
    PROVE  RunGood
BY DEF RunGood, TypeOK

LEMMA SameRest ==
    ASSUME TypeOK, head' = head, taken' = taken, stolen' = stolen
    PROVE  RestGood
BY DEF RestGood, TypeOK

LEMMA InitialStates == Idle \in AskerState /\ NoRun \in RunState
BY BlankRow, BoundsAssumption DEF Idle, NoRun, AskerState, RunState, Stage, Phase,
   Commit, Effect, Trigger, Generation

LEMMA AskerMove ==
    ASSUME TypeOK, NEW a \in Asker, NEW x \in AskerState,
           asker' = [asker EXCEPT ![a] = x],
           \/ x.at = "idle"
           \/ a \notin Check
           \/ asker[a].at # "idle" /\ x.row = asker[a].row
    PROVE  AskerGood
BY States DEF AskerGood, TypeOK

LEMMA GotoGood ==
    ASSUME TypeOK, NEW a \in Asker, NEW at \in Stage, asker[a].at # "idle", Goto(a, at)
    PROVE  AskerGood
<1>1. [asker[a] EXCEPT !.at = at] \in AskerState
  BY States DEF AskerState
<1>2. [asker[a] EXCEPT !.at = at].row = asker[a].row
  BY States DEF AskerState
<1>3. asker' = [asker EXCEPT ![a] = [asker[a] EXCEPT !.at = at]]
  BY DEF Goto
<1> QED
  BY <1>1, <1>2, <1>3, AskerMove

LEMMA LeaveGood ==
    ASSUME TypeOK, NEW a \in Asker, Leave(a)
    PROVE  AskerGood
<1>1. Idle.at = "idle"
  BY DEF Idle
<1> QED
  BY <1>1, InitialStates, AskerMove DEF Leave

LEMMA RunMove ==
    ASSUME TypeOK, NEW n \in Runs, NEW r \in RunState, SetRun(n, r), last' = last
    PROVE  RunGood
BY DEF RunGood, TypeOK, SetRun

LEMMA ReceiptState ==
    ASSUME NEW r \in RunState
    PROVE  WithReceipt(r) \in RunState
<1>1. r.row.generation \in Generation
  BY BoundsAssumption DEF RunState, Row, Generation
<1> QED
  BY <1>1 DEF WithReceipt, RunState

LEMMA RecordingState ==
    ASSUME NEW r \in RunState, NEW e \in Effect, NEW saw \in Commit
    PROVE  Recording(r, e, saw) \in RunState
<1>1. /\ NoRun \in RunState /\ 0 \in Commit
      /\ "recording" \in Phase /\ "none" \in Effect
  BY InitialStates, BoundsAssumption DEF Phase, Effect, Commit
<1>2. /\ r.receipt \in {"absent", "open", "finished"} /\ r.generation \in Generation
  BY DEF RunState
<1> DEFINE v == IF e \in {"success", "suppress"} THEN saw ELSE 0
           w == IF r.trigger = "AUTOMATIC" \/ e \in {"success", "suppress"} THEN e ELSE "none"
<1>3. v \in Commit /\ w \in Effect
  BY <1>1
<1>4. Recording(r, e, saw) =
        [NoRun EXCEPT !.at = "recording", !.receipt = r.receipt, !.generation = r.generation,
                      !.saw = v, !.effect = w]
  BY DEF Recording
<1> HIDE DEF v, w
<1> QED
  BY <1>1, <1>2, <1>3, <1>4 DEF RunState

LEMMA AttemptedGood ==
    ASSUME TypeOK, NEW g, Attempted(g), head' = head
    PROVE  RestGood
BY States DEF Attempted, RestGood, TypeOK

LEMMA HandedType ==
    ASSUME TypeOK, NEW sha \in Commit
    PROVE  Handed(sha) \in Commit \cup {None}
BY DEF Handed, TypeOK

LEMMA AskedType ==
    ASSUME TypeOK, NEW a \in Asker
    PROVE  Asked(a) \in Commit \cup {None}
BY States, HandedType DEF Asked, AskerState, TypeOK

LEMMA RegisterGood ==
    ASSUME TypeOK, NEW t \in Trigger, NEW e \in Generation, Register(t, e)
    PROVE  RunGood
<1>1. [NoRun EXCEPT !.at = "queued", !.trigger = t, !.expected = e] \in RunState
  BY InitialStates DEF RunState, Phase
<1>2. last + 1 \in 0..MaxRun /\ last + 1 \in Runs
  BY BoundsAssumption DEF TypeOK, Register, Runs
<1> QED
  BY <1>1, <1>2 DEF Register, RunGood, TypeOK

-----------------------------------------------------------------------------
(* The steps, one lemma an action.  A claim is the one step that writes a   *)
(* lease, the others keep the invariant by keeping the row or the lease off *)
(* it.                                                                      *)

LEMMA ClaimStep ==
    ASSUME IInv, NEW c \in Check, Claim(c)
    PROVE  IInv'
<1> USE DEF IInv
<1> DEFINE x == [Idle EXCEPT !.at = "claimed", !.row = Seen(row)]
<1>1. row' \in Row /\ Scheduled(row') /\ row'.next = c /\ Watched(row') = Watched(row)
  BY States, BoundsAssumption DEF Claim, Row, Scheduled, Watched
<1>2. x \in AskerState /\ x.at = "claimed" /\ x.row = Seen(row)
  BY States, SeenRow, InitialStates DEF AskerState, Stage
<1>3. asker' = [asker EXCEPT ![c] = x]
  BY DEF Claim
<1> HIDE DEF x
<1>4. asker' \in [Asker -> AskerState] /\ asker'[c].row = Seen(row)
  BY <1>2, <1>3, States DEF TypeOK
<1>5. TypeOK'
  BY <1>1, <1>4 DEF Claim, TypeOK, Live, Scheduled
<1>6. Fresh'
  BY <1>1, <1>4, States, SeenRow DEF Fresh, Watched
<1> QED
  BY <1>5, <1>6

LEMMA WriteGood ==
    ASSUME TypeOK, NEW c \in Check, asker[c].at # "idle",
           NEW e \in Effect, NEW sha \in Commit, Write(c, e, sha)
    PROVE  AskerGood
<1> DEFINE x == [asker[c] EXCEPT !.at = "writing", !.write = e, !.head = sha]
<1>1. x \in AskerState /\ x.row = asker[c].row
  BY States DEF AskerState, Stage
<1>2. asker' = [asker EXCEPT ![c] = x]
  BY DEF Write
<1> QED
  BY <1>1, <1>2, States, AskerMove

LEMMA ReadLeaseStep ==
    ASSUME TypeOK, NEW c \in Check, ReadLease(c)
    PROVE  RowGood /\ AskerGood /\ RunGood /\ RestGood
<1>1. RowGood /\ RunGood /\ RestGood
  BY SameRow, SameRun, SameRest DEF ReadLease
<1>2. c \in Asker /\ asker[c].at = "claimed" /\ "permitted" \in Stage
      /\ "PERMISSION_REVOKED" \in Effect /\ 0 \in Commit
  BY States, BoundsAssumption DEF ReadLease, Stage, Effect, Commit
<1>3. Leave(c) \/ Goto(c, "permitted") \/ Write(c, "PERMISSION_REVOKED", 0)
  BY DEF ReadLease
<1> QED
  BY <1>1, <1>2, <1>3, LeaveGood, GotoGood, WriteGood

LEMMA RemoteHeadStep ==
    ASSUME TypeOK, NEW c \in Check, RemoteHead(c)
    PROVE  RowGood /\ AskerGood /\ RunGood /\ RestGood
<1>1. /\ row' = row /\ run' = run /\ last' = last /\ head' = head
      /\ asker[c].at = "permitted"
  BY DEF RemoteHead
<1>2. Attempted(asker[c].row.generation) \/ (taken' = taken /\ stolen' = stolen)
  BY DEF RemoteHead
<1>3. RowGood /\ RunGood /\ RestGood
  BY <1>1, <1>2, SameRow, SameRun, SameRest, AttemptedGood
<1>4. c \in Asker /\ asker[c] \in AskerState /\ head \in Commit /\ 0 \in Commit
      /\ {"REF_MISSING", "backoff", "success", "suppress"} \subseteq Effect
  BY States, BoundsAssumption DEF Commit, Effect
<1>5. \/ Write(c, "REF_MISSING", 0) \/ Write(c, "backoff", 0)
      \/ Write(c, "success", head) \/ Write(c, "suppress", head)
      \/ asker' = [asker EXCEPT ![c].at = "decided", ![c].head = head]
  BY DEF RemoteHead
<1>6. ASSUME asker' = [asker EXCEPT ![c].at = "decided", ![c].head = head]
      PROVE  AskerGood
  <2> DEFINE x == [asker[c] EXCEPT !.at = "decided", !.head = head]
  <2>1. x \in AskerState /\ x.row = asker[c].row
    BY <1>4 DEF AskerState, Stage
  <2>2. asker' = [asker EXCEPT ![c] = x]
    BY <1>6
  <2> QED
    BY <1>1, <1>4, <2>1, <2>2, AskerMove
<1> QED
  BY <1>1, <1>3, <1>4, <1>5, <1>6, WriteGood

LEMMA ReadLeaseAgainStep ==
    ASSUME TypeOK, NEW c \in Check, ReadLeaseAgain(c)
    PROVE  RowGood /\ AskerGood /\ RunGood /\ RestGood
<1>1. RowGood /\ RunGood /\ RestGood
  BY SameRow, SameRun, SameRest DEF ReadLeaseAgain
<1>2. c \in Asker /\ asker[c].at = "decided" /\ "starting" \in Stage
  BY States DEF ReadLeaseAgain, Stage
<1> QED
  BY <1>1, <1>2, LeaveGood, GotoGood DEF ReadLeaseAgain

LEMMA FencedWriteStep ==
    ASSUME TypeOK, NEW c \in Check, FencedWrite(c)
    PROVE  RowGood /\ AskerGood /\ RunGood /\ RestGood
<1>1. c \in Asker /\ asker[c].write \in Effect /\ asker[c].head \in Commit
  BY States DEF AskerState
<1>2. RowGood
  <2>1. CASE Holds(c)
    BY <1>1, <2>1, States, PatchedRow DEF FencedWrite, RowGood
  <2>2. CASE ~Holds(c)
    BY <2>2, SameRow DEF FencedWrite
  <2> QED
    BY <2>1, <2>2
<1>3. AskerGood /\ RunGood
  BY <1>1, LeaveGood, SameRun DEF FencedWrite
<1>4. RestGood
  BY <1>1, HandedType DEF FencedWrite, RestGood, TypeOK
<1> QED
  BY <1>2, <1>3, <1>4

LEMMA DeliverStep ==
    ASSUME TypeOK, NEW d \in Delivery, Deliver(d)
    PROVE  RowGood /\ AskerGood /\ RunGood /\ RestGood
<1>1. RowGood /\ RunGood /\ RestGood
  BY SameRow, SameRun, SameRest DEF Deliver
<1>2. d \in Asker /\ d \notin Check
  BY BoundsAssumption DEF Asker
<1>3. PICK sha \in 1..head :
        asker' = [asker EXCEPT ![d] =
                    [Idle EXCEPT !.at = "starting", !.row = Flags(row), !.head = sha]]
  BY DEF Deliver
<1>4. [Idle EXCEPT !.at = "starting", !.row = Flags(row), !.head = sha] \in AskerState
  <2>1. sha \in Commit /\ Flags(row) \in Row /\ "starting" \in Stage
    BY States, FlagsRow, BoundsAssumption DEF Commit, Stage
  <2> QED
    BY <2>1, InitialStates DEF AskerState
<1> QED
  BY <1>1, <1>2, <1>3, <1>4, AskerMove

LEMMA StartRunStep ==
    ASSUME TypeOK, NEW a \in Asker, StartRun(a)
    PROVE  RowGood /\ AskerGood /\ RunGood /\ RestGood
<1>1. RowGood
  BY SameRow DEF StartRun
<1>2. RunGood
  <2>1. "AUTOMATIC" \in Trigger /\ asker[a].row.generation \in Generation
    BY States, BoundsAssumption DEF Trigger, AskerState, Row, Generation
  <2> QED
    BY <2>1, RegisterGood DEF StartRun
<1>3. RestGood
  BY AskedType DEF StartRun, RestGood, TypeOK
<1>4. AskerGood
  <2> DEFINE x == [asker[a] EXCEPT !.at = "writing", !.write = "later"]
  <2>1. CASE a \in Check
    <3>1. x \in AskerState /\ x.row = asker[a].row
      BY States DEF AskerState, Stage, Effect
    <3>2. asker' = [asker EXCEPT ![a] = x] /\ asker[a].at # "idle"
      BY <2>1, States DEF StartRun
    <3> QED
      BY <3>1, <3>2, AskerMove
  <2>2. CASE a \notin Check
    BY <2>2, LeaveGood DEF StartRun, Leave
  <2> QED
    BY <2>1, <2>2
<1> QED
  BY <1>1, <1>2, <1>3, <1>4

LEMMA StartAnswerLostStep ==
    ASSUME TypeOK, NEW a \in Asker, StartAnswerLost(a)
    PROVE  RowGood /\ AskerGood /\ RunGood /\ RestGood
<1>1. "AUTOMATIC" \in Trigger /\ asker[a].row.generation \in Generation
  BY States, BoundsAssumption DEF Trigger, AskerState, Row, Generation
<1>2. RestGood
  BY DEF StartAnswerLost, RestGood, TypeOK
<1> QED
  BY <1>1, <1>2, RegisterGood, LeaveGood, SameRow DEF StartAnswerLost

LEMMA DescribeRunStep ==
    ASSUME TypeOK, NEW a \in Asker, DescribeRun(a)
    PROVE  RowGood /\ AskerGood /\ RunGood /\ RestGood
<1> DEFINE x == [asker[a] EXCEPT !.at = "marking", !.run = last]
<1>1. RowGood /\ RunGood /\ RestGood
  BY SameRow, SameRun, SameRest DEF DescribeRun
<1>2. x \in AskerState /\ x.row = asker[a].row
  BY States DEF AskerState, Stage, TypeOK
<1>3. asker' = [asker EXCEPT ![a] = x] /\ asker[a].at # "idle"
  BY States DEF DescribeRun
<1> QED
  BY <1>1, <1>2, <1>3, AskerMove

LEMMA FinishGood ==
    ASSUME TypeOK, NEW a \in Asker, asker[a].at # "idle", Finish(a)
    PROVE  AskerGood /\ taken' \in Commit \cup {None}
<1> DEFINE e == IF asker[a].row.evaluated = 0 THEN "soon" ELSE "later"
           x == [asker[a] EXCEPT !.at = "writing", !.write = e]
<1>1. taken' \in Commit \cup {None}
  BY AskedType DEF Finish
<1>2. CASE a \in Check
  <2>1. e \in Effect
    BY DEF Effect
  <2>2. asker' = [asker EXCEPT ![a] = x]
    BY <1>2 DEF Finish
  <2> HIDE DEF e
  <2>3. x \in AskerState /\ x.row = asker[a].row
    BY <2>1, States DEF AskerState, Stage
  <2> QED
    BY <1>1, <2>2, <2>3, AskerMove
<1>3. CASE a \notin Check
  BY <1>1, <1>3, LeaveGood DEF Finish, Leave
<1> QED
  BY <1>2, <1>3

LEMMA RecordPendingHeadStep ==
    ASSUME TypeOK, NEW a \in Asker, RecordPendingHead(a)
    PROVE  RowGood /\ AskerGood /\ RunGood /\ RestGood
<1>1. RunGood /\ asker[a].at # "idle" /\ "settling" \in Stage
  BY SameRun DEF RecordPendingHead, Stage
<1>2. CASE Current(a)
  <2>1. RowGood
    BY <1>2, States DEF RecordPendingHead, RowGood, Row, Scheduled, Kept, Watched
  <2>2. AskerGood /\ RestGood
    BY <1>1, <1>2, GotoGood, SameRest DEF RecordPendingHead
  <2> QED
    BY <1>1, <2>1, <2>2
<1>3. CASE ~Current(a)
  <2>1. RowGood
    BY <1>3, SameRow DEF RecordPendingHead
  <2>2. AskerGood /\ RestGood
    BY <1>1, <1>3, FinishGood DEF RecordPendingHead, RestGood, TypeOK
  <2> QED
    BY <1>1, <2>1, <2>2
<1> QED
  BY <1>2, <1>3

LEMMA SettlePendingHeadStep ==
    ASSUME TypeOK, NEW a \in Asker, SettlePendingHead(a)
    PROVE  RowGood /\ AskerGood /\ RunGood /\ RestGood
<1>1. RunGood /\ asker[a].at # "idle"
  BY SameRun DEF SettlePendingHead
<1>2. row' = row \/ row' = WithPendingHead(row)
  BY DEF SettlePendingHead
<1>3. RowGood
  BY <1>2, SameRow, States, PendingHeadRow DEF RowGood
<1>4. stolen' \in BOOLEAN /\ head' = head
  BY DEF SettlePendingHead, TypeOK
<1> QED
  BY <1>1, <1>3, <1>4, FinishGood DEF SettlePendingHead, RestGood, TypeOK

LEMMA GiveUpStep ==
    ASSUME TypeOK, NEW a \in Asker, GiveUp(a)
    PROVE  RowGood /\ AskerGood /\ RunGood /\ RestGood
BY LeaveGood, SameRow, SameRun, SameRest DEF GiveUp

LEMMA LoadRowStep ==
    ASSUME TypeOK, NEW n \in Runs, LoadRow(n)
    PROVE  RowGood /\ AskerGood /\ RunGood /\ RestGood
<1>1. RowGood /\ AskerGood /\ RestGood
  BY SameRow, SameAsker, SameRest DEF LoadRow
<1>2. [run[n] EXCEPT !.at = "loaded", !.row = Flags(row)] \in RunState
  BY States, FlagsRow DEF RunState, Phase
<1>3. Recording(run[n], "backoff", 0) \in RunState
  <2>1. "backoff" \in Effect /\ 0 \in Commit
    BY BoundsAssumption DEF Effect, Commit
  <2> QED
    BY <2>1, States, RecordingState
<1> QED
  BY <1>1, <1>2, <1>3, RunMove DEF LoadRow

LEMMA LiftGood ==
    ASSUME TypeOK, NEW lifted \in BOOLEAN, row' = IF lifted THEN Lifted(row) ELSE row
    PROVE  RowGood
<1>1. CASE lifted
  BY <1>1, States, LiftedRow, DueRow DEF RowGood
<1>2. CASE ~lifted
  BY <1>2, SameRow
<1> QED
  BY <1>1, <1>2

LEMMA BeginStep ==
    ASSUME TypeOK, NEW n \in Runs, Begin(n)
    PROVE  RowGood /\ AskerGood /\ RunGood /\ RestGood
<1> DEFINE r == WithReceipt(run[n])
           begun == [r EXCEPT !.at = "begun", !.row = Blank, !.expected = 0]
<1>1. r \in RunState
  BY States, ReceiptState
<1>2. PICK lifted \in LiftsPause(r) : \E out \in BeginOutcomes(r, lifted) :
         /\ row' = IF lifted THEN Lifted(row) ELSE row
         /\ SetRun(n, IF out = "begun" THEN begun ELSE Recording(r, out, 0))
         /\ IF out \in {"backoff", "PERMISSION_REVOKED"}
            THEN Attempted(r.generation) ELSE UNCHANGED <<taken, stolen>>
  BY DEF Begin
<1>3. PICK out \in BeginOutcomes(r, lifted) :
         /\ row' = IF lifted THEN Lifted(row) ELSE row
         /\ SetRun(n, IF out = "begun" THEN begun ELSE Recording(r, out, 0))
         /\ IF out \in {"backoff", "PERMISSION_REVOKED"}
            THEN Attempted(r.generation) ELSE UNCHANGED <<taken, stolen>>
  BY <1>2
<1>4. RowGood
  <2>1. lifted \in BOOLEAN
    BY DEF LiftsPause
  <2> QED
    BY <1>3, <2>1, LiftGood
<1>5. AskerGood /\ head' = head /\ last' = last
  BY SameAsker DEF Begin
<1>6. RestGood
  BY <1>3, <1>5, AttemptedGood, SameRest
<1>7. RunGood
  <2>1. 0 \in Commit /\ 0 \in Generation
    BY BoundsAssumption DEF Commit, Generation
  <2>2. out \in {"begun"} \cup Effect
    BY DEF BeginOutcomes, Effect
  <2> HIDE DEF r
  <2>3. begun \in RunState
    BY <1>1, <2>1, BlankRow DEF RunState, Phase
  <2> HIDE DEF begun
  <2>4. CASE out = "begun"
    BY <1>3, <1>5, <2>3, <2>4, RunMove
  <2>5. CASE out # "begun"
    <3>1. Recording(r, out, 0) \in RunState
      BY <1>1, <2>1, <2>2, <2>5, RecordingState
    <3>2. SetRun(n, Recording(r, out, 0))
      BY <1>3, <2>5
    <3> QED
      BY <1>5, <3>1, <3>2, RunMove
  <2> QED
    BY <2>4, <2>5
<1> QED
  BY <1>4, <1>5, <1>6, <1>7

LEMMA BeginLostStep ==
    ASSUME TypeOK, NEW n \in Runs, BeginLost(n)
    PROVE  RowGood /\ AskerGood /\ RunGood /\ RestGood
<1> DEFINE r == WithReceipt(run[n])
<1>1. r \in RunState
  BY States, ReceiptState
<1>2. PICK lifted \in LiftsPause(r) : row' = IF lifted THEN Lifted(row) ELSE row
  BY DEF BeginLost
<1>3. RowGood
  BY <1>2, LiftGood DEF LiftsPause
<1>4. AskerGood /\ head' = head /\ last' = last
  BY SameAsker DEF BeginLost
<1>5. RestGood
  BY <1>4, AttemptedGood, SameRest DEF BeginLost
<1>6. SetRun(n, [r EXCEPT !.at = "queued", !.row = Blank])
      \/ SetRun(n, Recording(r, "backoff", 0))
  BY DEF BeginLost
<1>7. RunGood
  <2> HIDE DEF r
  <2>1. [r EXCEPT !.at = "queued", !.row = Blank] \in RunState
    BY <1>1, BlankRow DEF RunState, Phase
  <2>2. "backoff" \in Effect /\ 0 \in Commit
    BY BoundsAssumption DEF Effect, Commit
  <2> QED
    BY <1>1, <1>4, <1>6, <2>1, <2>2, RecordingState, RunMove
<1> QED
  BY <1>3, <1>4, <1>5, <1>7

LEMMA AcquireStep ==
    ASSUME TypeOK, NEW n \in Runs, Acquire(n)
    PROVE  RowGood /\ AskerGood /\ RunGood /\ RestGood
<1>1. RowGood /\ AskerGood
  BY SameRow, SameAsker DEF Acquire
<1>2. RestGood
  BY AttemptedGood DEF Acquire
<1>3. RunGood
  BY States, RecordingState, RunMove DEF Acquire
<1> QED
  BY <1>1, <1>2, <1>3

LEMMA ClosedRun ==
    ASSUME TypeOK, NEW n \in Runs, NEW at \in Phase, NEW t \in {"absent", "open", "finished"}
    PROVE  [NoRun EXCEPT !.at = at, !.generation = run[n].generation, !.receipt = t] \in RunState
<1>1. run[n].generation \in Generation
  BY States DEF RunState
<1> QED
  BY <1>1, InitialStates DEF RunState

LEMMA CompleteGood ==
    ASSUME TypeOK, NEW n \in Runs, NEW e \in Effect, NEW at \in Phase, Complete(n, e, at)
    PROVE  RowGood /\ AskerGood /\ RunGood /\ RestGood
<1>1. AskerGood
  BY SameAsker DEF Complete
<1>2. RunGood
  BY ClosedRun, RunMove DEF Complete
<1>3. RestGood
  BY DEF Complete, RestGood, TypeOK
<1>4. RowGood
  <2>1. CASE row' = row
    BY <2>1, SameRow
  <2>2. CASE row' # row
    <3>1. PICK f \in Effect : row' = WithPendingHead(Patched(row, f, run[n].saw))
      BY <2>2 DEF Complete, Effect
    <3> DEFINE p == Patched(row, f, run[n].saw)
    <3>2. run[n].saw \in Commit
      BY States DEF RunState
    <3>3. p \in Row /\ Scheduled(p) /\ Kept(row, p)
      BY <3>2, States, PatchedRow
    <3> HIDE DEF p
    <3>4. WithPendingHead(p) \in Row /\ Scheduled(WithPendingHead(p))
          /\ Kept(p, WithPendingHead(p))
      BY <3>3, PendingHeadRow
    <3>5. row' = WithPendingHead(p)
      BY <3>1 DEF p
    <3> QED
      BY <3>3, <3>4, <3>5, KeptTwice DEF RowGood
  <2> QED
    BY <2>1, <2>2
<1> QED
  BY <1>1, <1>2, <1>3, <1>4

LEMMA RecordStep ==
    ASSUME TypeOK, NEW n \in Runs, Record(n) \/ Reap(n)
    PROVE  RowGood /\ AskerGood /\ RunGood /\ RestGood
<1>1. run[n].effect \in Effect /\ "none" \in Effect /\ {"completed", "closed"} \subseteq Phase
  BY States DEF RunState, Effect, Phase
<1> QED
  BY <1>1, CompleteGood DEF Record, Reap

LEMMA CloseStep ==
    ASSUME TypeOK, NEW n \in Runs, Close(n)
    PROVE  RowGood /\ AskerGood /\ RunGood /\ RestGood
<1>1. [run[n] EXCEPT !.at = "closed"] \in RunState
  BY States DEF RunState, Phase
<1> QED
  BY <1>1, RunMove, SameRow, SameAsker, SameRest DEF Close

LEMMA TerminateStep ==
    ASSUME TypeOK, NEW n \in Runs, Terminate(n)
    PROVE  RowGood /\ AskerGood /\ RunGood /\ RestGood
<1>1. "closed" \in Phase /\ run[n].receipt \in {"absent", "open", "finished"}
  BY States DEF Phase, RunState
<1>2. RunGood
  BY <1>1, ClosedRun, RunMove DEF Terminate
<1> QED
  BY <1>2, SameRow, SameAsker, AttemptedGood DEF Terminate

LEMMA DueGood ==
    ASSUME TypeOK, row' \in Row, row'.next = "due",
           UNCHANGED <<head, asker, run, last>>,
           taken' = taken \/ taken' = None, stolen' = stolen \/ stolen' = FALSE
    PROVE  RowGood /\ AskerGood /\ RunGood /\ RestGood
<1>1. RowGood
  BY DueRow DEF RowGood
<1>2. AskerGood /\ RunGood
  BY SameAsker, SameRun
<1>3. RestGood
  BY DEF RestGood, TypeOK
<1> QED
  BY <1>1, <1>2, <1>3

LEMMA MembersStep ==
    ASSUME TypeOK,
           \/ Requested("MANUAL", 0)
           \/ \E g \in 1..row.generation : Requested("COMMIT_PUSHED", g)
           \/ Reconfigure \/ ChangeSettings \/ ConfigureFlags \/ Disconnect
           \/ Push \/ ComeDue
    PROVE  RowGood /\ AskerGood /\ RunGood /\ RestGood
<1>1. CASE \/ Requested("MANUAL", 0)
           \/ \E g \in 1..row.generation : Requested("COMMIT_PUSHED", g)
  <2>1. PICK trigger \in Trigger, g \in Generation : Requested(trigger, g)
    <3>1. 0 \in Generation /\ 1..row.generation \subseteq Generation
      BY States, BoundsAssumption DEF Row, Generation
    <3>2. "MANUAL" \in Trigger /\ "COMMIT_PUSHED" \in Trigger
      BY DEF Trigger
    <3> QED
      BY <1>1, <3>1, <3>2
  <2> QED
    BY <2>1, RegisterGood, SameRow, SameAsker, SameRest DEF Requested
<1>2. CASE Reconfigure
  <2>1. PICK u \in Delegate, on \in BOOLEAN : row' = Evaluate(Configured(row, u, on))
    BY <1>2 DEF Reconfigure
  <2>2. row' \in Row /\ row'.next = "due"
    BY <1>2, <2>1, States, ConfiguredRow, EvaluatedRow DEF Reconfigure
  <2> QED
    BY <1>2, <2>2, DueGood DEF Reconfigure
<1>3. CASE ChangeSettings
  BY <1>3, States, EvaluatedRow, DueGood DEF ChangeSettings
<1>4. CASE ConfigureFlags
  BY <1>4, States, ConfiguredRow, DueGood DEF ConfigureFlags
<1>5. CASE Disconnect
  <2>1. [Blank EXCEPT !.exists = FALSE, !.generation = row.generation] \in Row
    BY States, BlankRow DEF Row
  <2>2. [Blank EXCEPT !.exists = FALSE, !.generation = row.generation].next = "due"
    BY DEF Blank
  <2> QED
    BY <1>5, <2>1, <2>2, DueGood DEF Disconnect
<1>6. CASE Push
  <2>1. RestGood
    BY <1>6, BoundsAssumption DEF Push, RestGood, TypeOK
  <2> QED
    BY <1>6, <2>1, SameRow, SameAsker, SameRun DEF Push
<1>7. CASE ComeDue
  <2>1. row' \in Row /\ row'.next = "due"
    BY <1>7, States DEF ComeDue, Row
  <2> QED
    BY <1>7, <2>1, DueGood DEF ComeDue
<1> QED
  BY <1>1, <1>2, <1>3, <1>4, <1>5, <1>6, <1>7

-----------------------------------------------------------------------------
(* The theorems.                                                            *)

LEMMA InitHolds ==
    ASSUME Init
    PROVE  IInv
<1>1. TypeOK
  <2>1. asker \in [Asker -> AskerState] /\ run \in [Runs -> RunState]
    BY InitialStates DEF Init
  <2>2. row \in Row /\ (Live => row.next # None)
    BY BlankRow DEF Init, Live, Scheduled
  <2>3. head \in 1..MaxHead /\ last \in 0..MaxRun
    BY BoundsAssumption DEF Init
  <2> QED
    BY <2>1, <2>2, <2>3 DEF Init, TypeOK
<1>2. Fresh
  BY BoundsAssumption DEF Init, Fresh, Blank
<1> QED
  BY <1>1, <1>2 DEF IInv

LEMMA NextKeeps ==
    ASSUME IInv, Next
    PROVE  IInv'
<1>1. TypeOK
  BY DEF IInv
<1>2. CASE \E c \in Check : CheckStep(c)
  <2>1. PICK c \in Check : CheckStep(c)
    BY <1>2
  <2> QED
    BY <1>1, <2>1, ClaimStep, ReadLeaseStep, RemoteHeadStep, ReadLeaseAgainStep,
       FencedWriteStep, GoodStep DEF CheckStep
<1>3. CASE \E d \in Delivery : Deliver(d)
  BY <1>1, <1>3, DeliverStep, GoodStep
<1>4. CASE \E a \in Asker : AskerStep(a)
  <2>1. PICK a \in Asker : AskerStep(a)
    BY <1>4
  <2> QED
    BY <1>1, <2>1, StartRunStep, StartAnswerLostStep, DescribeRunStep, RecordPendingHeadStep,
       SettlePendingHeadStep, GiveUpStep, GoodStep DEF AskerStep
<1>5. CASE \E n \in Runs : RunStep(n)
  <2>1. PICK n \in Runs : RunStep(n)
    BY <1>5
  <2> QED
    BY <1>1, <2>1, LoadRowStep, BeginStep, BeginLostStep, AcquireStep, RecordStep,
       CloseStep, TerminateStep, GoodStep DEF RunStep
<1>6. CASE \/ Requested("MANUAL", 0)
           \/ \E g \in 1..row.generation : Requested("COMMIT_PUSHED", g)
           \/ Reconfigure \/ ChangeSettings \/ ConfigureFlags \/ Disconnect
           \/ Push \/ ComeDue
  BY <1>1, <1>6, MembersStep, GoodStep
<1> QED
  BY <1>2, <1>3, <1>4, <1>5, <1>6 DEF Next

LEMMA StutterKeeps ==
    ASSUME IInv, UNCHANGED vars
    PROVE  IInv'
BY DEF IInv, TypeOK, Fresh, Live, Watched, vars

\* A step never writes to a row under a lease that covers another one.
LEMMA LeasedWriteIsFresh ==
    ASSUME IInv, NEW c \in Check, FencedWrite(c), Holds(c)
    PROVE  Watched(row) = Watched(asker[c].row)
BY DEF IInv, Fresh, FencedWrite, Holds

LEMMA Invariance == Spec => []IInv
<1>1. Init => IInv
  BY InitHolds
<1>2. IInv /\ [Next]_vars => IInv'
  BY NextKeeps, StutterKeeps
<1> QED
  BY <1>1, <1>2, PTL DEF Spec

\* Every variable keeps its type, and a row that syncs automatically never
\* loses its next check, whichever writer comes last.
THEOREM TypeCorrect == Spec => []TypeOK
<1>1. IInv => TypeOK
  BY DEF IInv
<1> QED
  BY <1>1, Invariance, PTL

\* The lease as a fence: a check's conditional write applies only while the
\* row is the one its claim returned, for any number of checks, deliveries,
\* runs and configurations in between.
THEOREM LeaseIsFence == Spec => LeasedWritesAreFresh
<1>1. IInv /\ [Next]_vars =>
        [\A c \in Check :
           FencedWrite(c) /\ Holds(c) => Watched(row) = Watched(asker[c].row)]_vars
  BY LeasedWriteIsFresh
<1> QED
  BY <1>1, Invariance, PTL DEF Spec, LeasedWritesAreFresh
=============================================================================
