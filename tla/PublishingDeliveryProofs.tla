----------------------- MODULE PublishingDeliveryProofs -----------------------
(***************************************************************************)
(* Proofs about PublishingDelivery, for any recipients, number of attempts *)
(* and drains that overlap, attempt bound and number of outcome versions.  *)
(***************************************************************************)
EXTENDS PublishingDelivery, TLAPS

-----------------------------------------------------------------------------
(* The invariant, obligation by obligation.                                 *)

LEMMA Obligations ==
    /\ Obligation = BellOf \cup MailOf /\ BellOf \cap MailOf = {}
    /\ \A o \in BellOf : o[2] \in Bell /\ o = <<"IN_APP", o[2]>>
    /\ \A r \in Bell : <<"IN_APP", r>> \in BellOf /\ <<"IN_APP", r>>[2] = r
BY DEF Obligation, BellOf, MailOf

\* What holds of a row at any time, and after the close.
Sound(o, r) ==
    r \in Row /\ RowInOrder(o, r) /\ (o \in MailOf /\ r.status = "SENT" => r.accepted)

Unstranded(r) ==
    /\ \/ r.status \in {"NONE", "SENT", "SKIPPED", "EXPIRED"}
       \/ r.status \in {"DEFERRED", "SENDING"} /\ r.deadline # "none"
       \/ r.status = "FAILED" /\ r.count >= Bound
    /\ r.status = "SENDING" => r.token \in Drain

\* The row of o may become r in a step of x: what is settled stays settled, and
\* a claim is taken from another execution, or given to it, by no step but a skip
\* or the end of its lease.
Keeps(o, r, x) ==
    /\ Sound(o, r)
    /\ outcome \in Closed => Unstranded(r)
    /\ Settled(row[o]) => Settled(r) /\ (r.status = "SENT" => row[o].status = "SENT")
    /\ row[o].status = "SENDING" /\ r.token # row[o].token =>
          \/ row[o].lapsed \/ r.status = "SKIPPED"
          \/ row[o].token = x /\ exec'[x].pc \notin {"send", "confirm", "fail"}
    /\ \A y \in Exec \ {x} : r.token = y =>
          /\ row[o].token = y /\ r.status = row[o].status /\ r.accepted = row[o].accepted

\* And no bell is rung.
Follows(o, r, x) ==
    Keeps(o, r, x) /\ (o \in BellOf => (r.status = "SENT" <=> row[o].status = "SENT"))

\* What the two action properties say of a step.
RowsAreKept ==
    \A o \in Obligation : Settled(row[o]) =>
        Settled(row'[o]) /\ (row'[o].status = "SENT" => row[o].status = "SENT")

ClaimsAreKept ==
    \A o \in MailOf :
        row[o].status = "SENDING" /\ row'[o].token # row[o].token =>
            \/ row[o].lapsed
            \/ row'[o].status = "SKIPPED"
            \/ \A x \in Exec : x = row[o].token => ~Sending(x, o)'

SoundStep == IndInv' /\ RowsAreKept /\ ClaimsAreKept

LEMMA Facts ==
    ASSUME IndInv
    PROVE  /\ outcome \in Outcome /\ version \in 0 .. MaxVersion /\ tenant \in BOOLEAN
           /\ project \in Attempt \cup {None} /\ bells \in [Bell -> Nat]
           /\ row \in [Obligation -> Row] /\ exec \in [Exec -> Execution]
           /\ \A x \in Exec : ExecInOrder(x)
           /\ \A o \in Obligation : Sound(o, row[o])
           /\ outcome \in Closed => \A o \in Obligation : Unstranded(row[o])
BY DEF IndInv, TypeOK, Sound, Unstranded, ClaimsAreDrains, NothingIsStranded, SentWasAccepted

LEMMA StepIsSound ==
    ASSUME IndInv, NEW x, TypeOK', BellsAreHonest',
           \A o \in Obligation : Keeps(o, row'[o], x),
           outcome' \in Closed => \A o \in Obligation : Unstranded(row'[o]),
           \A y \in Exec \ {x} :
              /\ exec'[y] = exec[y]
              /\ exec[y].pc = "write" => project' = y /\ outcome' \notin Closed,
           x \in Exec => ExecInOrder(x)'
    PROVE  SoundStep
<1>0. /\ \A o \in Obligation : Sound(o, row'[o])
      /\ \A o \in Obligation : \A y \in Exec \ {x} : row'[o].token = y =>
            /\ row[o].token = y /\ row'[o].status = row[o].status
            /\ row'[o].accepted = row[o].accepted
  BY DEF Keeps
<1>1. ASSUME NEW y \in Exec \ {x}
      PROVE  ExecInOrder(y)'
  <2>1. ExecInOrder(y) /\ exec'[y] = exec[y]
    BY Facts
  <2>2. exec[y].at \in SUBSET Obligation
    BY Facts DEF Execution
  <2> QED
    BY <1>0, <2>1, <2>2 DEF ExecInOrder
<1>2. \A y \in Exec : ExecInOrder(y)'
  BY <1>1
<1>3. (\A o \in Obligation : RowInOrder(o, row[o]))'
  BY <1>0 DEF Sound, RowInOrder
<1>4. ClaimsAreDrains' /\ NothingIsStranded'
  BY DEF Unstranded, ClaimsAreDrains, NothingIsStranded
<1>5. SentWasAccepted'
  BY <1>0, Obligations DEF Sound, SentWasAccepted
<1>6. RowsAreKept
  BY DEF Keeps, RowsAreKept
<1>7. ClaimsAreKept
  BY Obligations DEF Keeps, ClaimsAreKept, Sending
<1> QED
  BY <1>2, <1>3, <1>4, <1>5, <1>6, <1>7 DEF IndInv, SoundStep

\* A step of x that neither rings a bell nor writes the cycle.  (Of nobody's,
\* when x is None.)
LEMMA QuietStep ==
    ASSUME IndInv, NEW x, UNCHANGED <<cycle, bells>>,
           tenant' \in BOOLEAN, project' \in Attempt \cup {None},
           exec' \in [Exec -> Execution], row' \in [Obligation -> Row],
           \A y \in Exec \ {x} :
              /\ exec'[y] = exec[y]
              /\ exec[y].pc = "write" => project' = y,
           \A o \in Obligation : Follows(o, row'[o], x),
           x \in Exec => ExecInOrder(x)'
    PROVE  SoundStep
<1>0. outcome' = outcome /\ version' = version /\ bells' = bells
  BY DEF cycle
<1>1. TypeOK'
  BY <1>0, Facts DEF TypeOK
<1>2. BellsAreHonest'
  <2>1. \A r \in Bell : row'[<<"IN_APP", r>>].status = "SENT"
                           <=> row[<<"IN_APP", r>>].status = "SENT"
    BY Obligations DEF Follows
  <2> QED
    BY <1>0, <2>1 DEF IndInv, BellsAreHonest
<1>3. \A y \in Exec \ {x} : exec[y].pc = "write" => outcome \notin Closed
  BY Facts DEF ExecInOrder
<1>4. \A o \in Obligation : Keeps(o, row'[o], x)
  BY DEF Follows
<1>5. outcome' \in Closed => \A o \in Obligation : Unstranded(row'[o])
  BY <1>0, <1>4 DEF Keeps
<1>7. \A y \in Exec \ {x} :
         /\ exec'[y] = exec[y]
         /\ exec[y].pc = "write" => project' = y /\ outcome' \notin Closed
  BY <1>0, <1>3
<1> QED
  BY <1>1, <1>2, <1>4, <1>5, <1>7, StepIsSound

-----------------------------------------------------------------------------
(* Changes of rows.                                                         *)

\* A row that stays as it is.
LEMMA SameRow ==
    ASSUME IndInv, NEW o \in Obligation, NEW x
    PROVE  Follows(o, row[o], x)
BY Facts DEF Follows, Keeps

LEMMA SameRows ==
    ASSUME IndInv, UNCHANGED row, NEW x
    PROVE  row' \in [Obligation -> Row] /\ \A o \in Obligation : Follows(o, row'[o], x)
BY Facts, SameRow

\* One row changes.
LEMMA OneRow ==
    ASSUME IndInv, NEW o \in Obligation, NEW r, row' = [row EXCEPT ![o] = r],
           NEW x, Follows(o, r, x)
    PROVE  row' \in [Obligation -> Row] /\ \A p \in Obligation : Follows(p, row'[p], x)
<1>1. r \in Row
  BY DEF Follows, Keeps, Sound
<1>2. \A p \in Obligation : row'[p] = IF p = o THEN r ELSE row[p]
  BY Facts
<1> QED
  BY <1>1, <1>2, Facts, SameRow

\* A skip.
LEMMA SkippedFollows ==
    ASSUME IndInv, NEW o \in Obligation, row[o].status # "SENT", NEW x
    PROVE  Follows(o, Skipped(o), x)
<1> DEFINE r == Skipped(o)
<1>1. row[o] \in Row /\ RowInOrder(o, row[o])
  BY Facts DEF Sound
<1>2. /\ r \in Row /\ r.status = "SKIPPED" /\ r.token = None
      /\ r.count = row[o].count
  BY <1>1 DEF Skipped, Row, Status
<1>3. RowInOrder(o, r)
  BY <1>1, <1>2, BoundsAssumption DEF RowInOrder
<1>4. \A y \in Exec : r.token # y
  BY <1>2, BoundsAssumption DEF Exec
<1>5. Sound(o, r) /\ Unstranded(r)
  BY <1>2, <1>3 DEF Sound, Unstranded
<1> HIDE DEF r
<1>6. Follows(o, r, x)
  BY <1>2, <1>4, <1>5 DEF Follows, Keeps, Settled
<1> QED
  BY <1>6 DEF r

LEMMA TerminalizedFollows ==
    ASSUME IndInv, NEW o \in Obligation, NEW x
    PROVE  /\ Follows(o, Terminalized[o], x) /\ Unstranded(Terminalized[o])
           /\ Terminalized[o].status = "SENT" <=> row[o].status = "SENT"
<1>1. CASE row[o].status \in {"NONE", "SENT", "SKIPPED", "DEFERRED"}
  <2>1. Terminalized[o] = row[o]
    BY <1>1 DEF Terminalized
  <2>2. Unstranded(row[o])
    BY <1>1, Facts DEF Unstranded, Sound, RowInOrder
  <2> QED
    BY <2>1, <2>2, SameRow
<1>2. CASE row[o].status \notin {"NONE", "SENT", "SKIPPED", "DEFERRED"}
  <2>1. Terminalized[o] = Skipped(o)
    BY <1>2 DEF Terminalized
  <2>2. Skipped(o).status = "SKIPPED"
    BY Facts DEF Skipped, Sound, Row
  <2>3. Follows(o, Skipped(o), x)
    BY <1>2, SkippedFollows
  <2> QED
    BY <1>2, <2>1, <2>2, <2>3 DEF Unstranded
<1> QED
  BY <1>1, <1>2
-----------------------------------------------------------------------------
(* Moves of executions.                                                     *)

Resting == {"idle", "resolve", "bells", "mails"}

\* No execution but x moves.
Moved(x) ==
    exec' \in [Exec -> Execution] /\ \A y \in Exec \ {x} : exec'[y] = exec[y]

LEMMA SetMoves ==
    ASSUME IndInv, NEW x \in Exec, NEW e \in Execution, Set(x, e)
    PROVE  Moved(x) /\ exec'[x] = e
BY Facts DEF Set, Moved

LEMMA RestsInOrder ==
    ASSUME IndInv, NEW x \in Exec,
           exec'[x].pc \in Resting \/ (exec'[x].pc = "close" /\ exec'[x].op \in Closed)
    PROVE  ExecInOrder(x)'
BY DEF ExecInOrder, Resting

LEMMA IdleIs == Idle \in Execution /\ Idle.pc = "idle"
BY BoundsAssumption DEF Idle, Execution, PC

LEMMA StopMoves ==
    ASSUME IndInv, NEW x \in Exec, Stop(x)
    PROVE  Moved(x) /\ exec'[x].pc \in Resting /\ ExecInOrder(x)'
BY SetMoves, IdleIs, RestsInOrder DEF Stop, Resting

LEMMA ExecIs ==
    ASSUME IndInv, NEW x \in Exec
    PROVE  /\ exec[x] \in Execution
           /\ exec[x].pc \in PC /\ exec[x].at \in SUBSET Obligation
           /\ exec[x].ahead \in SUBSET Obligation /\ exec[x].candidates \in SUBSET Obligation
           /\ exec[x].version \in 0 .. MaxVersion /\ exec[x].mail \in BOOLEAN
BY Facts DEF Execution

LEMMA ClosingMoves ==
    ASSUME IndInv, NEW x \in Exec,
           NEW out \in {"CANCELLED", "DISABLED", "NO_RECIPIENTS", "MAIL_NOT_CONFIGURED"},
           Closing(x, out)
    PROVE  Moved(x) /\ ExecInOrder(x)'
<1> DEFINE e == [Idle EXCEPT !.pc = "close", !.op = out, !.version = exec[x].version]
<1>1. e \in Execution /\ e.pc = "close" /\ e.op = out
  BY ExecIs DEF Idle, Execution, PC
<1>2. Set(x, e)
  BY DEF Closing
<1>3. out \in Closed
  BY DEF Closed
<1> HIDE DEF e
<1> QED
  BY <1>1, <1>2, <1>3, SetMoves, RestsInOrder

LEMMA GotoMoves ==
    ASSUME IndInv, NEW x \in Exec, NEW pc \in PC, Goto(x, pc)
    PROVE  Moved(x) /\ exec'[x].pc = pc /\ exec'[x].at = exec[x].at /\ exec'[x].op = exec[x].op
<1>1. [exec[x] EXCEPT !.pc = pc] \in Execution
  BY ExecIs DEF Execution
<1>2. exec' = [exec EXCEPT ![x] = [exec[x] EXCEPT !.pc = pc]]
  BY DEF Goto
<1> QED
  BY <1>1, <1>2, Facts DEF Moved, Execution

LEMMA AdvanceMoves ==
    ASSUME IndInv, NEW x \in Exec, NEW o \in Obligation, Advance(x, o)
    PROVE  Moved(x) /\ exec'[x].pc \in Resting /\ ExecInOrder(x)'
<1> DEFINE e == [exec[x] EXCEPT !.pc = Walk(o), !.op = "deliver", !.at = {}, !.ahead = @ \ {o}]
<1>1. Walk(o) \in {"bells", "mails"}
  BY DEF Walk
<1>2. e \in Execution /\ e.pc \in Resting
  BY <1>1, ExecIs DEF Execution, PC, Resting
<1>3. exec' = [exec EXCEPT ![x] = e]
  BY DEF Advance
<1> HIDE DEF e
<1> QED
  BY <1>2, <1>3, SetMoves, RestsInOrder DEF Set
-----------------------------------------------------------------------------
(* Steps of an execution.                                                   *)

\* The project's lock stays where it is, or x takes it or lets it go.
LockMoves(x) ==
    \/ project' = project
    \/ project' = None /\ project \in {x, None}
    \/ project' = x /\ project = None /\ x \in Attempt

LEMMA ActorStep ==
    ASSUME IndInv, NEW x \in Exec, Moved(x), ExecInOrder(x)', LockMoves(x),
           UNCHANGED <<cycle, tenant, bells>>, row' \in [Obligation -> Row],
           \A o \in Obligation : Follows(o, row'[o], x)
    PROVE  SoundStep
<1>1. \A y \in Exec \ {x} : exec[y].pc = "write" => project' = y
  <2>1. \A y \in Exec : exec[y].pc = "write" => project = y
    BY Facts DEF ExecInOrder
  <2>2. \A y \in Exec : y # None
    BY BoundsAssumption DEF Exec
  <2> QED
    BY <2>1, <2>2 DEF LockMoves
<1>2. tenant' \in BOOLEAN /\ project' \in Attempt \cup {None}
  BY Facts DEF LockMoves
<1>3. UNCHANGED <<cycle, bells>>
  OBVIOUS
<1>4. /\ exec' \in [Exec -> Execution]
      /\ \A y \in Exec \ {x} : /\ exec'[y] = exec[y]
                               /\ exec[y].pc = "write" => project' = y
  BY <1>1 DEF Moved
<1> QED
  BY <1>2, <1>3, <1>4, QuietStep

\* No row changes.
LEMMA MoveStep ==
    ASSUME IndInv, NEW x \in Exec, Moved(x), ExecInOrder(x)', LockMoves(x),
           UNCHANGED <<cycle, tenant, row, bells>>
    PROVE  SoundStep
<1>1. row' \in [Obligation -> Row] /\ \A o \in Obligation : Follows(o, row'[o], x)
  BY SameRows
<1> QED
  BY <1>1, ActorStep

LEMMA BeginStep ==
    ASSUME IndInv, NEW x \in Attempt, Begin(x)
    PROVE  SoundStep
<1>1. x \in Exec /\ LockMoves(x) /\ UNCHANGED <<cycle, tenant, bells>>
  BY DEF Exec, Begin, LockMoves
<1>2. CASE Terminal
  <2>1. row' = Terminalized /\ exec' = exec /\ exec[x].pc = "idle"
    BY <1>2 DEF Begin
  <2>2. Moved(x) /\ ExecInOrder(x)'
    BY <1>1, <2>1, Facts, RestsInOrder DEF Moved, Resting
  <2>3. \A o \in Obligation : Follows(o, row'[o], x)
    BY <2>1, TerminalizedFollows
  <2>4. row' \in [Obligation -> Row]
    BY <2>1, <2>3 DEF Terminalized, Follows, Keeps, Sound
  <2> QED
    BY <1>1, <2>2, <2>3, <2>4, ActorStep
<1>3. CASE ~Terminal
  <2> DEFINE e == [Idle EXCEPT !.pc = "resolve", !.version = version]
  <2>1. Set(x, e) /\ UNCHANGED row
    BY <1>3 DEF Begin
  <2>2. e \in Execution /\ e.pc = "resolve"
    BY Facts DEF Idle, Execution, PC
  <2> HIDE DEF e
  <2>3. Moved(x) /\ ExecInOrder(x)'
    BY <1>1, <2>1, <2>2, SetMoves, RestsInOrder DEF Resting
  <2> QED
    BY <1>1, <2>1, <2>3, MoveStep
<1> QED
  BY <1>2, <1>3

LEMMA ResolveStep ==
    ASSUME IndInv, NEW x \in Attempt, Resolve(x)
    PROVE  SoundStep
<1>1. /\ x \in Exec /\ LockMoves(x) /\ UNCHANGED <<cycle, tenant, row, bells>>
      /\ exec[x].pc = "resolve"
  BY DEF Exec, Resolve, LockMoves
<1>2. CASE Closing(x, "DISABLED") \/ Closing(x, "CANCELLED") \/ Closing(x, "NO_RECIPIENTS")
  <2>1. Moved(x) /\ ExecInOrder(x)'
    BY <1>1, <1>2, ClosingMoves
  <2> QED
    BY <1>1, <2>1, MoveStep
<1>3. ASSUME NEW c \in SUBSET Obligation \ {{}}, NEW key \in BOOLEAN,
             Set(x, [exec[x] EXCEPT !.pc = "bells", !.candidates = c,
                           !.ahead = c \cap BellOf,
                           !.mail = key \/ c \cap MailOf = {}])
      PROVE  SoundStep
  <2> DEFINE e == [exec[x] EXCEPT !.pc = "bells", !.candidates = c,
                           !.ahead = c \cap BellOf,
                           !.mail = key \/ c \cap MailOf = {}]
  <2>1. e \in Execution /\ e.pc = "bells"
    BY <1>1, ExecIs DEF Execution, PC
  <2>2. Set(x, e)
    BY <1>3
  <2> HIDE DEF e
  <2>3. Moved(x) /\ ExecInOrder(x)'
    BY <1>1, <2>1, <2>2, SetMoves, RestsInOrder DEF Resting
  <2> QED
    BY <1>1, <2>3, MoveStep
<1> QED
  BY <1>2, <1>3 DEF Resolve
\* The cycle is written, before its close or to no effect on the rows.
LEMMA CycleStep ==
    ASSUME IndInv, NEW x, UNCHANGED <<tenant, project, row, bells>>,
           version' \in 0 .. MaxVersion, outcome' \in {"RESOLUTION_FAILED", "ABANDONED"},
           exec' \in [Exec -> Execution], \A y \in Exec \ {x} : exec'[y] = exec[y],
           x \in Exec => ExecInOrder(x)'
    PROVE  SoundStep
<1>1. outcome' \in Outcome /\ outcome' \notin Closed
      /\ outcome' \notin {"CANCELLED", "DISABLED", "NO_RECIPIENTS"}
  BY DEF Outcome, Closed, Live
<1>2. TypeOK'
  BY <1>1, Facts DEF TypeOK
<1>3. BellsAreHonest'
  BY <1>1 DEF IndInv, BellsAreHonest
<1>4. \A o \in Obligation : Keeps(o, row'[o], x)
  BY SameRow DEF Follows
<1>5. \A y \in Exec : exec[y].pc = "write" => project' = y
  BY Facts DEF ExecInOrder
<1> QED
  BY <1>1, <1>2, <1>3, <1>4, <1>5, StepIsSound

LEMMA ResolutionFailsStep ==
    ASSUME IndInv, NEW x \in Attempt, ResolutionFails(x)
    PROVE  SoundStep
<1>1. x \in Exec /\ Stop(x) /\ UNCHANGED <<tenant, project, row, bells>>
  BY DEF Exec, ResolutionFails
<1>2. Moved(x) /\ ExecInOrder(x)'
  BY <1>1, StopMoves
<1>3. CASE CanWrite(exec[x].version)
  <2>1. outcome' = "RESOLUTION_FAILED" /\ version' \in 0 .. MaxVersion
    BY <1>3, Facts, BoundsAssumption DEF ResolutionFails, CanWrite, WriteOutcome
  <2> QED
    BY <1>1, <1>2, <2>1, CycleStep DEF Moved
<1>4. CASE ~CanWrite(exec[x].version)
  <2>1. UNCHANGED <<cycle, tenant, row, bells>> /\ LockMoves(x)
    BY <1>1, <1>4 DEF ResolutionFails, LockMoves
  <2> QED
    BY <1>1, <1>2, <2>1, MoveStep
<1> QED
  BY <1>3, <1>4

LEMMA VisitStep ==
    ASSUME IndInv, NEW x \in Attempt, NEW o \in Obligation, Visit(x, o)
    PROVE  SoundStep
<1>1. x \in Exec /\ LockMoves(x) /\ UNCHANGED <<cycle, tenant, row, bells>>
  BY DEF Exec, Visit, LockMoves
<1>2. CASE tenant
  <2> DEFINE op == IF o \in BellOf THEN "deliver" ELSE "claim"
             e == [exec[x] EXCEPT !.pc = "fence", !.at = {o}, !.op = op]
  <2>1. e \in Execution /\ e.pc = "fence" /\ e.at = {o} /\ e.op = op
    BY <1>1, ExecIs DEF Execution, PC
  <2>2. exec' = [exec EXCEPT ![x] = e]
    BY <1>2 DEF Visit
  <2> HIDE DEF e
  <2>3. Moved(x) /\ exec'[x] = e
    BY <1>1, <2>1, <2>2, SetMoves DEF Set
  <2>4. ExecInOrder(x)'
    BY <2>1, <2>3, Obligations DEF ExecInOrder, AtMostOne
  <2> QED
    BY <1>1, <2>3, <2>4, MoveStep
<1>3. CASE ~tenant
  <2>1. Moved(x) /\ ExecInOrder(x)'
    BY <1>1, <1>3, ClosingMoves DEF Visit
  <2> QED
    BY <1>1, <2>1, MoveStep
<1> QED
  BY <1>2, <1>3

LEMMA SkipLeaveSteps ==
    ASSUME IndInv, NEW x \in Attempt, NEW o \in Obligation,
           SkipRecipient(x, o) \/ LeaveRecipient(x, o)
    PROVE  SoundStep
<1>1. /\ x \in Exec /\ LockMoves(x) /\ UNCHANGED <<cycle, tenant, bells>>
      /\ Advance(x, o)
  BY DEF Exec, SkipRecipient, LeaveRecipient, LockMoves
<1>2. Moved(x) /\ ExecInOrder(x)'
  BY <1>1, AdvanceMoves
<1>3. CASE row' = row
  BY <1>1, <1>2, <1>3, MoveStep
<1>4. CASE row' # row
  <2>1. row[o].status # "SENT" /\ row' = [row EXCEPT ![o] = Skipped(o)]
    BY <1>4 DEF SkipRecipient, LeaveRecipient
  <2>2. Follows(o, Skipped(o), x)
    BY <2>1, SkippedFollows
  <2>3. row' \in [Obligation -> Row] /\ \A p \in Obligation : Follows(p, row'[p], x)
    BY <2>1, <2>2, OneRow
  <2> QED
    BY <1>1, <1>2, <2>3, ActorStep
<1> QED
  BY <1>3, <1>4

LEMMA EndBellsStep ==
    ASSUME IndInv, NEW x \in Attempt, EndBells(x)
    PROVE  SoundStep
<1>1. x \in Exec /\ LockMoves(x) /\ UNCHANGED <<cycle, tenant, row, bells>>
  BY DEF Exec, EndBells, LockMoves
<1>2. MailOnly \subseteq MailOf /\ MailOf \subseteq Obligation
  BY DEF MailOnly, Obligation
<1> DEFINE d == [exec[x] EXCEPT !.pc = "fence", !.op = "defer",
                                !.at = exec[x].candidates \cap MailOnly]
           f(owed) == [exec[x] EXCEPT !.pc = "mails", !.ahead = IF exec[x].mail THEN owed ELSE {}]
<1>3. CASE Set(x, d)
  <2>1. /\ d \in Execution /\ d.pc = "fence" /\ d.op = "defer"
        /\ d.at = exec[x].candidates \cap MailOnly
    BY <1>1, <1>2, ExecIs DEF Execution, PC
  <2> HIDE DEF d
  <2>2. Moved(x) /\ exec'[x] = d
    BY <1>1, <1>3, <2>1, SetMoves
  <2>3. ExecInOrder(x)'
    BY <1>2, <2>1, <2>2 DEF ExecInOrder
  <2> QED
    BY <1>1, <2>2, <2>3, MoveStep
<1>4. ASSUME NEW owed \in SUBSET MailOf, Set(x, f(owed))
      PROVE  SoundStep
  <2>1. f(owed) \in Execution /\ f(owed).pc = "mails"
    BY <1>1, <1>2, ExecIs DEF Execution, PC
  <2> HIDE DEF f
  <2>2. Moved(x) /\ ExecInOrder(x)'
    BY <1>1, <1>4, <2>1, SetMoves, RestsInOrder DEF Resting
  <2> QED
    BY <1>1, <2>2, MoveStep
<1>5. Set(x, d) \/ Set(x, f({o \in exec[x].candidates \cap MailOf : row[o].status \notin {"SENT", "SKIPPED"}}))
  BY DEF EndBells
<1> HIDE DEF d, f
<1> QED
  BY <1>3, <1>4, <1>5

LEMMA CheckStep ==
    ASSUME IndInv, NEW x \in Attempt, Check(x)
    PROVE  SoundStep
<1>1. x \in Exec /\ LockMoves(x) /\ UNCHANGED <<cycle, tenant, row, bells>>
  BY DEF Exec, Check, LockMoves
<1>2. Stop(x) \/ Closing(x, "CANCELLED") \/ Closing(x, "MAIL_NOT_CONFIGURED")
  BY DEF Check
<1>3. Moved(x) /\ ExecInOrder(x)'
  BY <1>1, <1>2, StopMoves, ClosingMoves
<1> QED
  BY <1>1, <1>3, MoveStep

LEMMA CrashStep ==
    ASSUME IndInv, NEW x \in Exec, Crash(x)
    PROVE  SoundStep
<1>1. Stop(x) /\ LockMoves(x) /\ UNCHANGED <<cycle, tenant, row, bells>>
  BY DEF Crash, LockMoves
<1> QED
  BY <1>1, StopMoves, MoveStep

-----------------------------------------------------------------------------
(* The creating transactions.                                               *)

LEMMA AfterWriteMoves ==
    ASSUME IndInv, NEW x \in Exec, AfterWrite(x)
    PROVE  Moved(x) /\ ExecInOrder(x)'
<1>1. CASE exec[x].op = "defer"
  <2> DEFINE e == [exec[x] EXCEPT !.pc = "mails", !.op = "deliver", !.at = {}, !.ahead = {}]
  <2>1. e \in Execution /\ e.pc = "mails"
    BY ExecIs DEF Execution, PC
  <2>2. exec' = [exec EXCEPT ![x] = e]
    BY <1>1 DEF AfterWrite
  <2> HIDE DEF e
  <2> QED
    BY <2>1, <2>2, SetMoves, RestsInOrder DEF Set, Resting
<1>2. CASE exec[x].op # "defer"
  <2>1. PICK o \in exec[x].at : Advance(x, o)
    BY <1>2 DEF AfterWrite
  <2> QED
    BY <2>1, ExecIs, AdvanceMoves
<1> QED
  BY <1>1, <1>2

LEMMA FenceStep ==
    ASSUME IndInv, NEW x \in Attempt, Fence(x)
    PROVE  SoundStep
<1>1. /\ x \in Exec /\ UNCHANGED <<cycle, tenant, row, bells>>
      /\ exec[x].pc = "fence" /\ project = None
  BY DEF Exec, Fence
<1>2. CASE ~tenant \/ Terminal
  <2>1. Moved(x) /\ ExecInOrder(x)' /\ LockMoves(x)
    BY <1>1, <1>2, ClosingMoves, AfterWriteMoves DEF Fence, LockMoves
  <2> QED
    BY <1>1, <2>1, MoveStep
<1>3. CASE tenant /\ ~Terminal
  <2>1. Goto(x, "write") /\ project' = x /\ "write" \in PC
    BY <1>3 DEF Fence, PC
  <2>2. /\ Moved(x) /\ exec'[x].pc = "write" /\ exec'[x].at = exec[x].at
        /\ exec'[x].op = exec[x].op
    BY <1>1, <2>1, GotoMoves
  <2>3. outcome' \notin Closed
    BY <1>1, <1>3 DEF Terminal, Live, Closed, cycle
  <2>4. ExecInOrder(x)
    BY <1>1, Facts
  <2>5. ExecInOrder(x)'
    BY <1>1, <2>1, <2>2, <2>3, <2>4 DEF ExecInOrder
  <2>6. LockMoves(x)
    BY <1>1, <2>1 DEF LockMoves
  <2> QED
    BY <1>1, <2>2, <2>5, <2>6, MoveStep
<1> QED
  BY <1>2, <1>3

\* Who writes has the lock, and lets it go.
LEMMA WritingIs ==
    ASSUME IndInv, NEW x \in Attempt, NEW op, Writing(x, op)
    PROVE  /\ x \in Exec /\ LockMoves(x) /\ project = x /\ project' = None
           /\ outcome \notin Closed /\ exec[x].op = op
           /\ op \in {"deliver", "record"} => exec[x].at \subseteq BellOf
           /\ op = "claim" => exec[x].at \subseteq MailOf /\ AtMostOne(exec[x].at)
           /\ op = "defer" => exec[x].at \subseteq MailOf
           /\ \A y \in Exec \ {x} : exec[y].pc # "write"
<1>1. x \in Exec /\ exec[x].pc = "write" /\ exec[x].op = op /\ project' = None
  BY DEF Exec, Writing
<1>2. \A y \in Exec : exec[y].pc = "write" => project = y /\ outcome \notin Closed
  BY Facts DEF ExecInOrder
<1>3. ExecInOrder(x)
  BY <1>1, Facts
<1> QED
  BY <1>1, <1>2, <1>3 DEF LockMoves, ExecInOrder

LEMMA DeliverFailsStep ==
    ASSUME IndInv, NEW x \in Attempt, DeliverFails(x)
    PROVE  SoundStep
<1> DEFINE e == [exec[x] EXCEPT !.pc = "fence", !.op = "record"]
<1>1. Writing(x, "deliver") /\ UNCHANGED <<cycle, tenant, row, bells>>
  BY DEF DeliverFails
<1>2. x \in Exec /\ LockMoves(x) /\ exec[x].at \subseteq BellOf
  BY <1>1, WritingIs
<1>3. exec[x].op = "deliver" /\ exec[x].pc = "write" /\ ExecInOrder(x)
  BY <1>1, <1>2, Facts DEF Writing
<1>4. AtMostOne(exec[x].at)
  BY <1>3 DEF ExecInOrder
<1>5. /\ e \in Execution /\ e.pc = "fence" /\ e.op = "record" /\ e.at = exec[x].at
  BY <1>2, ExecIs DEF Execution, PC
<1>6. exec' = [exec EXCEPT ![x] = e]
  BY DEF DeliverFails
<1> HIDE DEF e
<1>7. Moved(x) /\ exec'[x] = e
  BY <1>2, <1>5, <1>6, SetMoves DEF Set
<1>8. ExecInOrder(x)'
  BY <1>2, <1>4, <1>5, <1>7 DEF ExecInOrder
<1> QED
  BY <1>1, <1>2, <1>7, <1>8, MoveStep

LEMMA RecordFailureStep ==
    ASSUME IndInv, NEW x \in Attempt, RecordFailure(x)
    PROVE  SoundStep
<1>1. Writing(x, "record") /\ UNCHANGED <<cycle, tenant, bells>>
  BY DEF RecordFailure
<1>2. PICK o \in exec[x].at :
          /\ row' = IF row[o].status = "NONE" THEN [row EXCEPT ![o].status = "FAILED"] ELSE row
          /\ Advance(x, o)
  BY DEF RecordFailure
<1>3. x \in Exec /\ LockMoves(x) /\ o \in BellOf /\ o \in Obligation /\ outcome \notin Closed
  BY <1>1, WritingIs, Obligations
<1>4. Moved(x) /\ ExecInOrder(x)'
  BY <1>2, <1>3, AdvanceMoves
<1>5. CASE row' = row
  BY <1>1, <1>3, <1>4, <1>5, MoveStep
<1>6. CASE row[o].status = "NONE"
  <2> DEFINE r == [row[o] EXCEPT !.status = "FAILED"]
  <2>1. row[o] \in Row /\ RowInOrder(o, row[o])
    BY <1>3, Facts DEF Sound
  <2>2. r \in Row /\ r.status = "FAILED" /\ r.token = row[o].token /\ r.count = row[o].count
    BY <2>1 DEF Row, Status
  <2>3. row' = [row EXCEPT ![o] = r]
    BY <1>2, <1>6
  <2> HIDE DEF r
  <2>4. r.token = None
    BY <1>6, <2>1, <2>2 DEF RowInOrder
  <2>5. RowInOrder(o, r)
    BY <1>3, <2>1, <2>2, <2>4, BoundsAssumption DEF RowInOrder
  <2>6. Follows(o, r, x)
    BY <1>3, <1>6, <2>2, <2>4, <2>5, BoundsAssumption DEF Follows, Keeps, Sound, Settled, Exec
  <2>7. row' \in [Obligation -> Row] /\ \A p \in Obligation : Follows(p, row'[p], x)
    BY <1>3, <2>3, <2>6, OneRow
  <2> QED
    BY <1>1, <1>3, <1>4, <2>7, ActorStep
<1> QED
  BY <1>2, <1>5, <1>6

\* A row that was sent, or a bell's row that failed.
LEMMA SentRowKeeps ==
    ASSUME IndInv, NEW o \in BellOf, row[o].status \in {"NONE", "FAILED"}, NEW x
    PROVE  Keeps(o, [row[o] EXCEPT !.status = "SENT"], x)
<1> DEFINE r == [row[o] EXCEPT !.status = "SENT"]
<1>1. row[o] \in Row /\ RowInOrder(o, row[o]) /\ o \in Obligation /\ o \notin MailOf
  BY Facts, Obligations DEF Sound
<1>2. r \in Row /\ r.status = "SENT" /\ r.token = row[o].token /\ r.count = row[o].count
  BY <1>1 DEF Row, Status
<1>3. r.token = None /\ r.count = 0 /\ row[o].count = 0
  BY <1>1, <1>2 DEF RowInOrder
<1>4. ~Settled(row[o])
  BY <1>3, BoundsAssumption DEF Settled
<1> HIDE DEF r
<1>5. RowInOrder(o, r)
  BY <1>2, <1>3, BoundsAssumption DEF RowInOrder
<1>6. Keeps(o, r, x)
  BY <1>1, <1>2, <1>3, <1>4, <1>5, BoundsAssumption DEF Keeps, Sound, Unstranded, Exec
<1> QED
  BY <1>6 DEF r

LEMMA DeliverStep ==
    ASSUME IndInv, NEW x \in Attempt, Deliver(x)
    PROVE  SoundStep
<1>1. Writing(x, "deliver") /\ UNCHANGED <<cycle, tenant>>
  BY DEF Deliver
<1>2. PICK o \in exec[x].at :
          /\ IF row[o].status \in {"NONE", "FAILED"}
             THEN /\ row' = [row EXCEPT ![o].status = "SENT"]
                  /\ bells' = [bells EXCEPT ![o[2]] = @ + 1]
             ELSE UNCHANGED <<row, bells>>
          /\ Advance(x, o)
  BY DEF Deliver
<1>3. /\ x \in Exec /\ LockMoves(x) /\ o \in BellOf /\ o \in Obligation
      /\ outcome \notin Closed /\ outcome' = outcome /\ version' = version /\ project' = None
      /\ tenant' = tenant
      /\ \A y \in Exec \ {x} : exec[y].pc # "write"
  BY <1>1, WritingIs, Obligations DEF cycle
<1>4. Moved(x) /\ ExecInOrder(x)'
  BY <1>2, <1>3, AdvanceMoves
<1>5. CASE UNCHANGED <<row, bells>>
  BY <1>1, <1>3, <1>4, <1>5, MoveStep
<1>6. CASE row[o].status \in {"NONE", "FAILED"}
  <2> DEFINE r == [row[o] EXCEPT !.status = "SENT"]
  <2>1. row' = [row EXCEPT ![o] = r] /\ bells' = [bells EXCEPT ![o[2]] = @ + 1]
    BY <1>2, <1>6
  <2>2. Keeps(o, r, x)
    BY <1>3, <1>6, SentRowKeeps
  <2>3. r.status = "SENT" /\ r \in Row
    BY <1>3, <2>2, Facts DEF Keeps, Sound, Row
  <2> HIDE DEF r
  <2>4. \A p \in Obligation : row'[p] = IF p = o THEN r ELSE row[p]
    BY <2>1, <1>3, Facts
  <2>5. row' \in [Obligation -> Row]
    BY <2>1, <2>3, <1>3, Facts
  <2>6. \A p \in Obligation : Keeps(p, row'[p], x)
    BY <2>2, <2>4, SameRow DEF Follows
  <2>7. o[2] \in Bell /\ o = <<"IN_APP", o[2]>>
    BY <1>3, Obligations
  <2>8. bells \in [Bell -> Nat] /\ bells[o[2]] = 0
    BY <1>3, <1>6, <2>7, Facts DEF IndInv, BellsAreHonest
  <2>9. bells' \in [Bell -> Nat] /\ bells'[o[2]] = 1
    BY <2>1, <2>7, <2>8
  <2>10. ASSUME NEW q \in Bell
         PROVE  bells'[q] = IF row'[<<"IN_APP", q>>].status = "SENT" THEN 1 ELSE 0
    <3>1. CASE q = o[2]
      BY <3>1, <2>3, <2>4, <2>7, <2>9, <1>3
    <3>2. CASE q # o[2]
      <4>1. <<"IN_APP", q>> \in Obligation /\ <<"IN_APP", q>> # o
        BY <3>2, <2>7, Obligations
      <4>2. bells'[q] = bells[q] /\ row'[<<"IN_APP", q>>] = row[<<"IN_APP", q>>]
        BY <3>2, <4>1, <2>1, <2>4, <2>8
      <4> QED
        BY <4>2 DEF IndInv, BellsAreHonest
    <3> QED
      BY <3>1, <3>2
  <2>11. BellsAreHonest'
    BY <2>10, <1>3 DEF BellsAreHonest, Closed
  <2>12. TypeOK'
    BY <1>3, <1>4, <2>5, <2>9, Facts DEF TypeOK, Moved
  <2>13. \A y \in Exec \ {x} : exec'[y] = exec[y] /\ exec[y].pc # "write"
    BY <1>3, <1>4 DEF Moved
  <2> QED
    BY <1>3, <1>4, <2>6, <2>11, <2>12, <2>13, StepIsSound
<1> QED
  BY <1>2, <1>5, <1>6

LEMMA DeferStep ==
    ASSUME IndInv, NEW x \in Attempt, Defer(x)
    PROVE  SoundStep
<1> DEFINE d == [NoRow EXCEPT !.status = "DEFERRED", !.deadline = "ahead"]
<1>1. /\ Writing(x, "defer") /\ UNCHANGED <<cycle, tenant, bells>> /\ AfterWrite(x)
      /\ row' = [o \in Obligation |->
                    IF o \in exec[x].at /\ row[o].status = "NONE" THEN d ELSE row[o]]
  BY DEF Defer
<1>2. x \in Exec /\ LockMoves(x) /\ exec[x].at \subseteq MailOf
  BY <1>1, WritingIs
<1>3. Moved(x) /\ ExecInOrder(x)'
  BY <1>1, <1>2, AfterWriteMoves
<1>4. d \in Row /\ d.status = "DEFERRED" /\ d.token = None /\ d.deadline = "ahead"
  <2>1. 0 \in 0 .. Bound
    BY BoundsAssumption
  <2>2. NoRow \in Row /\ NoRow.token = None
    BY <2>1 DEF NoRow, Row, Status
  <2> QED
    BY <2>2 DEF Row, Status
<1> HIDE DEF d
<1>5. ASSUME NEW o \in Obligation
      PROVE  Follows(o, row'[o], x)
  <2>1. CASE o \in exec[x].at /\ row[o].status = "NONE"
    <3>1. row'[o] = d /\ o \in MailOf /\ o \notin BellOf
      BY <1>1, <1>2, <2>1, Obligations
    <3>2. Sound(o, d) /\ Unstranded(d) /\ ~Settled(row[o])
      BY <1>4, <2>1, <3>1, BoundsAssumption DEF Sound, RowInOrder, Unstranded, Settled
    <3>3. \A y \in Exec : d.token # y
      BY <1>4, BoundsAssumption DEF Exec
    <3> QED
      BY <2>1, <3>1, <3>2, <3>3 DEF Follows, Keeps
  <2>2. CASE ~(o \in exec[x].at /\ row[o].status = "NONE")
    BY <1>1, <2>2, SameRow
  <2> QED
    BY <2>1, <2>2
<1>6. row' \in [Obligation -> Row]
  BY <1>1, <1>5 DEF Follows, Keeps, Sound
<1> QED
  BY <1>1, <1>2, <1>3, <1>5, <1>6, ActorStep

-----------------------------------------------------------------------------
(* Claiming and sending.                                                    *)

\* A claim, counted or not, by the drain or before the close.
LEMMA ClaimFollows ==
    ASSUME IndInv, NEW o \in MailOf, NEW x \in Exec,
           row[o].status = "NONE" \/ Claimable(o),
           x \in Drain => row[o].deadline # "none",
           outcome \in Closed => x \in Drain,
           NEW r \in Row, r.status = "SENDING", r.token = x, r.deadline = row[o].deadline
    PROVE  Follows(o, r, x)
<1>1. /\ o \in Obligation /\ o \notin BellOf /\ x # None
      /\ row[o] \in Row /\ RowInOrder(o, row[o])
  BY Facts, Obligations, BoundsAssumption DEF Exec, Sound
<1>2. RowInOrder(o, r)
  BY <1>1 DEF RowInOrder
<1>3. ~Settled(row[o])
  BY <1>1, BoundsAssumption DEF Settled, Claimable, Row
<1>4. row[o].status = "SENDING" => row[o].lapsed
  BY <1>1 DEF Claimable, RowInOrder
<1> QED
  BY <1>1, <1>2, <1>3, <1>4 DEF Follows, Keeps, Sound, Unstranded

LEMMA ClaimedIs ==
    ASSUME IndInv, NEW o \in Obligation, NEW x \in Exec
    PROVE  /\ Claimed(o, x) \in Row /\ Claimed(o, x).status = "SENDING"
           /\ Claimed(o, x).token = x /\ Claimed(o, x).deadline = row[o].deadline
           /\ Claimed(o, x).count = row[o].count
BY Facts DEF Claimed, Sound, Row, Status

LEMMA ClaimStep ==
    ASSUME IndInv, NEW x \in Attempt, Claim(x)
    PROVE  SoundStep
<1>1. Writing(x, "claim") /\ UNCHANGED <<cycle, tenant, bells>>
  BY DEF Claim
<1>2. PICK o \in exec[x].at :
          IF row[o].status = "NONE" \/ Claimable(o)
          THEN row' = [row EXCEPT ![o] = Claimed(o, x)] /\ Goto(x, "send")
          ELSE Advance(x, o) /\ UNCHANGED row
  BY DEF Claim
<1>3. /\ x \in Exec /\ LockMoves(x) /\ exec[x].at \subseteq MailOf /\ AtMostOne(exec[x].at)
      /\ o \in MailOf /\ o \in Obligation /\ outcome \notin Closed
  BY <1>1, WritingIs, Obligations
<1>4. CASE row[o].status = "NONE" \/ Claimable(o)
  <2> DEFINE r == Claimed(o, x)
  <2>1. row' = [row EXCEPT ![o] = r] /\ Goto(x, "send") /\ "send" \in PC
    BY <1>2, <1>4 DEF PC
  <2>2. r \in Row /\ r.status = "SENDING" /\ r.token = x /\ r.deadline = row[o].deadline
    BY <1>3, ClaimedIs
  <2> HIDE DEF r
  <2>3. Follows(o, r, x)
    BY <1>3, <1>4, <2>2, ClaimFollows, BoundsAssumption
  <2>4. row' \in [Obligation -> Row] /\ \A p \in Obligation : Follows(p, row'[p], x)
    BY <1>3, <2>1, <2>3, OneRow
  <2>5. Moved(x) /\ exec'[x].pc = "send" /\ exec'[x].at = exec[x].at
    BY <1>3, <2>1, GotoMoves
  <2>6. \A p \in exec[x].at : row'[p] = r
    BY <1>3, <2>1, Facts DEF AtMostOne
  <2>7. ExecInOrder(x)'
    BY <1>3, <2>2, <2>5, <2>6 DEF ExecInOrder
  <2> QED
    BY <1>1, <1>3, <2>4, <2>5, <2>7, ActorStep
<1>5. CASE ~(row[o].status = "NONE" \/ Claimable(o))
  <2>1. Moved(x) /\ ExecInOrder(x)' /\ UNCHANGED row
    BY <1>2, <1>3, <1>5, AdvanceMoves
  <2> QED
    BY <1>1, <1>3, <2>1, MoveStep
<1> QED
  BY <1>4, <1>5

\* Where the one is that sends.
LEMMA SenderIs ==
    ASSUME IndInv, NEW x \in Exec,
           exec[x].pc \in {"send", "confirm", "fail", "skip", "take"}
    PROVE  /\ exec[x].at \subseteq MailOf /\ AtMostOne(exec[x].at)
           /\ \A o \in exec[x].at : o \in MailOf /\ o \in Obligation
           /\ exec[x].pc \in {"send", "confirm", "fail"} =>
                 \A o \in exec[x].at : row[o].token = x =>
                     row[o].status = "SENDING" /\ (exec[x].pc = "confirm" => row[o].accepted)
BY Facts, Obligations DEF ExecInOrder

LEMMA SendStep ==
    ASSUME IndInv, NEW x \in Exec, Send(x)
    PROVE  SoundStep
<1>1. exec[x].pc = "send" /\ LockMoves(x) /\ UNCHANGED <<cycle, tenant, bells>>
  BY DEF Send, LockMoves
<1>2. PICK answer \in {"confirm", "fail"}, took \in BOOLEAN :
          /\ answer = "confirm" => took
          /\ row' = [o \in Obligation |->
                        IF o \in exec[x].at /\ row[o].token = x
                        THEN [row[o] EXCEPT !.accepted = took] ELSE row[o]]
          /\ Goto(x, answer)
  BY DEF Send
<1>3. Moved(x) /\ exec'[x].pc = answer /\ exec'[x].at = exec[x].at
  BY <1>2, GotoMoves DEF PC
<1>4. /\ exec[x].at \subseteq MailOf /\ AtMostOne(exec[x].at)
      /\ \A o \in exec[x].at : row[o].token = x => row[o].status = "SENDING"
  BY <1>1, SenderIs
<1>5. ASSUME NEW o \in Obligation
      PROVE  /\ Follows(o, row'[o], x)
             /\ o \in exec[x].at /\ row'[o].token = x =>
                   row'[o].status = "SENDING" /\ row'[o].accepted = took
  <2>1. CASE o \in exec[x].at /\ row[o].token = x
    <3> DEFINE r == [row[o] EXCEPT !.accepted = took]
    <3>1. row[o] \in Row /\ RowInOrder(o, row[o]) /\ row[o].status = "SENDING"
      BY <1>4, <2>1, Facts DEF Sound
    <3>2. /\ r \in Row /\ r.status = "SENDING" /\ r.token = x /\ r.count = row[o].count
          /\ r.deadline = row[o].deadline /\ r.accepted = took
      BY <2>1, <3>1 DEF Row
    <3>3. row'[o] = r
      BY <1>2, <2>1
    <3> HIDE DEF r
    <3>4. RowInOrder(o, r)
      BY <2>1, <3>1, <3>2 DEF RowInOrder
    <3>5. outcome \in Closed => Unstranded(r)
      BY <2>1, <3>1, <3>2, Facts DEF Unstranded
    <3>6. Follows(o, r, x)
      BY <2>1, <3>1, <3>2, <3>4, <3>5 DEF Follows, Keeps, Sound, Settled
    <3> QED
      BY <3>2, <3>3, <3>6
  <2>2. CASE ~(o \in exec[x].at /\ row[o].token = x)
    BY <1>2, <2>2, SameRow
  <2> QED
    BY <2>1, <2>2
<1>6. row' \in [Obligation -> Row]
  BY <1>2, <1>5 DEF Follows, Keeps, Sound
<1>7. ExecInOrder(x)'
  <2>1. \A o \in exec[x].at : o \in Obligation
    BY ExecIs
  <2> QED
    BY <1>2, <1>3, <1>4, <1>5, <2>1 DEF ExecInOrder
<1> QED
  BY <1>1, <1>3, <1>5, <1>6, <1>7, ActorStep

LEMMA ProceedMoves ==
    ASSUME IndInv, NEW x \in Exec, NEW o \in Obligation, Proceed(x, o)
    PROVE  Moved(x) /\ exec'[x].pc \in Resting /\ ExecInOrder(x)'
BY AdvanceMoves, StopMoves DEF Proceed

LEMMA ConfirmStep ==
    ASSUME IndInv, NEW x \in Exec, Confirm(x)
    PROVE  SoundStep
<1>1. exec[x].pc = "confirm" /\ LockMoves(x) /\ UNCHANGED <<cycle, tenant, bells>>
  BY DEF Confirm, LockMoves
<1>2. PICK o \in exec[x].at :
          /\ row' = IF Owns(x, o)
                    THEN [row EXCEPT ![o].status = "SENT", ![o].lapsed = FALSE] ELSE row
          /\ Proceed(x, o)
  BY DEF Confirm
<1>3. o \in MailOf /\ o \in Obligation /\ (row[o].token = x => row[o].accepted)
  BY <1>1, SenderIs
<1>4. Moved(x) /\ ExecInOrder(x)'
  BY <1>2, <1>3, ProceedMoves
<1>5. CASE Owns(x, o)
  <2> DEFINE r == [row[o] EXCEPT !.status = "SENT", !.lapsed = FALSE]
  <2>1. row[o] \in Row /\ RowInOrder(o, row[o])
    BY <1>3, Facts DEF Sound
  <2>2. row[o].status = "SENDING" /\ row[o].token = x /\ row[o].accepted
    BY <1>3, <1>5 DEF Owns
  <2>3. /\ r \in Row /\ r.status = "SENT" /\ r.token = x /\ r.accepted = row[o].accepted
        /\ r.deadline = row[o].deadline /\ r.count = row[o].count
    BY <2>1, <2>2 DEF Row, Status
  <2>4. row' = [row EXCEPT ![o] = r]
    BY <1>2, <1>3, <1>5, Facts
  <2> HIDE DEF r
  <2>5. RowInOrder(o, r)
    BY <1>3, <2>1, <2>2, <2>3, Obligations DEF RowInOrder
  <2>6. Follows(o, r, x)
    BY <1>3, <2>2, <2>3, <2>5, Obligations DEF Follows, Keeps, Sound, Unstranded, Settled
  <2>7. row' \in [Obligation -> Row] /\ \A p \in Obligation : Follows(p, row'[p], x)
    BY <1>3, <2>4, <2>6, OneRow
  <2> QED
    BY <1>1, <1>4, <2>7, ActorStep
<1>6. CASE ~Owns(x, o)
  BY <1>1, <1>2, <1>4, <1>6, MoveStep
<1> QED
  BY <1>5, <1>6

LEMMA FailStep ==
    ASSUME IndInv, NEW x \in Exec, Fail(x)
    PROVE  SoundStep
<1>1. exec[x].pc = "fail" /\ LockMoves(x) /\ UNCHANGED <<cycle, tenant, bells>>
  BY DEF Fail, LockMoves
<1>2. PICK o \in exec[x].at :
          LET back == x \in Drain /\ row[o].count < Bound IN
          /\ row' = IF Owns(x, o)
                    THEN [row EXCEPT ![o].status = IF back THEN "DEFERRED" ELSE "FAILED",
                                     ![o].token = None, ![o].lapsed = FALSE, ![o].accepted = FALSE]
                    ELSE row
          /\ Proceed(x, o)
  BY DEF Fail
<1>3. o \in MailOf /\ o \in Obligation
  BY <1>1, SenderIs
<1>4. Moved(x) /\ ExecInOrder(x)' /\ exec'[x].pc \notin {"send", "confirm", "fail"}
  BY <1>2, <1>3, ProceedMoves DEF Resting
<1>5. CASE Owns(x, o)
  <2> DEFINE st == IF x \in Drain /\ row[o].count < Bound THEN "DEFERRED" ELSE "FAILED"
             r == [row[o] EXCEPT !.status = st, !.token = None, !.lapsed = FALSE,
                                 !.accepted = FALSE]
  <2>1. row[o] \in Row /\ RowInOrder(o, row[o]) /\ (outcome \in Closed => Unstranded(row[o]))
    BY <1>3, Facts DEF Sound
  <2>2. row[o].status = "SENDING" /\ row[o].token = x
    BY <1>5 DEF Owns
  <2>3. st \in {"DEFERRED", "FAILED"}
    OBVIOUS
  <2>4. /\ r \in Row /\ r.status = st /\ r.token = None
        /\ r.deadline = row[o].deadline /\ r.count = row[o].count
    BY <2>1, <2>3 DEF Row, Status
  <2>5. row' = [row EXCEPT ![o] = r]
    BY <1>2, <1>3, <1>5, Facts
  <2>6. st = "DEFERRED" => x \in Drain
    OBVIOUS
  <2>7. x \in Drain => st = "DEFERRED" \/ row[o].count >= Bound
    BY <2>1, BoundsAssumption DEF Row
  <2> HIDE DEF r, st
  <2>8. RowInOrder(o, r)
    BY <1>3, <2>1, <2>2, <2>3, <2>4, <2>6, Obligations, BoundsAssumption DEF RowInOrder, Exec
  <2>9. outcome \in Closed => Unstranded(r)
    BY <2>1, <2>2, <2>3, <2>4, <2>7 DEF Unstranded
  <2>10. \A y \in Exec : r.token # y
    BY <2>4, BoundsAssumption DEF Exec
  <2>11. Follows(o, r, x)
    BY <1>3, <1>4, <2>2, <2>3, <2>4, <2>8, <2>9, <2>10, Obligations
       DEF Follows, Keeps, Sound, Settled
  <2>12. row' \in [Obligation -> Row] /\ \A p \in Obligation : Follows(p, row'[p], x)
    BY <1>3, <2>5, <2>11, OneRow
  <2> QED
    BY <1>1, <1>4, <2>12, ActorStep
<1>6. CASE ~Owns(x, o)
  BY <1>1, <1>2, <1>4, <1>6, MoveStep
<1> QED
  BY <1>5, <1>6

-----------------------------------------------------------------------------
(* The close, which nobody's delivery overlaps.                             *)

LEMMA CloseStep ==
    ASSUME IndInv, NEW x \in Attempt, Close(x)
    PROVE  SoundStep
<1> DEFINE delivered == \E o \in Obligation : Terminalized[o].status = "SENT"
           out == IF exec[x].op # "MAIL_NOT_CONFIGURED" /\ delivered THEN "SENT" ELSE exec[x].op
<1>1. /\ x \in Exec /\ exec[x].pc = "close" /\ project = None /\ LockMoves(x)
      /\ Stop(x) /\ UNCHANGED <<tenant, project, bells>>
  BY DEF Close, Exec, LockMoves
<1>2. Moved(x) /\ ExecInOrder(x)'
  BY <1>1, StopMoves
<1>3. /\ \A o \in Obligation :
            /\ Follows(o, Terminalized[o], x) /\ Unstranded(Terminalized[o])
            /\ Terminalized[o].status = "SENT" <=> row[o].status = "SENT"
      /\ Terminalized \in [Obligation -> Row]
  <2>1. \A o \in Obligation :
            /\ Follows(o, Terminalized[o], x) /\ Unstranded(Terminalized[o])
            /\ Terminalized[o].status = "SENT" <=> row[o].status = "SENT"
    BY TerminalizedFollows
  <2> QED
    BY <2>1 DEF Terminalized, Follows, Keeps, Sound
<1>4. CASE CanWrite(exec[x].version) /\ WriteOutcome(out) /\ row' = Terminalized
  <2>1. exec[x].op \in Closed
    BY <1>1, Facts DEF ExecInOrder
  <2>2. outcome' = out /\ out \in Closed /\ out \in Outcome
    BY <1>4, <2>1 DEF WriteOutcome, Closed, Outcome
  <2>3. version' \in 0 .. MaxVersion
    BY <1>4, Facts, BoundsAssumption DEF CanWrite, WriteOutcome
  <2>4. TypeOK'
    BY <1>1, <1>2, <1>3, <1>4, <2>2, <2>3, Facts DEF TypeOK, Moved
  <2>5. \A r \in Bell : bells'[r] = IF row'[<<"IN_APP", r>>].status = "SENT" THEN 1 ELSE 0
    BY <1>1, <1>3, <1>4, Obligations DEF IndInv, BellsAreHonest
  <2>6. ASSUME outcome' \in {"CANCELLED", "DISABLED", "NO_RECIPIENTS"}
        PROVE  \A r \in Bell : bells'[r] = 0
    <3>1. ~delivered
      BY <2>2, <2>6
    <3>2. \A r \in Bell : row'[<<"IN_APP", r>>].status # "SENT"
      BY <1>4, <3>1, Obligations
    <3> QED
      BY <2>5, <3>2
  <2>7. BellsAreHonest'
    BY <2>5, <2>6 DEF BellsAreHonest
  <2>8. \A y \in Exec \ {x} : exec'[y] = exec[y] /\ exec[y].pc # "write"
    <3>1. \A y \in Exec : y # None /\ (exec[y].pc = "write" => project = y)
      BY Facts, BoundsAssumption DEF ExecInOrder, Exec
    <3> QED
      BY <1>1, <1>2, <3>1 DEF Moved
  <2>9. \A o \in Obligation : Keeps(o, row'[o], x) /\ Unstranded(row'[o])
    BY <1>3, <1>4 DEF Follows
  <2> QED
    BY <1>2, <2>4, <2>7, <2>8, <2>9, StepIsSound
<1>5. CASE row' = Terminalized /\ UNCHANGED cycle
  BY <1>1, <1>2, <1>3, <1>5, ActorStep
<1>6. CASE UNCHANGED <<cycle, row>>
  BY <1>1, <1>2, <1>6, MoveStep
<1> QED
  BY <1>4, <1>5, <1>6 DEF Close

-----------------------------------------------------------------------------
(* The drain.                                                               *)

LEMMA ReadDeferredStep ==
    ASSUME IndInv, NEW x \in Drain, ReadDeferred(x)
    PROVE  SoundStep
<1>1. x \in Exec /\ LockMoves(x) /\ UNCHANGED <<cycle, tenant, row, bells>>
  BY DEF Exec, ReadDeferred, LockMoves
<1>2. PICK o \in MailOf, pc \in {"skip", "take"} : Set(x, [Idle EXCEPT !.pc = pc, !.at = {o}])
  BY DEF ReadDeferred
<1> DEFINE e == [Idle EXCEPT !.pc = pc, !.at = {o}]
<1>3. e \in Execution /\ e.pc = pc /\ e.at = {o}
  BY IdleIs, Obligations DEF Execution, PC
<1>4. Set(x, e)
  BY <1>2
<1> HIDE DEF e
<1>5. Moved(x) /\ exec'[x] = e
  BY <1>1, <1>3, <1>4, SetMoves
<1>6. ExecInOrder(x)'
  BY <1>3, <1>5 DEF ExecInOrder, AtMostOne
<1> QED
  BY <1>1, <1>5, <1>6, MoveStep

LEMMA SkipDeferredStep ==
    ASSUME IndInv, NEW x \in Drain, SkipDeferred(x)
    PROVE  SoundStep
<1>1. /\ x \in Exec /\ LockMoves(x) /\ UNCHANGED <<cycle, tenant, bells>>
      /\ exec[x].pc = "skip" /\ Stop(x)
  BY DEF Exec, SkipDeferred, LockMoves
<1>2. PICK o \in exec[x].at :
          row' = IF row[o].status = "DEFERRED" THEN [row EXCEPT ![o] = Skipped(o)] ELSE row
  BY DEF SkipDeferred
<1>3. o \in Obligation
  BY <1>1, SenderIs
<1>4. Moved(x) /\ ExecInOrder(x)'
  BY <1>1, StopMoves
<1>5. CASE row[o].status = "DEFERRED"
  <2>1. row' \in [Obligation -> Row] /\ \A p \in Obligation : Follows(p, row'[p], x)
    BY <1>2, <1>3, <1>5, SkippedFollows, OneRow
  <2> QED
    BY <1>1, <1>4, <2>1, ActorStep
<1>6. CASE row[o].status # "DEFERRED"
  BY <1>1, <1>2, <1>4, <1>6, MoveStep
<1> QED
  BY <1>5, <1>6

LEMMA TakeDeferredStep ==
    ASSUME IndInv, NEW x \in Drain, TakeDeferred(x)
    PROVE  SoundStep
<1>1. /\ x \in Exec /\ LockMoves(x) /\ UNCHANGED <<cycle, tenant, bells>>
      /\ exec[x].pc = "take"
  BY DEF Exec, TakeDeferred, LockMoves
<1>2. PICK o \in exec[x].at :
          \/ /\ row[o].status = "DEFERRED" /\ Claimable(o)
             /\ row' = [row EXCEPT ![o] = [Claimed(o, x) EXCEPT !.count = @ + 1]]
             /\ Goto(x, "send")
          \/ /\ row' = IF row[o].status = "DEFERRED" /\ row[o].count >= Bound
                             /\ row[o].deadline = "ahead"
                       THEN [row EXCEPT ![o].status = "FAILED"] ELSE row
             /\ Stop(x)
  BY DEF TakeDeferred
<1>3. o \in MailOf /\ o \in Obligation /\ exec[x].at \subseteq MailOf /\ AtMostOne(exec[x].at)
  BY <1>1, SenderIs
<1>4. row[o] \in Row /\ RowInOrder(o, row[o])
  BY <1>3, Facts DEF Sound
<1>5. CASE /\ row[o].status = "DEFERRED" /\ Claimable(o)
           /\ row' = [row EXCEPT ![o] = [Claimed(o, x) EXCEPT !.count = @ + 1]]
           /\ Goto(x, "send")
  <2> DEFINE r == [Claimed(o, x) EXCEPT !.count = @ + 1]
  <2>1. row[o].count + 1 \in 0 .. Bound
    BY <1>4, <1>5, BoundsAssumption DEF Claimable, Row
  <2>2. r \in Row /\ r.status = "SENDING" /\ r.token = x /\ r.deadline = row[o].deadline
    BY <1>1, <1>3, <2>1, ClaimedIs DEF Row
  <2>3. row' = [row EXCEPT ![o] = r]
    BY <1>5
  <2> HIDE DEF r
  <2>4. row[o].deadline # "none"
    BY <1>4, <1>5 DEF RowInOrder
  <2>5. Follows(o, r, x)
    BY <1>1, <1>3, <1>5, <2>2, <2>4, ClaimFollows
  <2>6. row' \in [Obligation -> Row] /\ \A p \in Obligation : Follows(p, row'[p], x)
    BY <1>3, <2>3, <2>5, OneRow
  <2>7. Moved(x) /\ exec'[x].pc = "send" /\ exec'[x].at = exec[x].at
    BY <1>1, <1>5, GotoMoves DEF PC
  <2>8. \A p \in exec[x].at : row'[p] = r
    BY <1>3, <2>3, Facts DEF AtMostOne
  <2>9. ExecInOrder(x)'
    BY <1>3, <2>2, <2>7, <2>8 DEF ExecInOrder
  <2> QED
    BY <1>1, <2>6, <2>7, <2>9, ActorStep
<1>6. CASE Stop(x) /\ row' = row
  BY <1>1, <1>6, StopMoves, MoveStep
<1>7. CASE /\ Stop(x) /\ row[o].status = "DEFERRED" /\ row[o].count >= Bound
           /\ row' = [row EXCEPT ![o].status = "FAILED"]
  <2> DEFINE r == [row[o] EXCEPT !.status = "FAILED"]
  <2>1. /\ r \in Row /\ r.status = "FAILED" /\ r.token = row[o].token
        /\ r.count = row[o].count /\ r.deadline = row[o].deadline
    BY <1>4 DEF Row, Status
  <2>2. row' = [row EXCEPT ![o] = r]
    BY <1>7
  <2> HIDE DEF r
  <2>3. r.token = None /\ r.count >= Bound
    BY <1>4, <1>7, <2>1 DEF RowInOrder
  <2>4. RowInOrder(o, r)
    BY <1>3, <1>4, <1>7, <2>1, <2>3, Obligations, BoundsAssumption DEF RowInOrder
  <2>5. \A y \in Exec : r.token # y
    BY <2>3, BoundsAssumption DEF Exec
  <2>6. Follows(o, r, x)
    BY <1>3, <1>7, <2>1, <2>3, <2>4, <2>5, Obligations DEF Follows, Keeps, Sound, Unstranded, Settled
  <2>7. row' \in [Obligation -> Row] /\ \A p \in Obligation : Follows(p, row'[p], x)
    BY <1>3, <2>2, <2>6, OneRow
  <2>8. Moved(x) /\ ExecInOrder(x)'
    BY <1>1, <1>7, StopMoves
  <2> QED
    BY <1>1, <2>7, <2>8, ActorStep
<1> QED
  BY <1>2, <1>5, <1>6, <1>7

-----------------------------------------------------------------------------
(* The sweep, time, and the project.                                        *)

LEMMA NobodysStep ==
    ASSUME IndInv, UNCHANGED <<cycle, project, bells, exec>>, tenant' \in BOOLEAN,
           row' \in [Obligation -> Row], \A o \in Obligation : Follows(o, row'[o], None)
    PROVE  SoundStep
<1>1. /\ exec' \in [Exec -> Execution] /\ project' \in Attempt \cup {None}
      /\ \A y \in Exec : exec[y].pc = "write" => project' = y
  BY Facts DEF ExecInOrder
<1>2. None \notin Exec
  BY BoundsAssumption DEF Exec
<1> QED
  BY <1>1, <1>2, QuietStep

\* What time and the sweep do to an email's row: it stays with its claim, or the
\* lease has ended.
LEMMA SweepStep ==
    ASSUME IndInv, NEW o \in MailOf, UNCHANGED <<cycle, tenant, project, bells, exec>>,
           NEW r \in Row, row' = [row EXCEPT ![o] = r],
           ~Settled(row[o]), r.status # "SENT", RowInOrder(o, r),
           outcome \in Closed => Unstranded(r),
           \/ r.token = row[o].token /\ r.status = row[o].status /\ r.accepted = row[o].accepted
           \/ r.token = None /\ (row[o].status = "SENDING" => row[o].lapsed)
    PROVE  SoundStep
<1>1. o \in Obligation /\ o \notin BellOf
  BY Obligations
<1>2. \A y \in Exec : y # None
  BY BoundsAssumption DEF Exec
<1>3. Follows(o, r, None)
  BY <1>1, <1>2 DEF Follows, Keeps, Sound
<1>4. row' \in [Obligation -> Row] /\ \A p \in Obligation : Follows(p, row'[p], None)
  BY <1>1, <1>3, OneRow
<1> QED
  BY <1>4, Facts, NobodysStep

LEMMA MailIs ==
    ASSUME IndInv, NEW o \in MailOf
    PROVE  /\ row[o] \in Row /\ RowInOrder(o, row[o]) /\ o \in Obligation /\ o \notin BellOf
           /\ outcome \in Closed => Unstranded(row[o])
BY Facts, Obligations DEF Sound

LEMMA ExpireDeferredStep ==
    ASSUME IndInv, NEW o \in MailOf, ExpireDeferred(o)
    PROVE  SoundStep
<1> DEFINE r == [row[o] EXCEPT !.status = "EXPIRED"]
<1>1. /\ row[o].status = "DEFERRED" /\ UNCHANGED <<cycle, tenant, project, bells, exec>>
      /\ row' = [row EXCEPT ![o] = r]
  BY DEF ExpireDeferred
<1>2. row[o] \in Row /\ RowInOrder(o, row[o]) /\ o \notin BellOf
  BY MailIs
<1>3. r \in Row /\ r.status = "EXPIRED" /\ r.token = row[o].token /\ r.deadline = row[o].deadline
  BY <1>2 DEF Row, Status
<1> HIDE DEF r
<1>4. r.token = None
  BY <1>1, <1>2, <1>3 DEF RowInOrder
<1>5. RowInOrder(o, r) /\ Unstranded(r) /\ ~Settled(row[o])
  BY <1>1, <1>2, <1>3, <1>4, BoundsAssumption DEF RowInOrder, Unstranded, Settled
<1> QED
  BY <1>1, <1>3, <1>4, <1>5, SweepStep

LEMMA ReconcileSendingStep ==
    ASSUME IndInv, NEW o \in MailOf, ReconcileSending(o)
    PROVE  SoundStep
<1>1. /\ row[o].status = "SENDING" /\ row[o].lapsed /\ row[o].deadline # "none"
      /\ UNCHANGED <<cycle, tenant, project, bells, exec>>
  BY DEF ReconcileSending
<1>2. PICK past \in BOOLEAN :
         row' = [row EXCEPT
                     ![o].status = IF past THEN "EXPIRED"
                                   ELSE IF row[o].count >= Bound THEN "FAILED"
                                   ELSE "DEFERRED",
                     ![o].token = None, ![o].lapsed = FALSE, ![o].accepted = FALSE]
  BY DEF ReconcileSending
<1> DEFINE st == IF past THEN "EXPIRED" ELSE IF row[o].count >= Bound THEN "FAILED" ELSE "DEFERRED"
           r == [row[o] EXCEPT !.status = st, !.token = None, !.lapsed = FALSE, !.accepted = FALSE]
<1>3. row[o] \in Row /\ RowInOrder(o, row[o]) /\ o \in Obligation /\ o \notin BellOf
  BY MailIs
<1>4. st \in {"EXPIRED", "FAILED", "DEFERRED"} /\ (st = "FAILED" => row[o].count >= Bound)
  OBVIOUS
<1>5. /\ r \in Row /\ r.status = st /\ r.token = None
      /\ r.deadline = row[o].deadline /\ r.count = row[o].count
  BY <1>3, <1>4 DEF Row, Status
<1>6. row' = [row EXCEPT ![o] = r]
  BY <1>2, <1>3, Facts
<1> HIDE DEF r, st
<1>7. RowInOrder(o, r)
  BY <1>1, <1>3, <1>4, <1>5, BoundsAssumption DEF RowInOrder
<1>8. Unstranded(r) /\ ~Settled(row[o])
  BY <1>1, <1>4, <1>5 DEF Unstranded, Settled
<1> QED
  BY <1>1, <1>4, <1>5, <1>6, <1>7, <1>8, SweepStep

LEMMA LapseStep ==
    ASSUME IndInv, NEW o \in MailOf, Lapse(o)
    PROVE  SoundStep
<1> DEFINE r == [row[o] EXCEPT !.lapsed = TRUE]
<1>1. /\ row[o].status = "SENDING" /\ UNCHANGED <<cycle, tenant, project, bells, exec>>
      /\ row' = [row EXCEPT ![o] = r]
  BY DEF Lapse
<1>2. /\ row[o] \in Row /\ RowInOrder(o, row[o]) /\ o \notin BellOf
      /\ outcome \in Closed => Unstranded(row[o])
  BY MailIs
<1>3. /\ r \in Row /\ r.status = "SENDING" /\ r.token = row[o].token
      /\ r.accepted = row[o].accepted /\ r.deadline = row[o].deadline
  BY <1>1, <1>2 DEF Row
<1> HIDE DEF r
<1>4. RowInOrder(o, r) /\ (outcome \in Closed => Unstranded(r)) /\ ~Settled(row[o])
  BY <1>1, <1>2, <1>3 DEF RowInOrder, Unstranded, Settled
<1> QED
  BY <1>1, <1>3, <1>4, SweepStep

LEMMA DeadlinePassesStep ==
    ASSUME IndInv, NEW o \in MailOf, DeadlinePasses(o)
    PROVE  SoundStep
<1> DEFINE r == [row[o] EXCEPT !.deadline = "past"]
<1>1. /\ ~Settled(row[o]) /\ UNCHANGED <<cycle, tenant, project, bells, exec>>
      /\ row' = [row EXCEPT ![o] = r]
  BY DEF DeadlinePasses
<1>2. /\ row[o] \in Row /\ RowInOrder(o, row[o]) /\ o \notin BellOf
      /\ outcome \in Closed => Unstranded(row[o])
  BY MailIs
<1>3. /\ r \in Row /\ r.status = row[o].status /\ r.token = row[o].token
      /\ r.accepted = row[o].accepted /\ r.deadline = "past" /\ r.count = row[o].count
  BY <1>1, <1>2 DEF Row
<1> HIDE DEF r
<1>4. RowInOrder(o, r) /\ (outcome \in Closed => Unstranded(r)) /\ r.status # "SENT"
  BY <1>1, <1>2, <1>3 DEF RowInOrder, Unstranded, Settled
<1> QED
  BY <1>1, <1>3, <1>4, SweepStep

LEMMA AbandonStep ==
    ASSUME IndInv, Abandon
    PROVE  SoundStep
<1>1. /\ UNCHANGED <<tenant, project, row, bells, exec>> /\ outcome' = "ABANDONED"
      /\ version' \in 0 .. MaxVersion
  BY Facts, BoundsAssumption DEF Abandon, WriteOutcome
<1>2. None \notin Exec
  BY BoundsAssumption DEF Exec
<1> QED
  BY <1>1, <1>2, Facts, CycleStep

LEMMA TransferStep ==
    ASSUME IndInv, Transfer
    PROVE  SoundStep
<1>1. UNCHANGED <<cycle, project, row, bells, exec>> /\ tenant' \in BOOLEAN
  BY DEF Transfer
<1>2. row' \in [Obligation -> Row] /\ \A o \in Obligation : Follows(o, row'[o], None)
  BY <1>1, SameRows
<1> QED
  BY <1>1, <1>2, NobodysStep

-----------------------------------------------------------------------------
(* All steps.                                                               *)

LEMMA NextIsSound ==
    ASSUME IndInv, Next
    PROVE  SoundStep
<1>1. ASSUME NEW x \in Attempt, AttemptStep(x)
      PROVE  SoundStep
  BY <1>1, BeginStep, ResolveStep, ResolutionFailsStep, VisitStep, SkipLeaveSteps,
     EndBellsStep, FenceStep, DeliverStep, DeliverFailsStep, RecordFailureStep, DeferStep,
     ClaimStep, CheckStep, CloseStep
     DEF AttemptStep
<1>2. ASSUME NEW d \in Drain, DrainStep(d)
      PROVE  SoundStep
  BY <1>2, ReadDeferredStep, SkipDeferredStep, TakeDeferredStep DEF DrainStep
<1>3. ASSUME NEW x \in Exec, ExecStep(x)
      PROVE  SoundStep
  BY <1>3, SendStep, ConfirmStep, FailStep, CrashStep DEF ExecStep
<1>4. ASSUME NEW o \in MailOf,
             ExpireDeferred(o) \/ ReconcileSending(o) \/ Lapse(o) \/ DeadlinePasses(o)
      PROVE  SoundStep
  BY <1>4, ExpireDeferredStep, ReconcileSendingStep, LapseStep, DeadlinePassesStep
<1> QED
  BY <1>1, <1>2, <1>3, <1>4, AbandonStep, TransferStep DEF Next

LEMMA InitInv == Init => IndInv
<1> SUFFICES ASSUME Init PROVE IndInv
  OBVIOUS
<1>1. NoRow \in Row /\ NoRow.status = "NONE" /\ NoRow.token = None /\ NoRow.count = 0
  <2>1. 0 \in 0 .. Bound
    BY BoundsAssumption
  <2> QED
    BY <2>1 DEF NoRow, Row, Status
<1>2. \A o \in Obligation : row[o] = NoRow
  BY DEF Init
<1>3. TypeOK
  BY <1>1, IdleIs, BoundsAssumption DEF Init, TypeOK, Outcome, Live
<1>4. \A o \in Obligation : RowInOrder(o, row[o])
  BY <1>1, <1>2, BoundsAssumption DEF RowInOrder
<1>5. \A x \in Exec : ExecInOrder(x)
  BY IdleIs DEF Init, ExecInOrder
<1>6. outcome \notin Closed /\ outcome \notin {"CANCELLED", "DISABLED", "NO_RECIPIENTS"}
  BY DEF Init, Closed
<1>7. BellsAreHonest
  BY <1>1, <1>2, <1>6, Obligations DEF Init, BellsAreHonest
<1>8. SentWasAccepted
  BY <1>1, <1>2, Obligations DEF SentWasAccepted
<1> QED
  BY <1>3, <1>4, <1>5, <1>6, <1>7, <1>8 DEF IndInv, ClaimsAreDrains, NothingIsStranded

LEMMA StepInv == IndInv /\ [Next]_vars => IndInv'
<1> SUFFICES ASSUME IndInv, [Next]_vars PROVE IndInv'
  OBVIOUS
<1>1. CASE Next
  BY <1>1, NextIsSound DEF SoundStep
<1>2. CASE UNCHANGED vars
  <2>1. /\ tenant' \in BOOLEAN /\ UNCHANGED <<cycle, project, bells, exec, row>>
    BY <1>2, Facts DEF vars
  <2>2. row' \in [Obligation -> Row] /\ \A o \in Obligation : Follows(o, row'[o], None)
    BY <2>1, SameRows
  <2> QED
    BY <2>1, <2>2, NobodysStep DEF SoundStep
<1> QED
  BY <1>1, <1>2

LEMMA StepKept == IndInv /\ Next => RowsAreKept /\ ClaimsAreKept
BY NextIsSound DEF SoundStep

(***************************************************************************)
(* The inductive invariant: a row carries a token exactly while a claim on *)
(* it is open, an execution writes rows only under the project's lock and  *)
(* before the cycle's close, and after the close only the drain claims     *)
(* rows (creationFenceVerdict, closeObligationsAndComplete,                *)
(* publishingEmailClaimableSql).                                           *)
(***************************************************************************)
THEOREM InvHolds == Spec => []IndInv
BY InitInv, StepInv, PTL DEF Spec

(***************************************************************************)
(* Every recipient's bell rings once, with its row, and a cycle that says  *)
(* that nobody was notified rang none, however many attempts and drains    *)
(* overlap.                                                                *)
(***************************************************************************)
THEOREM BellsAreHonestHolds == Spec => []BellsAreHonest
<1>1. IndInv => BellsAreHonest
  BY DEF IndInv
<1> QED
  BY <1>1, InvHolds, PTL

(***************************************************************************)
(* A cycle that its attempt closed leaves no row behind that nothing would *)
(* settle: the close and the creating transactions exclude each other.     *)
(***************************************************************************)
THEOREM NothingIsStrandedHolds == Spec => []NothingIsStranded
<1>1. IndInv => NothingIsStranded
  BY DEF IndInv
<1> QED
  BY <1>1, InvHolds, PTL

(***************************************************************************)
(* An email's row says SENT only of a message that the provider accepted   *)
(* (confirmPublishingEmailDelivery compares the token).                    *)
(***************************************************************************)
THEOREM SentWasAcceptedHolds == Spec => []SentWasAccepted
<1>1. IndInv => SentWasAccepted
  BY DEF IndInv
<1> QED
  BY <1>1, InvHolds, PTL

(***************************************************************************)
(* No step takes a settled row back: no retry, drain or sweep delivers it  *)
(* again, whatever the attempt bound.                                      *)
(***************************************************************************)
THEOREM SettledForGoodHolds == Spec => SettledForGood
<1>1. IndInv /\ [Next]_vars =>
          [\A o \in Obligation : Settled(row[o]) =>
              Settled(row'[o]) /\ (row'[o].status = "SENT" => row[o].status = "SENT")]_vars
  BY StepKept DEF RowsAreKept
<1> QED
  BY <1>1, InvHolds, PTL DEF Spec, SettledForGood

(***************************************************************************)
(* No step takes the claim from an execution that is inside the provider's *)
(* call, unless its lease lapsed or the row was skipped: a late answer of  *)
(* another execution, whose token is not the row's, changes nothing.       *)
(***************************************************************************)
THEOREM ClaimsEndProperlyHolds == Spec => ClaimsEndProperly
<1>1. IndInv /\ [Next]_vars =>
          [\A o \in MailOf :
              row[o].status = "SENDING" /\ row'[o].token # row[o].token =>
                  \/ row[o].lapsed
                  \/ row'[o].status = "SKIPPED"
                  \/ \A x \in Exec : x = row[o].token => ~Sending(x, o)']_vars
  BY StepKept DEF ClaimsAreKept
<1> QED
  BY <1>1, InvHolds, PTL DEF Spec, ClaimsEndProperly
=============================================================================
