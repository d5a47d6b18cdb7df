--------------------- MODULE GlossyTransactionsProofs ---------------------
(***************************************************************************)
(* Proofs about GlossyTransactions, for any number of connections, build   *)
(* attempts and visuals.                                                   *)
(***************************************************************************)
EXTENDS GlossyTransactions, TLAPS

-----------------------------------------------------------------------------
(* Transactions and their locks.                                            *)

\* x at statement pc, and then with row r locked too.
At(x, pc) == [x EXCEPT !.pc = pc]
Locked(x, r, pc) == [x EXCEPT !.pc = pc, !.locks = @ \cup {r}]

\* What every connection's transaction satisfies, whatever the others do.
Good(x) ==
    /\ x \in Transaction
    /\ x.build <= claims
    /\ x.build = 0 <=> x.kind = "claim"
    /\ InOrder(x)

LEMMA Facts ==
    ASSUME IndInv, NEW t \in Tx
    PROVE  /\ Good(tx[t])
           /\ tx \in [Tx -> Transaction]
           /\ tx[t].build \in 0..MaxClaims
           /\ tx[t].kind \in Kind
           /\ tx[t].pc \in StatementsOf(tx[t].kind)
BY DEF IndInv, TypeOK, AttemptsAreNumbered, Good, Transaction, InOrder

LEMMA Rows ==
    /\ EditionRow = 0 /\ EditionRow \in Row
    /\ CacheRow = MaxClaims + 1 /\ CacheRow \in Row
    /\ Build \subseteq Row
    /\ EditionRow \notin Build /\ CacheRow \notin Build /\ EditionRow # CacheRow
BY ClaimsAssumption DEF EditionRow, CacheRow, Row, Build

\* An idle connection satisfies everything.
LEMMA IdleGood ==
    ASSUME TypeOK
    PROVE  Good(NoTx)
BY ClaimsAssumption
   DEF TypeOK, Good, NoTx, Opened, Transaction, Kind, PC, InOrder, StatementsOf,
       LocksInOrder, AttemptIsAsTested, EditionIsAsTested, ReadIsAsRevised, Retired

\* A lock is shared only by cache writes, which share it both ways.
LEMMA ConflictsBothWays ==
    ASSUME NEW x, NEW y, NEW r \in x.locks, Conflicts(y, x, r), r \in y.locks
    PROVE  Conflicts(x, y, r)
BY DEF Conflicts

-----------------------------------------------------------------------------
(* Steps that write no row.                                                 *)

\* Only t's transaction changes; what it locks, it locks alone.
LEMMA OwnStep ==
    ASSUME IndInv, UNCHANGED rows,
           NEW t \in Tx, NEW x, tx' = [tx EXCEPT ![t] = x],
           Good(x),
           \A u \in Tx \ {t} : \A r \in x.locks : ~Conflicts(x, tx[u], r)
    PROVE  IndInv'
<1>1. /\ tx' \in [Tx -> Transaction] /\ tx'[t] = x
      /\ \A u \in Tx \ {t} : tx'[u] = tx[u]
  BY DEF IndInv, TypeOK, Good
<1>2. TypeOK'
  BY <1>1 DEF IndInv, TypeOK, rows
<1>3. LocksExclude'
  <2> SUFFICES ASSUME NEW u \in Tx, NEW v \in Tx, u # v, NEW r \in tx'[u].locks
               PROVE  ~Conflicts(tx'[u], tx'[v], r)
    BY DEF LocksExclude, Conflicts, Shares
  <2>1. CASE u # t /\ v # t
    BY <1>1, <2>1 DEF IndInv, LocksExclude
  <2>2. CASE u = t
    BY <1>1, <2>2
  <2>3. CASE v = t
    BY <1>1, <2>3, ConflictsBothWays DEF Conflicts
  <2> QED
    BY <2>1, <2>2, <2>3
<1>4. AttemptsAreNumbered'
  BY <1>1 DEF IndInv, AttemptsAreNumbered, Good, rows
<1>5. BuildingIsCurrent'
  BY DEF IndInv, BuildingIsCurrent, rows
<1>6. ASSUME NEW u \in Tx
      PROVE  InOrder(tx'[u])
  BY <1>1 DEF IndInv, Good
<1>7. ASSUME NEW u \in Tx
      PROVE  InOrder(tx[u])'
  BY <1>6 DEF rows, InOrder, StatementsOf, LocksInOrder, LocksOf, AttemptIsAsTested,
              EditionIsAsTested, ReadIsAsRevised, Retired
<1> QED
  BY <1>2, <1>3, <1>4, <1>5, <1>7 DEF IndInv

\* The next statement, with the locks as they are.
LEMMA GotoStep ==
    ASSUME IndInv, UNCHANGED rows, NEW t \in Tx, NEW pc, Goto(t, pc), Good(At(tx[t], pc))
    PROVE  IndInv'
<1>1. tx' = [tx EXCEPT ![t] = At(tx[t], pc)]
  BY DEF Goto, At
<1>2. \A u \in Tx \ {t} : \A r \in At(tx[t], pc).locks : ~Conflicts(At(tx[t], pc), tx[u], r)
  <2>1. /\ At(tx[t], pc).locks = tx[t].locks
        /\ At(tx[t], pc).kind = tx[t].kind
    BY Facts DEF At, Good, Transaction
  <2> QED
    BY <2>1 DEF IndInv, LocksExclude, Conflicts, Shares
<1> QED
  BY <1>1, <1>2, OwnStep

\* The next statement, with a row locked that was free.
LEMMA LockStep ==
    ASSUME IndInv, UNCHANGED rows, NEW t \in Tx, NEW r, NEW pc,
           Free(t, r), Lock(t, r, pc), Good(Locked(tx[t], r, pc))
    PROVE  IndInv'
<1> DEFINE x == Locked(tx[t], r, pc)
<1>1. tx' = [tx EXCEPT ![t] = x]
  BY DEF Lock, Locked
<1>2. x.locks = tx[t].locks \cup {r} /\ x.kind = tx[t].kind
  BY Facts DEF Locked, Good, Transaction
<1>3. \A u \in Tx \ {t} : \A s \in x.locks : ~Conflicts(x, tx[u], s)
  BY <1>2 DEF IndInv, LocksExclude, Conflicts, Shares, Free
<1> QED
  BY <1>1, <1>3, OwnStep

\* The connection is idle again.
LEMMA CloseStep ==
    ASSUME IndInv, UNCHANGED rows, NEW t \in Tx, Close(t)
    PROVE  IndInv'
<1>1. NoTx.locks = {}
  BY DEF NoTx, Opened
<1> QED
  BY <1>1, IdleGood, OwnStep DEF Close, IndInv

\* A transaction that is opened has locked nothing.
LEMMA OpenStep ==
    ASSUME IndInv, NEW t \in Tx, NEW x, Open(t, x), Good(x), x.locks = {}
    PROVE  IndInv'
BY OwnStep DEF Open

LEMMA OpenSomeStep ==
    ASSUME IndInv, NEW t \in Tx, OpenSome(t)
    PROVE  IndInv'
<1> USE DEF Good, Opened, Transaction, Kind, PC, InOrder, StatementsOf, LocksInOrder,
            AttemptIsAsTested, EditionIsAsTested, ReadIsAsRevised, Retired
<1>1. claims \in 0..MaxClaims /\ published \in 0..MaxClaims /\ published <= claims
  BY DEF IndInv, TypeOK, AttemptsAreNumbered
<1>2. CASE OpenClaim(t)
  <2> DEFINE x == Opened("claim", IF edition THEN "edition" ELSE "ensure", 0, {}, {}, 0)
  <2>1. Good(x) /\ x.locks = {}
    BY <1>1, ClaimsAssumption
  <2> HIDE DEF x
  <2>2. Open(t, x)
    BY <1>2 DEF OpenClaim, OpenClaiming, AfterEnsure, x
  <2> QED
    BY <2>1, <2>2, OpenStep
<1>3. ASSUME NEW b \in 1..claims, OpenReclaim(t, b)
      PROVE  IndInv'
  <2> DEFINE x == Opened("reclaim", "attempt", b, {}, {}, 0)
  <2>1. Good(x) /\ x.locks = {}
    BY <1>1, ClaimsAssumption
  <2>2. edition
    BY <1>1 DEF IndInv, AttemptsAreNumbered
  <2> HIDE DEF x
  <2>3. Open(t, x)
    BY <1>3, <2>2 DEF OpenReclaim, OpenClaiming, AfterEnsure, x
  <2> QED
    BY <2>1, <2>3, OpenStep
<1>4. ASSUME NEW b \in 1..claims, NEW kind \in {"beat", "put", "finalize", "fail"},
             Open(t, Opened(kind, "attempt", b, {}, {}, 0))
      PROVE  IndInv'
  <2> DEFINE x == Opened(kind, "attempt", b, {}, {}, 0)
  <2>1. Good(x) /\ x.locks = {}
    BY <1>1, ClaimsAssumption
  <2> QED
    BY <1>4, <2>1, OpenStep
<1>5. ASSUME NEW v \in Visual, OpenRegenerate(t, v)
      PROVE  IndInv'
  <2> DEFINE x == Opened("regenerate", "edition", published, {v}, content, revision)
  <2>1. Good(x) /\ x.locks = {}
    BY <1>1, <1>5, ClaimsAssumption DEF OpenRegenerate, IndInv, TypeOK
  <2> HIDE DEF x
  <2>2. Open(t, x)
    BY <1>5 DEF OpenRegenerate, x
  <2> QED
    BY <2>1, <2>2, OpenStep
<1> QED
  BY <1>2, <1>3, <1>4, <1>5 DEF OpenSome, OpenBeat, OpenWrite

-----------------------------------------------------------------------------
(* The statements before the commit.                                        *)

LEMMA EnsureStep ==
    ASSUME IndInv, NEW t \in Tx, InsertEdition(t) \/ FindEdition(t)
    PROVE  IndInv'
<1>1. /\ tx[t].kind = "claim" /\ AfterEnsure(tx[t].kind) = "edition" /\ tx[t].locks = {}
      /\ tx[t] \in Transaction
  BY Facts DEF InsertEdition, FindEdition, StatementsOf, Kind, AfterEnsure, Good, InOrder,
               LocksInOrder
<1>2. CASE InsertEdition(t)
  <2> DEFINE x == Locked(tx[t], EditionRow, "edition")
  <2>1. x \in Transaction /\ x.locks = {EditionRow} /\ x.kind = "claim" /\ x.pc = "edition"
    BY <1>1, Rows DEF Locked, Transaction, PC
  <2>2. Good(x)
    BY <1>1, <2>1, Facts, Rows
       DEF Locked, Good, Transaction, InOrder, StatementsOf, LocksInOrder, LocksOf,
           AttemptIsAsTested, EditionIsAsTested, ReadIsAsRevised, Retired
  <2> QED
    BY <1>1, <1>2, <2>2, LockStep DEF InsertEdition
<1>3. CASE FindEdition(t)
  <2> DEFINE x == At(tx[t], "edition")
  <2>1. x \in Transaction /\ x.locks = {} /\ x.kind = "claim" /\ x.pc = "edition"
    BY <1>1 DEF At, Transaction, PC
  <2>2. Good(x)
    BY <1>1, <2>1, Facts
       DEF At, Good, Transaction, InOrder, StatementsOf, LocksInOrder, LocksOf,
           AttemptIsAsTested, EditionIsAsTested, ReadIsAsRevised, Retired
  <2> QED
    BY <1>1, <1>3, <2>2, GotoStep DEF FindEdition
<1> QED
  BY <1>2, <1>3

LEMMA LockAttemptStep ==
    ASSUME IndInv, NEW t \in Tx, LockAttempt(t)
    PROVE  IndInv'
<1> DEFINE b == tx[t].build
           pc == AfterAttempt(tx[t])
           x == Locked(tx[t], b, pc)
<1>1. /\ tx[t].kind \in {"reclaim", "put", "finalize", "fail"}
      /\ tx[t].locks = {} /\ b \in Build
      /\ tx[t].kind \in {"reclaim", "put"} => status[b] = "BUILDING"
  BY Facts DEF LockAttempt, AttemptWhere, Good, InOrder, LocksInOrder, Build, StatementsOf, Kind
<1>2. x \in Transaction /\ x.locks = {b}
  BY <1>1, Facts, Rows DEF Locked, AfterAttempt, Good, Transaction, PC
<1>3. Good(x)
  BY <1>1, <1>2, Facts, Rows
     DEF Locked, AfterAttempt, Good, Transaction, InOrder, StatementsOf, LocksInOrder,
         LocksOf, AttemptIsAsTested, EditionIsAsTested, ReadIsAsRevised, Retired
<1> QED
  BY <1>3, LockStep DEF LockAttempt

LEMMA MissAttemptStep ==
    ASSUME IndInv, NEW t \in Tx, MissAttempt(t)
    PROVE  IndInv'
<1>1. CASE tx[t].kind = "reclaim"
  <2>1. tx[t].locks = {}
    BY Facts DEF MissAttempt, Good, InOrder, LocksInOrder
  <2>2. Good(At(tx[t], "edition"))
    BY <1>1, <2>1, Facts
       DEF At, Good, Transaction, Kind, PC, InOrder, StatementsOf, LocksInOrder,
           AttemptIsAsTested, EditionIsAsTested, ReadIsAsRevised, Retired
  <2> QED
    BY <1>1, <2>2, GotoStep DEF MissAttempt
<1> QED
  BY <1>1, CloseStep DEF MissAttempt

\* A heartbeat of the attempt makes it too young for every reclaim under way.
LEMMA BeatStep ==
    ASSUME IndInv, NEW t \in Tx, Beat(t)
    PROVE  IndInv'
<1>1. ASSUME NEW u \in Tx, u # t
      PROVE  /\ tx'[u] \in Transaction
             /\ tx'[u] = [tx[u] EXCEPT !.old = FALSE] \/ tx'[u] = tx[u]
  BY <1>1, Facts DEF Beat, Transaction, Good
<1>2. tx'[t] = NoTx /\ Good(NoTx) /\ NoTx.locks = {}
  BY IdleGood DEF Beat, IndInv, NoTx, Opened
<1>3. tx' \in [Tx -> Transaction]
  BY <1>1, <1>2 DEF Beat, Good
<1>4. \A u \in Tx \ {t} :
        /\ tx'[u].kind = tx[u].kind /\ tx'[u].pc = tx[u].pc
        /\ tx'[u].build = tx[u].build /\ tx'[u].visual = tx[u].visual
        /\ tx'[u].read = tx[u].read /\ tx'[u].revision = tx[u].revision
        /\ tx'[u].locks = tx[u].locks
  BY <1>1, Facts DEF Transaction
<1>5. UNCHANGED rows
  BY DEF Beat
<1>6. TypeOK' /\ BuildingIsCurrent'
  BY <1>3, <1>5 DEF IndInv, TypeOK, BuildingIsCurrent, rows
<1>7. AttemptsAreNumbered'
  BY <1>2, <1>4, <1>5 DEF IndInv, AttemptsAreNumbered, Good, rows
<1>8. LocksExclude'
  BY <1>2, <1>4 DEF IndInv, LocksExclude, Conflicts, Shares
<1>9. ASSUME NEW u \in Tx
      PROVE  InOrder(tx[u])'
  <2>1. CASE u = t
    BY <1>2, <1>5, <2>1
       DEF rows, Good, InOrder, StatementsOf, LocksInOrder, LocksOf, AttemptIsAsTested,
           EditionIsAsTested, ReadIsAsRevised, Retired
  <2>2. CASE u # t
    <3>1. InOrder(tx[u])
      BY DEF IndInv
    <3> QED
      BY <1>4, <1>5, <2>2, <3>1
         DEF rows, InOrder, StatementsOf, LocksInOrder, LocksOf, AttemptIsAsTested,
             EditionIsAsTested, ReadIsAsRevised, Retired
  <2> QED
    BY <2>1, <2>2
<1> QED
  BY <1>6, <1>7, <1>8, <1>9 DEF IndInv

LEMMA EditionStep ==
    ASSUME IndInv, NEW t \in Tx, LockEdition(t) \/ MissEdition(t)
    PROVE  IndInv'
<1>1. CASE LockEdition(t)
  <2> DEFINE x == Locked(tx[t], EditionRow, AfterEdition(tx[t]))
  <2>1. tx[t].pc = "edition" /\ EditionWhere(tx[t])
    BY <1>1 DEF LockEdition
  <2>2. x \in Transaction /\ x.locks = tx[t].locks \cup {EditionRow}
    BY Facts, Rows DEF Locked, AfterEdition, Good, Transaction, PC
  <2>3. Good(x)
    BY <2>1, <2>2, Facts, Rows
       DEF Locked, AfterEdition, EditionWhere, Good, Transaction, Kind, InOrder, StatementsOf,
           LocksInOrder, LocksOf, AttemptIsAsTested, EditionIsAsTested, ReadIsAsRevised, Retired
  <2> QED
    BY <1>1, <2>3, LockStep DEF LockEdition
<1> QED
  BY <1>1, CloseStep DEF MissEdition

LEMMA CacheStep ==
    ASSUME IndInv, NEW t \in Tx, LockCache(t)
    PROVE  IndInv'
<1> DEFINE x == Locked(tx[t], CacheRow, AfterCache(tx[t]))
<1>1. tx[t].pc = "cache"
  BY DEF LockCache
<1>2. x \in Transaction /\ x.locks = tx[t].locks \cup {CacheRow}
  BY Facts, Rows DEF Locked, AfterCache, Good, Transaction, PC
<1>3. Good(x)
  BY <1>1, <1>2, Facts, Rows
     DEF Locked, AfterCache, Good, Transaction, Kind, InOrder, StatementsOf,
         LocksInOrder, LocksOf, AttemptIsAsTested, EditionIsAsTested, ReadIsAsRevised, Retired
<1> QED
  BY <1>3, LockStep DEF LockCache

LEMMA OtherStep ==
    ASSUME IndInv, NEW t \in Tx, LockOther(t)
    PROVE  IndInv'
<1>1. PICK o \in Others(tx[t]) : Free(t, o) /\ Lock(t, o, "others")
  BY DEF LockOther
<1> DEFINE x == Locked(tx[t], o, "others")
<1>2. tx[t].pc = "others" /\ tx[t].kind = "finalize"
  BY Facts DEF LockOther, StatementsOf, Kind
<1>3. x \in Transaction /\ x.locks = tx[t].locks \cup {o}
  BY Facts, Rows DEF Locked, Good, Transaction, PC, Others
<1>4. Good(x)
  BY <1>2, <1>3, Facts, Rows
     DEF Locked, Good, Transaction, Kind, InOrder, StatementsOf, LocksInOrder, LocksOf,
         AttemptIsAsTested, EditionIsAsTested, ReadIsAsRevised, Retired
<1> QED
  BY <1>1, <1>4, LockStep DEF LockOther

-----------------------------------------------------------------------------
(* Commits.                                                                 *)

\* Who has locked the edition row has locked it alone.
LEMMA EditionAlone ==
    ASSUME IndInv, NEW t \in Tx, NEW u \in Tx, t # u, EditionRow \in tx[t].locks
    PROVE  EditionRow \notin tx[u].locks
<1>1. tx[t].kind # "put"
  BY Facts, Rows DEF Good, InOrder, LocksInOrder, LocksOf, EditionRow
<1> QED
  BY <1>1 DEF IndInv, LocksExclude, Conflicts, Shares

\* So has who has locked an attempt for more than a cache write.
LEMMA AttemptAlone ==
    ASSUME IndInv, NEW t \in Tx, NEW u \in Tx, t # u, NEW r \in tx[t].locks,
           tx[t].kind # "put"
    PROVE  r \notin tx[u].locks
BY DEF IndInv, LocksExclude, Conflicts, Shares

\* A transaction past the edition's UPDATE has what it tested.
LEMMA PastEdition ==
    ASSUME IndInv, NEW t \in Tx, tx[t].pc \in {"cache", "others", "commit"},
           tx[t].kind # "put"
    PROVE  /\ EditionRow \in tx[t].locks
           /\ tx[t].kind = "claim" => current = 0
           /\ tx[t].kind = "reclaim" =>
                 current = 0 \/ (Retired(tx[t]) /\ current = tx[t].build)
           /\ tx[t].kind \in {"finalize", "fail"} => current = tx[t].build
           /\ tx[t].kind = "regenerate" =>
                 /\ published = tx[t].build /\ revision = tx[t].revision
                 /\ current = 0
BY Facts DEF Good, InOrder, EditionIsAsTested

\* A commit changes only what its transaction has locked, and an attempt nobody
\* knows yet: what the others tested is as they tested it.
LEMMA CommitStep ==
    ASSUME IndInv, NEW t \in Tx, Close(t),
           edition' \in BOOLEAN, claims' \in 0..MaxClaims, current' \in 0..claims',
           published' \in 0..claims', revision' \in Nat, content' \in SUBSET Visual,
           status' \in [Build -> Status], cached' \in 0..MaxClaims,
           claims <= claims', ~edition' => claims' = 0,
           \A b \in Build : b > claims' => status'[b] = "NONE",
           BuildingIsCurrent',
           EditionRow \in tx[t].locks \/ UNCHANGED <<current, published, revision, content>>,
           \A b \in Build : b <= claims /\ status'[b] # status[b] =>
              b \in tx[t].locks /\ tx[t].kind # "put",
           revision' > revision \/ UNCHANGED <<revision, content>>
    PROVE  IndInv'
<1>0. claims \in 0..MaxClaims /\ MaxClaims \in Nat /\ claims' \in Nat /\ revision \in Nat
  BY ClaimsAssumption DEF IndInv, TypeOK
<1>1. /\ tx' \in [Tx -> Transaction] /\ tx'[t] = NoTx
      /\ \A u \in Tx \ {t} : tx'[u] = tx[u]
  BY IdleGood DEF IndInv, TypeOK, Good, Close
<1>2. TypeOK'
  BY <1>0, <1>1 DEF TypeOK
<1>3. NoTx.locks = {} /\ NoTx.build = 0 /\ NoTx.kind = "claim" /\ NoTx.pc = "idle"
  BY DEF NoTx, Opened
<1>4. LocksExclude'
  BY <1>1, <1>3 DEF IndInv, LocksExclude, Conflicts, Shares
<1>5. AttemptsAreNumbered'
  <2>1. ASSUME NEW u \in Tx
        PROVE  tx'[u].build <= claims' /\ (tx'[u].build = 0 <=> tx'[u].kind = "claim")
    <3>1. CASE u = t
      BY <1>0, <1>1, <1>3, <3>1
    <3>2. CASE u # t
      BY <1>0, <1>1, <3>2, Facts DEF Good
    <3> QED
      BY <3>1, <3>2
  <2> QED
    BY <1>0, <2>1 DEF AttemptsAreNumbered
<1>6. ASSUME NEW u \in Tx
      PROVE  InOrder(tx[u])'
  <2>1. CASE u = t
    BY <1>1, <1>3, <2>1
       DEF InOrder, StatementsOf, LocksInOrder, LocksOf, AttemptIsAsTested, EditionIsAsTested,
           ReadIsAsRevised, Retired
  <2>2. CASE u # t
    <3> DEFINE x == tx[u]
    <3>1. Good(x) /\ tx'[u] = x
      BY <1>1, <2>2, Facts
    <3>2. EditionIsAsTested(tx[u])'
      <4>1. CASE EditionRow \in tx[t].locks
        BY <2>2, <3>1, <4>1, EditionAlone DEF Good, InOrder, EditionIsAsTested
      <4>2. CASE UNCHANGED <<current, published, revision, content>>
        BY <3>1, <4>2 DEF Good, InOrder, EditionIsAsTested, Retired
      <4> QED
        BY <4>1, <4>2
    <3>3. AttemptIsAsTested(tx[u])'
      <4>1. x.build \in Build /\ x.build \in x.locks => status'[x.build] = status[x.build]
        BY <1>0, <2>2, <3>1, AttemptAlone DEF Good
      <4>2. x.build # 0 => x.build \in Build
        BY <3>1, <1>0 DEF Good, Transaction, Build
      <4> QED
        BY <3>1, <4>1, <4>2 DEF Good, InOrder, AttemptIsAsTested, Retired
    <3>4. ReadIsAsRevised(tx[u])'
      <4>1. x.revision \in Nat
        BY <3>1 DEF Good, Transaction
      <4> QED
        BY <1>0, <3>1, <4>1 DEF Good, InOrder, ReadIsAsRevised
    <3> QED
      BY <3>1, <3>2, <3>3, <3>4
         DEF Good, InOrder, StatementsOf, LocksInOrder, LocksOf
  <2> QED
    BY <2>1, <2>2
<1> QED
  BY <1>2, <1>4, <1>5, <1>6 DEF IndInv

\* The claims and attempts as the invariant has them.
LEMMA CommittedRows ==
    ASSUME IndInv
    PROVE  /\ MaxClaims \in Nat /\ edition \in BOOLEAN /\ claims \in 0..MaxClaims
           /\ current \in 0..claims /\ published \in 0..claims
           /\ revision \in Nat /\ content \in SUBSET Visual
           /\ status \in [Build -> Status] /\ cached \in 0..MaxClaims
           /\ ~edition => claims = 0
           /\ \A b \in Build : b > claims => status[b] = "NONE"
BY ClaimsAssumption DEF IndInv, TypeOK, AttemptsAreNumbered

LEMMA CommitClaimStep ==
    ASSUME IndInv, NEW t \in Tx, CommitClaim(t)
    PROVE  IndInv'
<1> DEFINE b == claims + 1
<1>1. /\ tx[t].kind \in {"claim", "reclaim"} /\ tx[t].pc = "commit"
      /\ claims < MaxClaims /\ edition' = TRUE /\ claims' = b /\ current' = b
      /\ UNCHANGED <<published, revision, content, cached>> /\ Close(t)
  BY DEF CommitClaim, Committing
<1>2. status' = [o \in Build |->
                     IF o = b THEN "BUILDING"
                     ELSE IF Retired(tx[t]) /\ o = tx[t].build THEN "SUPERSEDED"
                     ELSE status[o]]
  BY DEF CommitClaim
<1>3. EditionRow \in tx[t].locks /\ (current = 0 \/ (Retired(tx[t]) /\ current = tx[t].build))
  BY <1>1, PastEdition
<1>4. b \in Build /\ tx[t].build \in Nat /\ tx[t].build <= claims
  BY <1>1, CommittedRows, Facts DEF Build, Good
<1>5. status' \in [Build -> Status]
  BY <1>2, CommittedRows DEF Status, Finished
<1>6. BuildingIsCurrent'
  <2> SUFFICES ASSUME NEW o \in Build PROVE status'[o] = "BUILDING" <=> current' = o
    BY DEF BuildingIsCurrent
  <2>1. o # 0 /\ (status[o] = "BUILDING" <=> current = o)
    BY CommittedRows DEF Build, IndInv, BuildingIsCurrent
  <2> QED
    BY <1>1, <1>2, <1>3, <2>1
<1>7. \A o \in Build : o <= claims /\ status'[o] # status[o] =>
         o \in tx[t].locks /\ tx[t].kind # "put"
  BY <1>1, <1>2, CommittedRows DEF Retired
<1>8. \A o \in Build : o > claims' => status'[o] = "NONE"
  BY <1>1, <1>2, <1>4, CommittedRows DEF Build
<1> QED
  BY <1>1, <1>3, <1>5, <1>6, <1>7, <1>8, CommittedRows, CommitStep

LEMMA CommitPutStep ==
    ASSUME IndInv, NEW t \in Tx, CommitPut(t)
    PROVE  IndInv'
<1>1. BuildingIsCurrent'
  BY DEF CommitPut, IndInv, BuildingIsCurrent
<1> QED
  BY <1>1, Facts, CommittedRows, CommitStep DEF CommitPut

LEMMA CommitFinalizeStep ==
    ASSUME IndInv, NEW t \in Tx, CommitFinalize(t)
    PROVE  IndInv'
<1> DEFINE b == tx[t].build
<1>1. /\ tx[t].pc = "others" /\ tx[t].kind = "finalize"
      /\ published' = b /\ current' = 0 /\ content' = {} /\ revision' = revision + 1
      /\ UNCHANGED <<edition, claims, cached>> /\ Close(t)
  BY Facts DEF CommitFinalize, StatementsOf, Kind
<1>2. status' = [o \in Build |->
                     IF o = b THEN "SUCCEEDED"
                     ELSE IF o \in tx[t].locks THEN "NONE"
                     ELSE status[o]]
  BY DEF CommitFinalize
<1>3. EditionRow \in tx[t].locks /\ current = b /\ b \in tx[t].locks
  BY <1>1, PastEdition, Facts DEF Good, InOrder, AttemptIsAsTested
<1>4. status' \in [Build -> Status]
  BY <1>2, CommittedRows DEF Status, Finished
<1>5. BuildingIsCurrent'
  <2> SUFFICES ASSUME NEW o \in Build PROVE status'[o] = "BUILDING" <=> current' = o
    BY DEF BuildingIsCurrent
  <2>1. o # 0 /\ (status[o] = "BUILDING" <=> current = o)
    BY CommittedRows DEF Build, IndInv, BuildingIsCurrent
  <2> QED
    BY <1>1, <1>2, <1>3, <2>1
<1>6. \A o \in Build : o <= claims /\ status'[o] # status[o] =>
         o \in tx[t].locks /\ tx[t].kind # "put"
  BY <1>1, <1>2, <1>3
<1>7. \A o \in Build : o > claims' => status'[o] = "NONE"
  BY <1>1, <1>2, <1>3, CommittedRows DEF Build
<1> QED
  BY <1>1, <1>3, <1>4, <1>5, <1>6, <1>7, CommittedRows, CommitStep

LEMMA CommitFailStep ==
    ASSUME IndInv, NEW t \in Tx, CommitFail(t)
    PROVE  IndInv'
<1> DEFINE b == tx[t].build
<1>1. /\ tx[t].pc = "commit" /\ tx[t].kind = "fail" /\ current' = 0
      /\ status' = [status EXCEPT ![b] = "FAILED"]
      /\ UNCHANGED <<edition, claims, published, revision, content, cached>> /\ Close(t)
  BY DEF CommitFail, Committing
<1>2. EditionRow \in tx[t].locks /\ current = b /\ b \in tx[t].locks
  BY <1>1, PastEdition, Facts DEF Good, InOrder, AttemptIsAsTested
<1>3. status' \in [Build -> Status]
  BY <1>1, CommittedRows DEF Status, Finished
<1>4. BuildingIsCurrent'
  <2> SUFFICES ASSUME NEW o \in Build PROVE status'[o] = "BUILDING" <=> current' = o
    BY DEF BuildingIsCurrent
  <2>1. o # 0 /\ (status[o] = "BUILDING" <=> current = o)
    BY CommittedRows DEF Build, IndInv, BuildingIsCurrent
  <2> QED
    BY <1>1, <1>2, <2>1, CommittedRows
<1>5. \A o \in Build : o <= claims /\ status'[o] # status[o] =>
         o \in tx[t].locks /\ tx[t].kind # "put"
  BY <1>1, <1>2, CommittedRows
<1>6. \A o \in Build : o > claims' => status'[o] = "NONE"
  BY <1>1, <1>2, CommittedRows DEF Build
<1> QED
  BY <1>1, <1>2, <1>3, <1>4, <1>5, <1>6, CommittedRows, CommitStep

LEMMA CommitRegenerateStep ==
    ASSUME IndInv, NEW t \in Tx, CommitRegenerate(t)
    PROVE  IndInv'
<1>1. /\ tx[t].pc = "commit" /\ tx[t].kind = "regenerate"
      /\ content' = tx[t].read \cup tx[t].visual /\ revision' = revision + 1 /\ cached' = 0
      /\ UNCHANGED <<edition, claims, current, published, status>> /\ Close(t)
  BY DEF CommitRegenerate, Committing
<1>2. content' \in SUBSET Visual
  BY <1>1, Facts DEF Good, Transaction
<1>3. EditionRow \in tx[t].locks
  BY <1>1, PastEdition
<1>4. BuildingIsCurrent'
  BY <1>1 DEF IndInv, BuildingIsCurrent
<1> QED
  BY <1>1, <1>2, <1>3, <1>4, CommittedRows, CommitStep

-----------------------------------------------------------------------------
(***************************************************************************)
(* Every reachable state satisfies the inductive invariant, however many   *)
(* connections, attempts and visuals there are: the locks exclude, and     *)
(* what a transaction's WHERE found is still so when it commits.           *)
(***************************************************************************)
LEMMA InitInv ==
    ASSUME Init
    PROVE  IndInv
<1>0. NoTx \in Transaction
  BY ClaimsAssumption DEF NoTx, Opened, Transaction, Kind, PC, Row
<1>1. TypeOK
  <2>1. edition \in BOOLEAN
    BY DEF Init
  <2>2. status \in [Build -> Status] /\ tx \in [Tx -> Transaction]
    BY <1>0 DEF Init, Status
  <2>3. 0 \in 0..MaxClaims /\ 0 \in Nat
    BY ClaimsAssumption
  <2> QED
    BY <2>1, <2>2, <2>3 DEF Init, TypeOK
<1>2. \A t \in Tx : tx[t] = NoTx /\ Good(NoTx) /\ NoTx.locks = {}
  BY <1>1, IdleGood DEF Init, NoTx, Opened
<1>3. AttemptsAreNumbered
  BY <1>2, ClaimsAssumption DEF Init, AttemptsAreNumbered, Good
<1>4. BuildingIsCurrent
  BY ClaimsAssumption DEF Init, BuildingIsCurrent, Build
<1>5. LocksExclude
  BY <1>2 DEF LocksExclude
<1> QED
  BY <1>1, <1>2, <1>3, <1>4, <1>5 DEF IndInv, Good

LEMMA StepInv ==
    ASSUME IndInv, [Next]_vars
    PROVE  IndInv'
<1>1. ASSUME NEW t \in Tx, Step(t)
      PROVE  IndInv'
  <2>1. CASE OpenSome(t)
    BY <2>1, OpenSomeStep
  <2>2. CASE InsertEdition(t) \/ FindEdition(t)
    BY <2>2, EnsureStep
  <2>3. CASE LockAttempt(t)
    BY <2>3, LockAttemptStep
  <2>4. CASE Beat(t)
    BY <2>4, BeatStep
  <2>5. CASE MissAttempt(t)
    BY <2>5, MissAttemptStep
  <2>6. CASE LockEdition(t) \/ MissEdition(t)
    BY <2>6, EditionStep
  <2>7. CASE LockCache(t)
    BY <2>7, CacheStep
  <2>8. CASE LockOther(t)
    BY <2>8, OtherStep
  <2>9. CASE CommitClaim(t)
    BY <2>9, CommitClaimStep
  <2>10. CASE CommitPut(t)
    BY <2>10, CommitPutStep
  <2>11. CASE CommitFinalize(t)
    BY <2>11, CommitFinalizeStep
  <2>12. CASE CommitFail(t)
    BY <2>12, CommitFailStep
  <2>13. CASE CommitRegenerate(t)
    BY <2>13, CommitRegenerateStep
  <2>14. CASE Rollback(t)
    BY <2>14, CloseStep DEF Rollback
  <2> QED
    BY <1>1, <2>1, <2>2, <2>3, <2>4, <2>5, <2>6, <2>7, <2>8, <2>9, <2>10, <2>11, <2>12,
       <2>13, <2>14 DEF Step
<1>2. CASE UNCHANGED vars
  <2> USE <1>2 DEF vars, rows
  <2>1. TypeOK' /\ AttemptsAreNumbered' /\ BuildingIsCurrent'
    BY DEF IndInv, TypeOK, AttemptsAreNumbered, BuildingIsCurrent
  <2>2. LocksExclude'
    BY DEF IndInv, LocksExclude, Conflicts, Shares
  <2>3. ASSUME NEW t \in Tx
        PROVE  InOrder(tx[t])'
    <3>1. InOrder(tx[t])
      BY DEF IndInv
    <3> QED
      BY <3>1
         DEF InOrder, StatementsOf, LocksInOrder, LocksOf, AttemptIsAsTested,
             EditionIsAsTested, ReadIsAsRevised, Retired
  <2> QED
    BY <2>1, <2>2, <2>3 DEF IndInv
<1> QED
  BY <1>1, <1>2 DEF Next

(***************************************************************************)
(* Every reachable state satisfies the inductive invariant: the            *)
(* transactions of glossy-editions.ts take their locks in order, and what  *)
(* they have tested under them stays so.                                   *)
(***************************************************************************)
THEOREM InvHolds == Spec => []IndInv
<1>1. Init => IndInv
  BY InitInv
<1>2. IndInv /\ [Next]_vars => IndInv'
  BY StepInv
<1> QED
  BY <1>1, <1>2, PTL DEF Spec
-----------------------------------------------------------------------------
(***************************************************************************)
(* The error that finalize and fail throw for a broken invariant is never  *)
(* thrown: the edition row they hold says that their attempt is the        *)
(* holder, so its row is BUILDING.                                         *)
(***************************************************************************)
LEMMA InvNeverBroken ==
    ASSUME IndInv
    PROVE  NeverBroken
<1> SUFFICES ASSUME NEW t \in Tx, tx[t].kind \in {"finalize", "fail"},
                    EditionRow \in tx[t].locks
             PROVE  status[tx[t].build] = "BUILDING" /\ current = tx[t].build
  BY DEF NeverBroken
<1>1. tx[t].pc \in {"cache", "others", "commit"}
  BY Facts DEF Good, InOrder, StatementsOf, LocksInOrder
<1>2. current = tx[t].build
  BY <1>1, PastEdition
<1>3. tx[t].build \in Build
  BY ClaimsAssumption, Facts DEF Good, Build
<1> QED
  BY <1>2, <1>3 DEF IndInv, BuildingIsCurrent

(***************************************************************************)
(* The errors finalize and fail throw for a broken invariant (glossy-      *)
(* editions.ts) are never thrown, whatever the transactions beside them.   *)
(***************************************************************************)
THEOREM NeverBrokenHolds == Spec => []NeverBroken
<1>1. IndInv => NeverBroken
  BY InvNeverBroken
<1> QED
  BY <1>1, InvHolds, PTL

(***************************************************************************)
(* A cache write of an attempt commits only while the attempt holds the    *)
(* edition: the attempt's row it locked FOR SHARE is still BUILDING.       *)
(***************************************************************************)
LEMMA StepCacheWritten ==
    ASSUME IndInv, Next, cached' # cached, cached' # 0
    PROVE  current = cached'
<1>1. PICK t \in Tx : Step(t)
  BY DEF Next
<1>2. CommitPut(t)
  BY <1>1
     DEF Step, OpenSome, OpenClaim, OpenReclaim, OpenClaiming, OpenBeat, OpenWrite,
         OpenRegenerate, Open, InsertEdition, FindEdition, LockAttempt, Beat, MissAttempt,
         LockEdition, MissEdition, LockCache, LockOther, CommitClaim, CommitFinalize,
         CommitFail, CommitRegenerate, Rollback, rows
<1>3. cached' = tx[t].build /\ tx[t].kind = "put" /\ tx[t].pc = "commit"
  BY <1>2 DEF CommitPut, Committing
<1>4. status[tx[t].build] = "BUILDING" /\ tx[t].build \in Build
  BY <1>3, ClaimsAssumption, Facts DEF Good, InOrder, AttemptIsAsTested, Build
<1> QED
  BY <1>3, <1>4 DEF IndInv, BuildingIsCurrent

(***************************************************************************)
(* A cache write commits only while its attempt still holds the edition,   *)
(* although it tests that one statement earlier.                           *)
(***************************************************************************)
THEOREM CacheWrittenWhileHeldHolds == Spec => CacheWrittenWhileHeld
<1>1. IndInv /\ [Next]_vars => [cached' # cached /\ cached' # 0 => current = cached']_vars
  BY StepCacheWritten
<1> QED
  BY <1>1, InvHolds, PTL DEF Spec, CacheWrittenWhileHeld

-----------------------------------------------------------------------------
(***************************************************************************)
(* No circle of transactions that wait for each other's rows can form.     *)
(* Were there one, each of its transactions would wait for another of it.  *)
(* None is at its commit, which wants no row.  None is at the deletes of a *)
(* finalize: it holds the edition row, so who has locked a finished        *)
(* attempt is before the edition's UPDATE, which it then misses.  So none  *)
(* is at the cache row, whose holders are past it; none at the edition     *)
(* row; and none before that, where no row has been locked.                *)
(***************************************************************************)
Circle(circle) == \A t \in circle : \E u \in circle \ {t} : WaitsFor(t, u)

LEMMA WaitsForLocked ==
    ASSUME IndInv, NEW t \in Tx, NEW u \in Tx, WaitsFor(t, u)
    PROVE  /\ \E r \in Wants(tx[t]) : r \in tx[u].locks
           /\ tx[t].pc \in {"ensure", "attempt", "edition", "cache", "others"}
           /\ tx[u].pc \in {"edition", "cache", "others", "commit"}
<1>1. PICK r \in Wants(tx[t]) : r \in tx[u].locks
  BY DEF WaitsFor, Conflicts
<1>2. tx[t].pc \in PC /\ tx[u].pc \in PC
  BY Facts DEF Good, Transaction
<1>3. tx[t].pc \in {"ensure", "attempt", "edition", "cache", "others"}
  BY <1>1, <1>2 DEF Wants, PC
<1>4. tx[u].pc \notin {"idle", "ensure", "attempt"}
  BY <1>1, Facts DEF Good, InOrder, LocksInOrder
<1> QED
  BY <1>1, <1>2, <1>3, <1>4 DEF PC

\* An attempt that is finished, and locked while a finalize holds the edition,
\* is locked by a transaction that will miss the edition.
LEMMA OthersMiss ==
    ASSUME IndInv, NEW t \in Tx, NEW u \in Tx, t # u,
           tx[t].pc = "others", NEW o \in Others(tx[t]), o \in tx[u].locks
    PROVE  tx[u].pc = "edition" /\ ~EditionWhere(tx[u])
<1>1. /\ tx[t].kind = "finalize" /\ EditionRow \in tx[t].locks
      /\ current = tx[t].build /\ current \in Build
  <2>1. tx[t].kind = "finalize"
    BY Facts DEF StatementsOf, Kind
  <2> QED
    BY <2>1, PastEdition, Facts, ClaimsAssumption DEF Good, Build
<1>2. o \in Build /\ status[o] \in Finished /\ status[o] # "BUILDING"
  BY DEF Others, Finished
<1>3. EditionRow \notin tx[u].locks
  BY <1>1, EditionAlone
<1>4. tx[u].pc \notin {"idle", "ensure", "attempt"}
  BY Facts DEF Good, InOrder, LocksInOrder
<1>5. o # EditionRow /\ o # CacheRow
  BY <1>2, Rows
<1>6. CASE tx[u].kind = "put"
  <2>1. o = tx[u].build /\ tx[u].pc \in {"cache", "commit"}
    BY <1>4, <1>5, <1>6, Facts DEF Good, InOrder, LocksInOrder, LocksOf, StatementsOf
  <2> QED
    BY <1>2, <1>6, <2>1, Facts DEF Good, InOrder, AttemptIsAsTested
<1>7. CASE tx[u].kind # "put"
  <2>1. tx[u].pc = "edition"
    BY <1>3, <1>4, <1>7, PastEdition, Facts DEF Good, Transaction, PC
  <2>2. o = tx[u].build /\ tx[u].kind \in {"reclaim", "finalize", "fail"}
    BY <1>5, <1>7, <2>1, Facts DEF Good, InOrder, LocksInOrder, LocksOf, Kind
  <2>3. current # o /\ current # 0
    BY <1>1, <1>2, Rows DEF IndInv, BuildingIsCurrent, EditionRow
  <2> QED
    BY <2>1, <2>2, <2>3 DEF EditionWhere
<1> QED
  BY <1>6, <1>7

LEMMA NoCircle ==
    ASSUME IndInv, NEW circle \in SUBSET Tx, Circle(circle), NEW t0 \in circle
    PROVE  FALSE
<1>1. ASSUME NEW t \in circle
      PROVE  tx[t].pc \in {"ensure", "attempt", "edition", "cache", "others"}
  BY WaitsForLocked DEF Circle
<1>2. ASSUME NEW t \in circle
      PROVE  tx[t].pc # "others"
  <2> SUFFICES ASSUME tx[t].pc = "others" PROVE FALSE
    OBVIOUS
  <2>1. PICK u \in circle \ {t} : WaitsFor(t, u)
    BY DEF Circle
  <2>2. PICK o \in Others(tx[t]) : o \in tx[u].locks
    BY <2>1, WaitsForLocked DEF Wants
  <2>3. Wants(tx[u]) = {}
    BY <2>2, OthersMiss DEF Wants
  <2> QED
    BY <2>3 DEF Circle, WaitsFor
<1>3. ASSUME NEW t \in circle
      PROVE  tx[t].pc # "cache"
  <2> SUFFICES ASSUME tx[t].pc = "cache" PROVE FALSE
    OBVIOUS
  <2>1. PICK u \in circle \ {t} : WaitsFor(t, u)
    BY DEF Circle
  <2>2. CacheRow \in tx[u].locks
    BY <2>1, WaitsForLocked DEF Wants
  <2> QED
    BY <1>1, <1>2, <2>2, Facts DEF Good, InOrder, LocksInOrder
<1>4. ASSUME NEW t \in circle
      PROVE  tx[t].pc # "edition"
  <2> SUFFICES ASSUME tx[t].pc = "edition" PROVE FALSE
    OBVIOUS
  <2>1. PICK u \in circle \ {t} : WaitsFor(t, u)
    BY DEF Circle
  <2>2. EditionRow \in tx[u].locks
    BY <2>1, WaitsForLocked DEF Wants
  <2>3. tx[u].pc = "edition"
    BY <1>1, <1>2, <1>3, <2>1, WaitsForLocked
  <2>4. PICK v \in circle \ {u} : WaitsFor(u, v)
    BY <2>1 DEF Circle
  <2>5. EditionRow \in tx[v].locks
    BY <2>3, <2>4, WaitsForLocked DEF Wants
  <2> QED
    BY <2>2, <2>5, EditionAlone
<1>5. PICK u \in circle \ {t0} : WaitsFor(t0, u)
  BY DEF Circle
<1>6. tx[u].pc \in {"edition", "cache", "others", "commit"}
  BY <1>5, WaitsForLocked
<1> QED
  BY <1>1, <1>2, <1>3, <1>4, <1>6

(***************************************************************************)
(* The transactions of the edition, which lock its rows in several orders, *)
(* cannot wait for each other in a circle.                                 *)
(***************************************************************************)
THEOREM NoDeadlockHolds == Spec => []NoDeadlock
<1>1. IndInv => NoDeadlock
  BY NoCircle DEF NoDeadlock, Circle
<1> QED
  BY <1>1, InvHolds, PTL

-----------------------------------------------------------------------------
(***************************************************************************)
(* The transactions implement GlossyPublication: of their statements only  *)
(* the commits of a claim, a finalize, a fail and a regeneration change    *)
(* what it describes, each by its one step.                                *)
(***************************************************************************)
pubvars == <<claims, current, published, content>>

LEMMA StepPublication ==
    ASSUME IndInv, [Next]_vars
    PROVE  [Publication!Next]_pubvars
<1> USE DEF pubvars
<1>1. CASE UNCHANGED vars
  BY <1>1 DEF vars, rows
<1>2. ASSUME NEW t \in Tx, Step(t)
      PROVE  [Publication!Next]_pubvars
  <2>1. CASE CommitClaim(t)
    BY <2>1 DEF CommitClaim, Publication!Next, Publication!Claim
  <2>2. CASE CommitFinalize(t)
    <3>1. /\ tx[t].pc = "others" /\ tx[t].kind = "finalize"
          /\ tx[t].build # 0
      BY <2>2, Facts DEF CommitFinalize, StatementsOf, Kind, Good
    <3>2. current = tx[t].build
      BY <3>1, PastEdition
    <3> QED
      BY <2>2, <3>1, <3>2 DEF CommitFinalize, Publication!Next, Publication!Publish
  <2>3. CASE CommitFail(t)
    <3>1. /\ tx[t].pc = "commit" /\ tx[t].kind = "fail"
          /\ tx[t].build # 0
      BY <2>3, Facts DEF CommitFail, Committing, Good
    <3>2. current = tx[t].build
      BY <3>1, PastEdition
    <3> QED
      BY <2>3, <3>1, <3>2 DEF CommitFail, Publication!Next, Publication!Release
  <2>4. CASE CommitRegenerate(t)
    <3>1. tx[t].pc = "commit" /\ tx[t].kind = "regenerate" /\ tx[t].build # 0
      BY <2>4, Facts DEF CommitRegenerate, Committing, Good
    <3>2. published = tx[t].build /\ revision = tx[t].revision /\ current = 0
      BY <3>1, PastEdition
    <3>3. PICK v \in Visual : tx[t].visual = {v}
      BY <3>1, Facts DEF Good, InOrder, ReadIsAsRevised
    <3>4. tx[t].read = content
      BY <3>1, <3>2, Facts DEF Good, InOrder, ReadIsAsRevised
    <3> QED
      BY <2>4, <3>1, <3>2, <3>3, <3>4
         DEF CommitRegenerate, Publication!Next, Publication!Regenerate
  <2>5. CASE ~(CommitClaim(t) \/ CommitFinalize(t) \/ CommitFail(t) \/ CommitRegenerate(t))
    BY <1>2, <2>5
       DEF Step, OpenSome, OpenClaim, OpenReclaim, OpenClaiming, OpenBeat, OpenWrite,
           OpenRegenerate, Open, InsertEdition, FindEdition, LockAttempt, Beat, MissAttempt,
           LockEdition, MissEdition, LockCache, LockOther, CommitPut, Rollback, rows
  <2> QED
    BY <2>1, <2>2, <2>3, <2>4, <2>5
<1> QED
  BY <1>1, <1>2 DEF Next

(***************************************************************************)
(* Seen at their commits, the transactions are those of GlossyPublication: *)
(* one holder at a time, and only the holder publishes.                    *)
(***************************************************************************)
THEOREM ImplementsPublication == Spec => PublicationSpec
<1>1. Init => Publication!Init
  BY DEF Init, Publication!Init
<1>2. IndInv /\ [Next]_vars => [Publication!Next]_pubvars
  BY StepPublication
<1> QED
  BY <1>1, <1>2, InvHolds, PTL
     DEF Spec, PublicationSpec, Publication!Spec, pubvars
=============================================================================
