------------------------- MODULE CommitStatus_proofs -------------------------
(***************************************************************************)
(* Proofs about CommitStatus, for every set of runs and of receipts from   *)
(* elsewhere, whatever goes while the question is asked: a pass that is    *)
(* current was concluded with, unless its run was unknown when it was      *)
(* judged, and a pass that is answered hides no failure.                   *)
(***************************************************************************)
EXTENDS CommitStatus, FiniteSetTheorems, WellFoundedInduction, TLAPS

RunRecord ==
    [state : {"none", "running", "written", "completed"}, at : 0 .. MaxTime,
     written : 0 .. MaxReceipts, receipt : 0 .. MaxReceipts,
     kept : {"kept", "pruned", "unknown"}]

Judged == [of : Receipts, passed : BOOLEAN, recorded : BOOLEAN, at : 1 .. MaxTime]

AskRecord ==
    [pc : {"idle", "runs", "evidence", "kept", "answer"}, looked : SUBSET Runs,
     held : SUBSET Runs, gone : SUBSET Runs, seen : SUBSET Receipts,
     current : SUBSET Judged, failed : SUBSET Runs, unknown : SUBSET Receipts]

StatusTypeOK ==
    /\ run \in [Runs -> RunRecord]
    /\ passes \in [Receipts -> BOOLEAN]
    /\ time \in [Receipts -> 0 .. MaxTime]
    /\ worktree \subseteq Receipts
    /\ evidence \subseteq Receipts
    /\ ask \in AskRecord

\* A receipt that was written, with the time at which its run was asked for;
\* what it says never changes.
Written(x) ==
    /\ time[x] \in 1 .. MaxTime
    /\ x \in RunReceipts => x[2] <= run[x[1]].written /\ time[x] = run[x[1]].at

RunFits(r) ==
    /\ run[r].state # "none" => run[r].at \in 1 .. MaxTime
    /\ run[r].state \in {"none", "running"} => run[r].receipt = 0
    /\ run[r].state = "none" => run[r] = NoRun
    /\ run[r].state = "written" => run[r].written # 0 /\ run[r].receipt = 0
    /\ Concluded(r) => run[r].state = "completed"
    /\ run[r].receipt <= run[r].written
    /\ \A i \in 1 .. run[r].written : Written(<<r, i>>)

\* What was judged of a receipt holds of it from then on.
ResultFits(result) ==
    LET x == result.of
    IN /\ Written(x) /\ result.passed = passes[x] /\ result.at = time[x]
       /\ result.recorded => x \in RunReceipts /\ Concludes(x[1]) = x

\* What is current was seen; its run had concluded with it, or was not known.
CurrentFits(result) ==
    /\ result.of \in ask.seen
    /\ result.recorded \/ result.of \in Brought \cup ask.unknown

\* A receipt from elsewhere is judged as soon as it is seen.
BroughtSeen ==
    \A x \in ask.seen \cap Brought :
        [of |-> x, passed |-> passes[x], recorded |-> FALSE, at |-> time[x]] \in ask.current

\* A failed run that is kept: its receipt is judged once it was seen, and seen
\* in the run itself, at the latest.
FailureSeen(r) ==
    r \in ask.failed /\ run[r].kept = "kept" =>
        /\ Failed(r)
        /\ r \in ask.looked => r \in ask.held
        /\ ~GoesWhileJudged /\ Concludes(r) \in ask.seen =>
             [of |-> Concludes(r), passed |-> FALSE, recorded |-> TRUE, at |-> run[r].at]
                \in ask.current
        /\ ask.pc = "answer" => Concludes(r) \in ask.seen

AskFits ==
    /\ ask.pc = "idle" => ask = NotAsked
    /\ ask.pc \notin {"idle", "runs"} => ask.looked = Runs
    /\ \A result \in ask.current : ResultFits(result) /\ CurrentFits(result)
    /\ ~GoesWhileJudged => BroughtSeen
    /\ \A r \in ask.failed : run[r].state # "none"
    /\ \A r \in ask.held : Concluded(r)
    /\ ask.gone \subseteq ask.held
    /\ \A r \in Runs : FailureSeen(r)

StatusInv ==
    /\ StatusTypeOK
    /\ \A r \in Runs : RunFits(r)
    /\ \A x \in worktree \cup evidence \cup ask.seen : Written(x)
    /\ AskFits

-----------------------------------------------------------------------------
\* Receipts of runs and those from elsewhere are told apart.
LEMMA ReceiptKinds ==
    /\ Receipts = RunReceipts \cup Brought
    /\ RunReceipts \cap Brought = {}
    /\ \A x \in RunReceipts : x[1] \in Runs /\ x[2] \in 1 .. MaxReceipts /\ x = <<x[1], x[2]>>
    /\ \A r \in Runs, i \in 1 .. MaxReceipts :
         <<r, i>> \in RunReceipts /\ <<r, i>>[1] = r /\ <<r, i>>[2] = i
    /\ MaxTime \in Nat \ {0} /\ MaxReceipts \in Nat \ {0}
  BY StatusAssumption DEF StatusAssumption, Receipts, RunReceipts, Brought

LEMMA StatusInit == Init => StatusInv
<1> SUFFICES ASSUME Init PROVE StatusInv
  OBVIOUS
<1>1. StatusTypeOK
  <2>1. NoRun \in RunRecord
    BY ReceiptKinds DEF NoRun, RunRecord
  <2>2. NotAsked \in AskRecord
    BY DEF NotAsked, AskRecord
  <2>3. 0 \in 0 .. MaxTime
    BY ReceiptKinds
  <2>4. QED
    BY <2>1, <2>2, <2>3 DEF Init, StatusTypeOK
<1>2. \A r \in Runs : RunFits(r)
  BY DEF Init, NoRun, RunFits, Concluded
<1>3. AskFits
  BY DEF Init, NotAsked, AskFits, BroughtSeen, FailureSeen
<1>4. worktree \cup evidence \cup ask.seen = {}
  BY DEF Init, NotAsked
<1>5. QED
  BY <1>1, <1>2, <1>3, <1>4 DEF StatusInv

-----------------------------------------------------------------------------
(***************************************************************************)
(* The runs.  What a step adds to them takes back nothing that was seen.   *)
(***************************************************************************)
RunsGrow ==
    /\ \A x \in Receipts : Written(x) =>
         Written(x)' /\ passes'[x] = passes[x] /\ time'[x] = time[x]
    /\ \A r \in Runs : run[r].state # "none" =>
         /\ run'[r].state # "none" /\ run'[r].at = run[r].at
         /\ Concluded(r) => run'[r].receipt = run[r].receipt
         /\ run'[r].kept = "kept" => run[r].kept = "kept"

\* A run that has a written receipt was asked for.
LEMMA WrittenWasAsked ==
    ASSUME StatusInv, NEW x \in RunReceipts, Written(x)
    PROVE  x[1] \in Runs /\ run[x[1]].state # "none"
<1>1. x[1] \in Runs /\ x[2] \in 1 .. MaxReceipts /\ x[2] <= run[x[1]].written
  BY ReceiptKinds DEF Written
<1>2. QED
  BY <1>1 DEF StatusInv, RunFits, NoRun

LEMMA ResultStays ==
    ASSUME StatusInv, RunsGrow, NEW result \in ask.current
    PROVE  ResultFits(result)'
<1> DEFINE x == result.of
<1>1. ResultFits(result) /\ x \in Receipts
  BY DEF StatusInv, AskFits, StatusTypeOK, AskRecord, Judged
<1>2. Written(x) /\ Written(x)' /\ passes'[x] = passes[x] /\ time'[x] = time[x]
  BY <1>1 DEF ResultFits, RunsGrow
<1>3. CASE x \in Brought
  <2>1. x \notin RunReceipts
    BY <1>3, ReceiptKinds
  <2>2. QED
    BY <1>1, <1>2, <1>3, <2>1 DEF ResultFits
<1>4. CASE x \in RunReceipts
  <2>1. x[1] \in Runs /\ run[x[1]].state # "none"
    BY <1>2, <1>4, WrittenWasAsked
  <2>2. Concludes(x[1]) = x => Concluded(x[1])
    BY <1>4, <2>1, ReceiptKinds DEF Concludes, Concluded
  <2>3. QED
    BY <1>1, <1>2, <2>1, <2>2 DEF ResultFits, RunsGrow, Concludes
<1>5. QED
  BY <1>1, <1>3, <1>4, ReceiptKinds

LEMMA FailureStays ==
    ASSUME StatusInv, RunsGrow, UNCHANGED ask, NEW r \in Runs
    PROVE  FailureSeen(r)'
<1> SUFFICES ASSUME r \in ask.failed, run'[r].kept = "kept"
             PROVE  FailureSeen(r)'
  BY DEF FailureSeen
<1>1. run[r].state # "none" /\ run[r].kept = "kept"
  BY DEF StatusInv, AskFits, RunsGrow
<1>2. FailureSeen(r) /\ Failed(r)
  BY <1>1 DEF StatusInv, AskFits, FailureSeen
<1>3. run'[r].receipt = run[r].receipt /\ run'[r].at = run[r].at /\ Concludes(r)' = Concludes(r)
  BY <1>1, <1>2 DEF Failed, RunsGrow, Concludes
<1>4. Concludes(r) \in Receipts /\ Written(Concludes(r))
  <2>1. run[r].receipt \in 1 .. run[r].written
    BY <1>2 DEF StatusInv, RunFits, Failed, Concluded, StatusTypeOK, RunRecord
  <2>2. run[r].receipt \in 1 .. MaxReceipts
    BY <2>1, ReceiptKinds DEF StatusInv, StatusTypeOK, RunRecord
  <2>3. QED
    BY <2>1, <2>2, ReceiptKinds DEF StatusInv, RunFits, Concludes
<1>5. Failed(r)'
  BY <1>2, <1>3, <1>4 DEF Failed, Concluded, RunsGrow
<1>6. QED
  BY <1>1, <1>2, <1>3, <1>5 DEF FailureSeen

\* A step of the runs and of what goes of them.
LEMMA RunsNext ==
    ASSUME StatusInv, RunsGrow, UNCHANGED ask, StatusTypeOK',
           \A r \in Runs : RunFits(r)',
           \A x \in worktree' \cup evidence' : Written(x)'
    PROVE  StatusInv'
<1>1. \A x \in ask.seen : Written(x)'
  BY DEF StatusInv, StatusTypeOK, AskRecord, RunsGrow
<1>2. \A result \in ask.current : ResultFits(result)'
  BY ResultStays
<1>3. ~GoesWhileJudged => BroughtSeen'
  <2> SUFFICES ASSUME ~GoesWhileJudged, NEW x \in ask.seen \cap Brought
               PROVE  [of |-> x, passed |-> passes'[x], recorded |-> FALSE, at |-> time'[x]]
                         \in ask.current
    BY DEF BroughtSeen
  <2>1. Written(x) /\ x \in Receipts
    BY DEF StatusInv, Receipts
  <2>2. passes'[x] = passes[x] /\ time'[x] = time[x]
    BY <2>1 DEF RunsGrow
  <2>3. QED
    BY <2>2 DEF StatusInv, AskFits, BroughtSeen
<1>4. \A r \in ask.failed : run'[r].state # "none"
  BY DEF StatusInv, AskFits, RunsGrow, StatusTypeOK, AskRecord
<1>5. \A r \in ask.held : Concluded(r)'
  <2> TAKE r \in ask.held
  <2>1. r \in Runs /\ Concluded(r)
    BY DEF StatusInv, AskFits, StatusTypeOK, AskRecord
  <2>2. run[r].state # "none"
    BY <2>1 DEF StatusInv, RunFits, Concluded
  <2>3. QED
    BY <2>1, <2>2 DEF RunsGrow, Concluded
<1>6. AskFits'
  BY <1>2, <1>3, <1>4, <1>5, FailureStays DEF StatusInv, AskFits, CurrentFits
<1>7. QED
  BY <1>1, <1>6 DEF StatusInv

\* A step of one run's journal alone.
LEMMA JournalGoesOn ==
    ASSUME StatusInv, NEW r \in Runs, NEW n \in RunRecord, run' = [run EXCEPT ![r] = n],
           UNCHANGED <<passes, time, worktree, evidence, ask>>,
           n.written = run[r].written,
           n.state # "none" /\ n.at \in 1 .. MaxTime,
           run[r].state # "none" => n.at = run[r].at,
           n.state = "running" => n.receipt = 0,
           n.state = "written" => n.written # 0 /\ n.receipt = 0,
           n.receipt # 0 => n.state = "completed",
           n.receipt <= n.written,
           Concluded(r) => n.receipt = run[r].receipt,
           run[r].state # "none" /\ n.kept = "kept" => run[r].kept = "kept"
    PROVE  StatusInv'
<1>1. run'[r] = n /\ \A q \in Runs : q # r => run'[q] = run[q]
  BY DEF StatusInv, StatusTypeOK
<1>2. \A x \in Receipts : Written(x) => Written(x)'
  <2> TAKE x \in Receipts
  <2>1. ASSUME x \in RunReceipts, Written(x) PROVE Written(x)'
    <3>1. x[1] \in Runs /\ run[x[1]].state # "none"
      BY <2>1, WrittenWasAsked
    <3>2. QED
      BY <1>1, <2>1, <3>1 DEF Written
  <2>2. QED
    BY <2>1 DEF Written
<1>3. RunsGrow
  BY <1>1, <1>2 DEF RunsGrow, Concluded
<1>4. StatusTypeOK'
  BY DEF StatusInv, StatusTypeOK
<1>5. ASSUME NEW q \in Runs PROVE RunFits(q)'
  <2>1. \A i \in 1 .. run'[q].written : Written(<<q, i>>)'
    <3> SUFFICES ASSUME NEW i \in 1 .. run'[q].written PROVE Written(<<q, i>>)'
      OBVIOUS
    <3>1. run'[q].written = run[q].written /\ run[q].written \in 0 .. MaxReceipts
      BY <1>1 DEF StatusInv, StatusTypeOK, RunRecord
    <3>2. Written(<<q, i>>) /\ <<q, i>> \in Receipts
      BY <3>1, ReceiptKinds DEF StatusInv, RunFits
    <3>3. QED
      BY <1>2, <3>2
  <2>2. CASE q = r
    BY <1>1, <2>1, <2>2 DEF RunFits, Concluded
  <2>3. CASE q # r
    BY <1>1, <2>1, <2>3 DEF StatusInv, RunFits, Concluded
  <2>4. QED
    BY <2>2, <2>3
<1>6. \A x \in worktree' \cup evidence' : Written(x)'
  BY <1>2 DEF StatusInv, StatusTypeOK
<1>7. QED
  BY <1>3, <1>4, <1>5, <1>6, RunsNext

LEMMA AskedNext ==
    ASSUME StatusInv, NEW r \in Runs, Asked(r) PROVE StatusInv'
<1>1. PICK t \in 1 .. MaxTime :
        run' = [run EXCEPT ![r] = [NoRun EXCEPT !.state = "running", !.at = t, !.kept = "kept"]]
  BY DEF Asked
<1> DEFINE n == [NoRun EXCEPT !.state = "running", !.at = t, !.kept = "kept"]
<1>2. /\ n \in RunRecord /\ n.state = "running" /\ n.at = t /\ n.written = 0 /\ n.receipt = 0
  <2>1. t \in 0 .. MaxTime /\ 0 \in 0 .. MaxReceipts
    BY ReceiptKinds
  <2>2. /\ n \in [state : {"running"}, at : {t}, written : {0}, receipt : {0}, kept : {"kept"}]
    BY DEF NoRun
  <2>3. QED
    BY <2>1, <2>2 DEF RunRecord
<1>3. run[r].state = "none" /\ run[r].written = 0 /\ ~Concluded(r)
  BY DEF Asked, StatusInv, RunFits, Concluded, NoRun
<1> HIDE DEF n
<1>4. n.receipt <= n.written
  BY <1>2
<1>5. QED
  BY <1>1, <1>2, <1>3, <1>4, JournalGoesOn DEF Asked, n

LEMMA ConcludeNext ==
    ASSUME StatusInv, NEW r \in Runs, Conclude(r) PROVE StatusInv'
<1> DEFINE n == [run[r] EXCEPT !.state = "completed", !.receipt = run[r].written]
<1>1. run[r] \in RunRecord /\ run' = [run EXCEPT ![r] = n]
  BY DEF Conclude, StatusInv, StatusTypeOK
<1>2. /\ n \in RunRecord /\ n.state = "completed" /\ n.at = run[r].at /\ n.kept = run[r].kept
      /\ n.written = run[r].written /\ n.receipt = run[r].written
  BY <1>1 DEF RunRecord
<1>3. /\ run[r].state = "written" /\ run[r].kept = "kept" /\ ~Concluded(r)
      /\ run[r].at \in 1 .. MaxTime /\ run[r].written \in Nat
  BY <1>1 DEF Conclude, StatusInv, RunFits, Concluded, RunRecord
<1> HIDE DEF n
<1>4. /\ UNCHANGED <<passes, time, worktree, evidence, ask>>
      /\ n.receipt <= n.written /\ n.written # 0
      /\ n.kept = "kept"
  BY <1>2, <1>3 DEF Conclude, StatusInv, RunFits
<1>5. QED
  BY <1>1, <1>2, <1>3, <1>4, JournalGoesOn

\* A run goes: moved aside, noted, or its note evicted.
LEMMA PruneNext ==
    ASSUME StatusInv, NEW r \in Runs, MoveAside(r) \/ Note(r) \/ Forget(r) PROVE StatusInv'
<1>1. PICK k \in {"pruned", "unknown"} : run' = [run EXCEPT ![r].kept = k]
  BY DEF MoveAside, Note, Forget
<1> DEFINE n == [run[r] EXCEPT !.kept = k]
<1>2. run[r] \in RunRecord /\ run' = [run EXCEPT ![r] = n]
  BY <1>1 DEF StatusInv, StatusTypeOK
<1>3. /\ n \in RunRecord /\ n.state = run[r].state /\ n.at = run[r].at /\ n.kept = k
      /\ n.written = run[r].written /\ n.receipt = run[r].receipt
  BY <1>2 DEF RunRecord
<1>4. run[r].state # "none"
  BY DEF MoveAside, Note, Forget, StatusInv, RunFits, NoRun
<1>5. /\ run[r].state = "running" => run[r].receipt = 0
      /\ run[r].state = "written" => run[r].written # 0 /\ run[r].receipt = 0
      /\ run[r].receipt # 0 => run[r].state = "completed"
      /\ run[r].receipt <= run[r].written /\ run[r].at \in 1 .. MaxTime
  BY <1>4 DEF StatusInv, RunFits, Concluded
<1> HIDE DEF n
<1>6. /\ UNCHANGED <<passes, time, worktree, evidence, ask>>
      /\ n.kept # "kept" /\ n.receipt <= n.written
      /\ Concluded(r) => n.receipt = run[r].receipt
  BY <1>1, <1>3, <1>5 DEF MoveAside, Note, Forget
<1>7. QED
  BY <1>2, <1>3, <1>4, <1>5, <1>6, JournalGoesOn

\* A new receipt of a run is the next it writes, and no other has its name.
LEMMA WriteReceiptNext ==
    ASSUME StatusInv, NEW r \in Runs, WriteReceipt(r) PROVE StatusInv'
<1>1. /\ run[r] \in RunRecord /\ run[r].written \in Nat /\ run[r].written < MaxReceipts
      /\ run[r].state \in {"running", "written"} /\ run[r].kept = "kept"
      /\ run[r].at \in 0 .. MaxTime /\ run[r].at \in 1 .. MaxTime /\ run[r].receipt = 0
  BY DEF WriteReceipt, StatusInv, StatusTypeOK, RunRecord, RunFits
<1>2. PICK i : i = run[r].written + 1
  OBVIOUS
<1>3. i \in 0 .. MaxReceipts /\ i \in 1 .. MaxReceipts /\ i <= i /\ i - 1 = run[r].written
  BY <1>1, <1>2, ReceiptKinds
<1> DEFINE x == <<r, i>>
           n == [run[r] EXCEPT !.state = "written", !.written = i]
<1>4. PICK p \in BOOLEAN : passes' = [passes EXCEPT ![x] = p]
  BY <1>2 DEF WriteReceipt
<1>5. /\ run' = [run EXCEPT ![r] = n]
      /\ UNCHANGED <<evidence, ask>>
      /\ worktree' = worktree \cup {x}
      /\ time' = [time EXCEPT ![x] = run[r].at]
  BY <1>2 DEF WriteReceipt, StatusInv, StatusTypeOK
<1>6. /\ n \in RunRecord /\ n.state = "written" /\ n.at = run[r].at /\ n.kept = run[r].kept
      /\ n.written = i /\ n.receipt = 0
  BY <1>1, <1>3 DEF RunRecord
<1>7. x \in RunReceipts /\ x \in Receipts /\ x[1] = r /\ x[2] = i
  BY <1>3, ReceiptKinds
<1> HIDE DEF x, n
<1>8. /\ run'[r] = n /\ \A q \in Runs : q # r => run'[q] = run[q]
      /\ time'[x] = run[r].at /\ \A y \in Receipts : y # x => time'[y] = time[y]
      /\ \A y \in Receipts : y # x => passes'[y] = passes[y]
  BY <1>4, <1>5, <1>7 DEF StatusInv, StatusTypeOK
<1>9. ~Written(x) /\ Written(x)'
  BY <1>1, <1>3, <1>6, <1>7, <1>8 DEF Written
<1>10. ASSUME NEW y \in Receipts, Written(y)
       PROVE  Written(y)' /\ passes'[y] = passes[y] /\ time'[y] = time[y]
  <2>1. y # x
    BY <1>9, <1>10
  <2>2. CASE y \in RunReceipts
    <3>1. y[1] \in Runs /\ run[y[1]].written \in Nat /\ y[2] \in Nat
      BY <2>2, ReceiptKinds DEF StatusInv, StatusTypeOK, RunRecord
    <3>2. run'[y[1]].written >= run[y[1]].written /\ run'[y[1]].at = run[y[1]].at
      BY <1>2, <1>6, <1>8, <3>1
    <3>3. run'[y[1]].written \in Nat
      BY <1>3, <1>6, <1>8, <3>1
    <3>4. QED
      BY <1>8, <1>10, <2>1, <2>2, <3>1, <3>2, <3>3 DEF Written
  <2>3. CASE y \notin RunReceipts
    BY <1>8, <1>10, <2>1, <2>3 DEF Written
  <2>4. QED
    BY <2>2, <2>3
<1>11. RunsGrow
  BY <1>1, <1>6, <1>8, <1>10 DEF RunsGrow, Concluded
<1>12. StatusTypeOK'
  <2>1. time' \in [Receipts -> 0 .. MaxTime] /\ passes' \in [Receipts -> BOOLEAN]
    BY <1>1, <1>4, <1>5 DEF StatusInv, StatusTypeOK
  <2>2. run' \in [Runs -> RunRecord] /\ worktree' \subseteq Receipts
    BY <1>5, <1>6, <1>7 DEF StatusInv, StatusTypeOK
  <2>3. QED
    BY <1>5, <2>1, <2>2 DEF StatusInv, StatusTypeOK
<1>13. ASSUME NEW q \in Runs PROVE RunFits(q)'
  <2>1. ASSUME NEW j \in 1 .. run'[q].written PROVE Written(<<q, j>>)'
    <3>1. CASE <<q, j>> = x
      BY <1>9, <3>1
    <3>2. CASE <<q, j>> # x
      <4>1. CASE q = r
        BY <1>2, <1>3, <1>6, <1>8, <2>1, <3>2, <4>1, ReceiptKinds, <1>10, <1>1
        DEF x, StatusInv, RunFits
      <4>2. CASE q # r
        <5>1. run'[q] = run[q] /\ run[q].written \in 0 .. MaxReceipts
          BY <1>8, <4>2 DEF StatusInv, StatusTypeOK, RunRecord
        <5>2. Written(<<q, j>>) /\ <<q, j>> \in Receipts
          BY <2>1, <5>1, ReceiptKinds DEF StatusInv, RunFits
        <5>3. QED
          BY <1>10, <5>2
      <4>3. QED
        BY <4>1, <4>2
    <3>3. QED
      BY <3>1, <3>2
  <2>2. CASE q = r
    <3>1. i # 0 /\ 0 <= i
      BY <1>3
    <3>2. QED
      BY <1>1, <1>6, <1>8, <2>1, <2>2, <3>1 DEF RunFits, Concluded
  <2>3. CASE q # r
    BY <1>8, <2>1, <2>3 DEF StatusInv, RunFits, Concluded
  <2>4. QED
    BY <2>2, <2>3
<1>14. \A y \in worktree' \cup evidence' : Written(y)'
  BY <1>5, <1>9, <1>10 DEF StatusInv, StatusTypeOK
<1>15. QED
  BY <1>5, <1>11, <1>12, <1>13, <1>14, RunsNext

\* Receipts go, and are kept by pushes.
LEMMA ReceiptsGo ==
    ASSUME StatusInv, UNCHANGED <<run, passes, time, ask>>,
           worktree' \cup evidence' \subseteq worktree \cup evidence
    PROVE  StatusInv'
<1>1. RunsGrow
  BY DEF RunsGrow, Written
<1>2. StatusTypeOK'
  BY DEF StatusInv, StatusTypeOK
<1>3. \A r \in Runs : RunFits(r)'
  BY DEF StatusInv, RunFits, Concluded, Written
<1>4. \A x \in worktree' \cup evidence' : Written(x)'
  BY DEF StatusInv, Written
<1>5. QED
  BY <1>1, <1>2, <1>3, <1>4, RunsNext

\* A receipt that is brought is new.
LEMMA BringNext ==
    ASSUME StatusInv, NEW x \in Brought, Bring(x) PROVE StatusInv'
<1>1. PICK p \in BOOLEAN, t \in 1 .. MaxTime :
        passes' = [passes EXCEPT ![x] = p] /\ time' = [time EXCEPT ![x] = t]
  BY DEF Bring
<1>2. /\ UNCHANGED <<run, evidence, ask>> /\ worktree' = worktree \cup {x} /\ ~Written(x)
      /\ x \in Receipts /\ x \notin RunReceipts
  BY ReceiptKinds DEF Bring, Written
<1>3. /\ time'[x] = t /\ \A y \in Receipts : y # x => time'[y] = time[y]
      /\ \A y \in Receipts : y # x => passes'[y] = passes[y]
  BY <1>1, <1>2 DEF StatusInv, StatusTypeOK
<1>4. \A y \in Receipts : Written(y) =>
         Written(y)' /\ passes'[y] = passes[y] /\ time'[y] = time[y]
  BY <1>2, <1>3 DEF Written
<1>5. RunsGrow
  BY <1>2, <1>4 DEF RunsGrow
<1>6. Written(x)'
  BY <1>2, <1>3 DEF Written
<1>7. StatusTypeOK'
  <2>1. t \in 0 .. MaxTime
    BY ReceiptKinds
  <2>2. QED
    BY <1>1, <1>2, <2>1 DEF StatusInv, StatusTypeOK
<1>8. ASSUME NEW r \in Runs PROVE RunFits(r)'
  <2>1. \A i \in 1 .. run[r].written : <<r, i>> \in Receipts
    BY ReceiptKinds DEF StatusInv, StatusTypeOK, RunRecord
  <2>2. QED
    BY <1>2, <1>4, <2>1 DEF StatusInv, RunFits, Concluded
<1>9. \A y \in worktree' \cup evidence' : Written(y)'
  BY <1>2, <1>4, <1>6 DEF StatusInv, StatusTypeOK
<1>10. QED
  BY <1>2, <1>5, <1>7, <1>8, <1>9, RunsNext

-----------------------------------------------------------------------------
(***************************************************************************)
(* The question.  The runs stand still while it takes a look.              *)
(***************************************************************************)
LEMMA AskMoves ==
    ASSUME StatusInv, UNCHANGED <<run, passes, time>>,
           worktree' \subseteq worktree, evidence' \subseteq evidence,
           ask' \in AskRecord, \A x \in ask'.seen : Written(x),
           ask'.pc = "idle" => ask' = NotAsked,
           ask'.pc \notin {"idle", "runs"} => ask'.looked = Runs,
           \A result \in ask'.current : ResultFits(result) /\ CurrentFits(result)',
           ~GoesWhileJudged => BroughtSeen',
           \A r \in ask'.failed : run[r].state # "none",
           \A r \in ask'.held : Concluded(r), ask'.gone \subseteq ask'.held,
           \A r \in Runs : FailureSeen(r)'
    PROVE  StatusInv'
<1>1. StatusTypeOK'
  BY DEF StatusInv, StatusTypeOK
<1>2. \A r \in Runs : RunFits(r)'
  BY DEF StatusInv, RunFits, Concluded, Written
<1>3. \A x \in worktree' \cup evidence' \cup ask'.seen : Written(x)'
  BY DEF StatusInv, Written
<1>4. \A result \in ask'.current : ResultFits(result)'
  BY DEF ResultFits, Written, Concludes
<1>5. AskFits'
  BY <1>4 DEF AskFits, NotAsked, Concluded
<1>6. QED
  BY <1>1, <1>2, <1>3, <1>5 DEF StatusInv

\* A failed run has a receipt that was written, and failed.
LEMMA FailedReceipt ==
    ASSUME StatusInv, NEW r \in Runs, Failed(r)
    PROVE  /\ run[r].state # "none"
           /\ Concludes(r) \in RunReceipts /\ Concludes(r) \in Receipts
           /\ Concludes(r)[1] = r
           /\ Written(Concludes(r)) /\ time[Concludes(r)] = run[r].at
           /\ passes[Concludes(r)] = FALSE
<1>1. run[r].receipt \in 1 .. run[r].written /\ run[r].receipt \in 1 .. MaxReceipts
  BY ReceiptKinds DEF StatusInv, RunFits, Failed, Concluded, StatusTypeOK, RunRecord
<1>2. /\ Concludes(r) \in RunReceipts /\ Concludes(r) \in Receipts /\ Concludes(r)[1] = r
      /\ Written(Concludes(r))
  BY <1>1, ReceiptKinds DEF StatusInv, RunFits, Concludes
<1>3. passes[Concludes(r)] = FALSE
  BY <1>2 DEF Failed, StatusInv, StatusTypeOK
<1>4. QED
  BY <1>2, <1>3 DEF Written, StatusInv, RunFits, Failed, Concluded

LEMMA AskedNow == ASSUME StatusInv, Ask PROVE StatusInv'
<1> DEFINE fs == {r \in Runs : KeptFailure(r)}
           a == [NotAsked EXCEPT !.pc = "runs", !.failed = fs]
<1>1. /\ a \in AskRecord /\ a.pc = "runs" /\ a.looked = {} /\ a.seen = {} /\ a.current = {}
      /\ a.failed = fs /\ a.held = {} /\ a.gone = {}
  BY DEF NotAsked, AskRecord
<1>2. \A r \in fs : Failed(r) /\ run[r].state # "none"
  BY FailedReceipt DEF KeptFailure
<1> HIDE DEF fs, a
<1>3. ask' = a /\ UNCHANGED <<run, passes, time, worktree, evidence>>
  BY DEF Ask, Asks, a, fs
<1>4. BroughtSeen'
  BY <1>1, <1>3 DEF BroughtSeen
<1>5. \A r \in Runs : FailureSeen(r)'
  BY <1>1, <1>2, <1>3 DEF FailureSeen, Failed, Concluded, Concludes
<1>6. QED
  BY <1>1, <1>2, <1>3, <1>4, <1>5, AskMoves

LEMMA AnswerNext == ASSUME StatusInv, Answer PROVE StatusInv'
<1>1. /\ NotAsked \in AskRecord /\ NotAsked.pc = "idle" /\ NotAsked.seen = {}
      /\ NotAsked.current = {} /\ NotAsked.failed = {} /\ NotAsked.held = {}
      /\ NotAsked.gone = {}
  BY DEF NotAsked, AskRecord
<1>2. ask' = NotAsked /\ UNCHANGED <<run, passes, time, worktree, evidence>>
  BY DEF Answer, Asks
<1>3. BroughtSeen' /\ \A r \in Runs : FailureSeen(r)'
  BY <1>1, <1>2 DEF BroughtSeen, FailureSeen
<1>4. QED
  BY <1>1, <1>2, <1>3, AskMoves

LEMMA LookAtRunNext == ASSUME StatusInv, NEW r \in Runs, LookAtRun(r) PROVE StatusInv'
<1>1. /\ UNCHANGED <<run, passes, time, worktree, evidence>> /\ ask.pc = "runs"
      /\ ask \in AskRecord
  BY DEF LookAtRun, Asks, StatusInv, StatusTypeOK
<1>2. PICK held \in SUBSET Runs, gone \in SUBSET Runs :
        /\ ask' = [ask EXCEPT !.looked = @ \cup {r}, !.held = held, !.gone = gone]
        /\ ask.held \subseteq held
        /\ run[r].kept = "kept" /\ Concluded(r) => r \in held
        /\ \A h \in held : h \in ask.held \/ Concluded(h)
        /\ \A g \in gone : g \in ask.gone \/ g \in held
  <2> DEFINE held == IF run[r].kept = "kept" /\ Concluded(r) THEN ask.held \cup {r} ELSE ask.held
             gone == IF KeptFailure(r) /\ Concludes(r) \notin worktree
                     THEN ask.gone \cup {r} ELSE ask.gone
  <2>1. held \in SUBSET Runs /\ gone \in SUBSET Runs
    BY <1>1 DEF AskRecord
  <2>2. ask' = [ask EXCEPT !.looked = @ \cup {r}, !.held = held, !.gone = gone]
    BY DEF LookAtRun, Asks
  <2>3. \A g \in gone : g \in ask.gone \/ g \in held
    BY DEF KeptFailure, Failed
  <2>4. QED
    BY <2>1, <2>2, <2>3
<1>3. /\ ask' \in AskRecord /\ ask'.pc = "runs" /\ ask'.looked = ask.looked \cup {r}
      /\ ask'.held = held /\ ask'.gone = gone /\ ask'.seen = ask.seen /\ ask'.current = ask.current
      /\ ask'.failed = ask.failed /\ ask'.unknown = ask.unknown
  BY <1>1, <1>2 DEF AskRecord
<1>4. ~GoesWhileJudged => BroughtSeen'
  BY <1>1, <1>3 DEF StatusInv, AskFits, BroughtSeen
<1>5. ASSUME NEW q \in Runs PROVE FailureSeen(q)'
  <2>1. Failed(q)' = Failed(q) /\ Concludes(q)' = Concludes(q)
    BY <1>1 DEF Failed, Concluded, Concludes
  <2>2. FailureSeen(q)
    BY DEF StatusInv, AskFits
  <2>3. Failed(q) => Concluded(q)
    BY DEF Failed
  <2>4. QED
    BY <1>1, <1>2, <1>3, <2>1, <2>2, <2>3 DEF FailureSeen
<1>6. (\A h \in ask'.held : Concluded(h)) /\ ask'.gone \subseteq ask'.held
  BY <1>2, <1>3 DEF StatusInv, AskFits
<1>7. QED
  BY <1>1, <1>3, <1>4, <1>5, <1>6, AskMoves DEF StatusInv, AskFits, CurrentFits

\* What one receipt is judged to be, when it is there to be judged.
LEMMA JudgedFits ==
    ASSUME StatusInv, NEW x \in Receipts, Written(x), Counts(x)
    PROVE  /\ Result(x) \in Judged /\ Result(x).of = x /\ ResultFits(Result(x))
           /\ Result(x).recorded \/ x \in Brought \/ Unknown(x)
<1>1. /\ passes[x] \in BOOLEAN /\ time[x] \in 1 .. MaxTime
  BY DEF StatusInv, StatusTypeOK, Written
<1>2. Recorded(x) \in BOOLEAN
  BY DEF Recorded
<1>3. /\ Result(x) \in Judged /\ Result(x).of = x /\ Result(x).passed = passes[x]
      /\ Result(x).at = time[x] /\ Result(x).recorded = Recorded(x)
  BY <1>1, <1>2 DEF Result, Judged
<1>4. Recorded(x) => x \in RunReceipts /\ Concludes(x[1]) = x
  BY DEF Recorded
<1>5. Recorded(x) \/ x \in Brought \/ Unknown(x)
  BY DEF Counts
<1>6. QED
  BY <1>1, <1>3, <1>4, <1>5 DEF ResultFits

\* A look at the receipts of one place.  What was there and did not go at once
\* is judged now, or was before.
LEMMA LookAtNext ==
    ASSUME StatusInv, UNCHANGED <<run, passes, time>>,
           worktree' \subseteq worktree, evidence' \subseteq evidence,
           NEW found \in SUBSET Receipts, \A x \in found : Written(x),
           NEW lost, ~GoesWhileJudged => lost = {},
           NEW pc \in {"evidence", "kept", "answer"}, LookAt(found, lost, pc),
           ask.looked = Runs, ask.pc # "idle", ask.pc # "answer",
           pc = "answer" => \A r \in Runs : FailureSeen(r) /\ r \in ask.failed
                                              /\ run[r].kept = "kept" => Concludes(r) \in found
    PROVE  StatusInv'
<1> DEFINE judged == found \ (ask.seen \cup lost)
           new == {Result(x) : x \in {y \in judged : Counts(y)}}
           away == {x \in judged : Unknown(x)}
<1>1. \A result \in new :
        /\ result \in Judged /\ ResultFits(result) /\ result.of \in found
        /\ result.recorded \/ result.of \in Brought \cup away
  BY JudgedFits
<1>2. /\ ask' = [ask EXCEPT !.pc = pc, !.seen = @ \cup found, !.current = @ \cup new,
                            !.unknown = @ \cup away]
      /\ away \in SUBSET Receipts
  BY DEF LookAt
<1>3. \A y \in (found \ ask.seen) \ lost : Counts(y) => Result(y) \in new
  OBVIOUS
<1> HIDE DEF judged, new, away
<1>4. ask \in AskRecord
  BY DEF StatusInv, StatusTypeOK
<1>5. /\ ask' \in AskRecord /\ ask'.pc = pc /\ ask'.looked = ask.looked /\ ask'.held = ask.held
      /\ ask'.seen = ask.seen \cup found /\ ask'.current = ask.current \cup new
      /\ ask'.failed = ask.failed /\ ask'.gone = ask.gone
      /\ ask'.unknown = ask.unknown \cup away
  BY <1>1, <1>2, <1>4 DEF AskRecord
<1>6. \A result \in ask'.current : ResultFits(result) /\ CurrentFits(result)'
  BY <1>1, <1>5 DEF StatusInv, AskFits, CurrentFits
<1>7. ~GoesWhileJudged => BroughtSeen'
  <2> SUFFICES ASSUME ~GoesWhileJudged, NEW x \in ask'.seen \cap Brought
               PROVE  [of |-> x, passed |-> passes[x], recorded |-> FALSE, at |-> time[x]]
                         \in ask'.current
    BY DEF BroughtSeen
  <2>1. CASE x \in ask.seen
    BY <1>5, <2>1 DEF StatusInv, AskFits, BroughtSeen
  <2>2. CASE x \notin ask.seen
    <3>1. Counts(x) /\ Recorded(x) = FALSE
      BY ReceiptKinds DEF Counts, Recorded
    <3>2. Result(x) \in new
      BY <1>3, <1>5, <2>2, <3>1
    <3>3. QED
      BY <1>5, <3>1, <3>2 DEF Result
  <2>3. QED
    BY <2>1, <2>2
<1>8. ASSUME NEW r \in Runs PROVE FailureSeen(r)'
  <2> SUFFICES ASSUME r \in ask.failed, run[r].kept = "kept"
               PROVE  FailureSeen(r)'
    BY <1>5 DEF FailureSeen
  <2> DEFINE x == Concludes(r)
             verdict == [of |-> x, passed |-> FALSE, recorded |-> TRUE, at |-> run[r].at]
  <2>1. FailureSeen(r) /\ Failed(r) /\ (r \in ask.looked => r \in ask.held)
    BY DEF StatusInv, AskFits, FailureSeen
  <2>2. Failed(r)' /\ Concludes(r)' = Concludes(r)
    BY <2>1 DEF Failed, Concluded, Concludes
  <2>3. /\ x \in RunReceipts /\ x \in Receipts /\ x[1] = r /\ time[x] = run[r].at
        /\ passes[x] = FALSE
    BY <2>1, FailedReceipt
  <2>4. ASSUME ~GoesWhileJudged, x \in ask'.seen
        PROVE  verdict \in ask'.current
    <3>1. CASE x \in ask.seen
      BY <1>5, <2>1, <2>4, <3>1 DEF FailureSeen
    <3>2. CASE x \notin ask.seen
      <4>1. Recorded(x) = TRUE /\ Counts(x)
        BY <2>3 DEF Recorded, Counts, Unknown
      <4>2. Result(x) \in new
        BY <1>3, <1>5, <2>4, <3>2, <4>1
      <4>3. Result(x) = verdict
        BY <2>3, <4>1 DEF Result
      <4>4. QED
        BY <1>5, <4>2, <4>3
    <3>3. QED
      BY <3>1, <3>2
  <2>5. ask'.pc = "answer" => x \in ask'.seen
    BY <1>5, <2>1
  <2> HIDE DEF verdict
  <2>6. QED
    BY <1>5, <2>1, <2>2, <2>4, <2>5 DEF FailureSeen, verdict
<1>9. /\ \A r \in ask'.failed : run[r].state # "none"
      /\ \A r \in ask'.held : Concluded(r)
      /\ ask'.gone \subseteq ask'.held
  BY <1>5 DEF StatusInv, AskFits
<1>10. \A x \in ask'.seen : Written(x)
  BY <1>5 DEF StatusInv
<1>11. QED
  BY <1>5, <1>6, <1>7, <1>8, <1>9, <1>10, AskMoves

LEMMA LookInWorktreeNext == ASSUME StatusInv, LookInWorktree PROVE StatusInv'
<1>1. PICK lost \in GoneBetween(worktree) :
        LookAt(worktree, lost, "evidence") /\ worktree' = worktree \ lost
  BY DEF LookInWorktree
<1>2. /\ UNCHANGED <<run, passes, time, evidence>> /\ worktree' \subseteq worktree
      /\ ask.pc = "runs" /\ ask.looked = Runs
  BY <1>1 DEF LookInWorktree
<1>3. worktree \in SUBSET Receipts /\ \A x \in worktree : Written(x)
  BY DEF StatusInv, StatusTypeOK
<1>4. ~GoesWhileJudged => lost = {}
  BY <1>1 DEF GoneBetween
<1>5. QED
  BY <1>1, <1>2, <1>3, <1>4, LookAtNext

LEMMA LookInEvidenceNext == ASSUME StatusInv, LookInEvidence PROVE StatusInv'
<1>1. PICK lost \in GoneBetween(evidence) :
        LookAt(evidence, lost, "kept") /\ evidence' = evidence \ lost
  BY DEF LookInEvidence
<1>2. /\ UNCHANGED <<run, passes, time, worktree>> /\ evidence' \subseteq evidence
      /\ ask.pc = "evidence" /\ ask.looked = Runs
  BY <1>1 DEF LookInEvidence, StatusInv, AskFits
<1>3. evidence \in SUBSET Receipts /\ \A x \in evidence : Written(x)
  BY DEF StatusInv, StatusTypeOK
<1>4. ~GoesWhileJudged => lost = {}
  BY <1>1 DEF GoneBetween
<1>5. QED
  BY <1>1, <1>2, <1>3, <1>4, LookAtNext

\* The last look: a run that is kept has the receipt it concluded with.
LEMMA LookAtKeptNext == ASSUME StatusInv, LookAtKept PROVE StatusInv'
<1> DEFINE there == {h \in ask.held : run[h].kept = "kept"}
           found == {Concludes(r) : r \in there}
<1>1. /\ UNCHANGED <<run, passes, time, worktree, evidence>>
      /\ ask.pc = "kept" /\ ask.looked = Runs /\ LookAt(found, {}, "answer")
  BY DEF LookAtKept, StatusInv, AskFits
<1>2. ASSUME NEW r \in there PROVE Concludes(r) \in Receipts /\ Written(Concludes(r))
  <2>1. r \in Runs /\ run[r].receipt # 0
    BY DEF StatusInv, AskFits, StatusTypeOK, AskRecord, Concluded
  <2>2. run[r].receipt \in 1 .. run[r].written /\ run[r].receipt \in 1 .. MaxReceipts
    BY <2>1, ReceiptKinds DEF StatusInv, RunFits, StatusTypeOK, RunRecord
  <2>3. QED
    BY <2>1, <2>2, ReceiptKinds DEF StatusInv, RunFits, Concludes
<1>3. found \in SUBSET Receipts /\ \A x \in found : Written(x)
  BY <1>2
<1>4. \A r \in Runs : FailureSeen(r) /\ r \in ask.failed
                         /\ run[r].kept = "kept" => Concludes(r) \in found
  BY <1>1 DEF FailureSeen
<1> HIDE DEF found
<1>5. QED
  BY <1>1, <1>3, <1>4, LookAtNext

LEMMA StatusNext == StatusInv /\ [Next]_vars => StatusInv'
<1> SUFFICES ASSUME StatusInv, [Next]_vars PROVE StatusInv'
  OBVIOUS
<1>1. ASSUME NEW r \in Runs, RunStep(r) PROVE StatusInv'
  BY <1>1, AskedNext, WriteReceiptNext, ConcludeNext, PruneNext DEF RunStep
<1>2. ASSUME LoseReceipt \/ KeepEvidence \/ EvictEvidence \/ UNCHANGED vars PROVE StatusInv'
  <2>1. /\ UNCHANGED <<run, passes, time, ask>>
        /\ worktree' \cup evidence' \subseteq worktree \cup evidence
    BY <1>2 DEF LoseReceipt, KeepEvidence, EvictEvidence, vars
  <2>2. QED
    BY <2>1, ReceiptsGo
<1>3. ASSUME NEW x \in Brought, Bring(x) PROVE StatusInv'
  BY <1>3, BringNext
<1>4. ASSUME AskStep PROVE StatusInv'
  BY <1>4, AskedNow, LookAtRunNext, LookInWorktreeNext, LookInEvidenceNext, LookAtKeptNext,
     AnswerNext DEF AskStep
<1>5. QED
  BY <1>1, <1>2, <1>3, <1>4 DEF Next

LEMMA StatusIsSound == Spec => []StatusInv
<1>1. QED
  BY StatusInit, StatusNext, PTL DEF Spec

\* commit_status's state has its type: what was found, judged and is current
\* are receipts of this clone's runs or brought ones.
THEOREM StatusTypeCorrect == Spec => []StatusTypeOK
<1>1. StatusInv => StatusTypeOK
  BY DEF StatusInv
<1>2. QED
  BY <1>1, StatusIsSound, PTL

-----------------------------------------------------------------------------
(***************************************************************************)
(* The verdict.                                                            *)
(***************************************************************************)
LEMMA LatestTime ==
    ASSUME NEW times \in SUBSET (1 .. MaxTime), times # {}
    PROVE  \E t \in times : \A s \in times : s <= t
<1> DEFINE After(t) == {s \in 1 .. MaxTime : s > t}
           tails == {After(t) : t \in times}
<1>1. FiniteSubsetsOf(1 .. MaxTime) = SUBSET (1 .. MaxTime)
  <2>1. 1 \in Int /\ MaxTime \in Int
    BY ReceiptKinds
  <2>2. IsFiniteSet(1 .. MaxTime)
    BY <2>1, FS_Interval
  <2>3. QED
    BY <2>2, FS_FiniteSubsetsOfFinite
<1>2. tails \subseteq FiniteSubsetsOf(1 .. MaxTime) /\ tails # {}
  <2>1. \A t \in times : After(t) \in SUBSET (1 .. MaxTime)
    OBVIOUS
  <2> HIDE DEF After
  <2>2. tails \in SUBSET (SUBSET (1 .. MaxTime)) /\ tails # {}
    BY <2>1
  <2>3. QED
    BY <1>1, <2>2
<1>3. IsWellFoundedOn(StrictSubsetOrdering(1 .. MaxTime), FiniteSubsetsOf(1 .. MaxTime))
  BY FS_StrictSubsetOrderingWellFounded
<1> HIDE DEF tails
<1>4. PICK least \in tails :
        \A tail \in tails : <<tail, least>> \notin StrictSubsetOrdering(1 .. MaxTime)
  BY <1>2, <1>3, WFMin
<1>5. PICK t \in times : least = After(t)
  BY <1>4 DEF tails
<1>6. ASSUME NEW s \in times, s > t PROVE FALSE
  <2>1. After(s) \in tails /\ After(s) \subseteq After(t) /\ s \in After(t) /\ s \notin After(s)
    BY <1>6 DEF tails
  <2>2. <<After(s), least>> \in StrictSubsetOrdering(1 .. MaxTime)
    BY <1>5, <2>1 DEF StrictSubsetOrdering
  <2>3. QED
    BY <1>4, <2>1, <2>2
<1>7. \A s \in times : s <= t
  BY <1>6
<1>8. QED
  BY <1>7

\* There is a newest of some results, and of the newest a failure if any is one.
LEMMA NewestIsThere ==
    ASSUME NEW results, results # {},
           \A result \in results : result.at \in 1 .. MaxTime /\ result.passed \in BOOLEAN
    PROVE  /\ Newest(results) \in results
           /\ \A other \in results :
                \/ other.at < Newest(results).at
                \/ other.at = Newest(results).at
                   /\ (other.passed = Newest(results).passed \/ ~Newest(results).passed)
<1> DEFINE times == {result.at : result \in results}
<1>1. PICK t \in times : \A s \in times : s <= t
  <2>1. times \in SUBSET (1 .. MaxTime) /\ times # {}
    OBVIOUS
  <2> HIDE DEF times
  <2>2. QED
    BY <2>1, LatestTime
<1>2. PICK new \in results : new.at = t
  BY <1>1
<1>3. PICK last \in results :
        last.at = t /\ \A other \in results : other.at = t => other.passed = last.passed \/ ~last.passed
  <2>1. CASE \E result \in results : result.at = t /\ ~result.passed
    BY <2>1
  <2>2. CASE \A result \in results : result.at = t => result.passed
    BY <1>2, <2>2
  <2>3. QED
    BY <2>1, <2>2
<1>4. \A other \in results :
        \/ other.at < last.at
        \/ other.at = last.at /\ (other.passed = last.passed \/ ~last.passed)
  <2> TAKE other \in results
  <2>1. other.at <= t /\ other.at \in Nat /\ t \in Nat
    BY <1>1
  <2>2. QED
    BY <1>3, <2>1
<1>5. QED
  BY <1>3, <1>4 DEF Newest

\* What a result is; a passing one was judged of a receipt.
LEMMA ResultsFit ==
    ASSUME StatusInv, NEW result \in Results
    PROVE  /\ result.at \in 1 .. MaxTime
           /\ result.passed \in BOOLEAN
           /\ result.recorded \in BOOLEAN
           /\ result.passed => result \in ask.current
<1>1. CASE result \in ask.current
  BY <1>1 DEF StatusInv, StatusTypeOK, AskRecord, Judged
<1>2. CASE result \notin ask.current
  <2>1. PICK g \in ask.gone :
          result = [of |-> Concludes(g), passed |-> FALSE, recorded |-> TRUE, at |-> run[g].at]
    BY <1>2 DEF Results
  <2>2. g \in Runs /\ Concluded(g)
    BY DEF StatusInv, AskFits, StatusTypeOK, AskRecord
  <2>3. run[g].at \in 1 .. MaxTime
    BY <2>2 DEF StatusInv, RunFits, Concluded
  <2>4. QED
    BY <2>1, <2>3
<1>3. QED
  BY <1>1, <1>2

\* A verdict of passed rests on a pass that is newer than every recorded
\* failure, and older than none.
LEMMA PassOutranks ==
    ASSUME StatusInv, Verdict = "passed"
    PROVE  \E last \in ask.current :
             /\ last.passed
             /\ \A result \in Results : ~result.passed =>
                  /\ result.at <= last.at
                  /\ result.recorded => last.recorded /\ result.at < last.at
<1> DEFINE recorded == {result \in Results : result.recorded}
           others == Results \ recorded
<1>1. Results # {}
  BY DEF Verdict
<1>2. \A result \in Results :
        result.at \in 1 .. MaxTime /\ result.passed \in BOOLEAN /\ result.recorded \in BOOLEAN
  BY ResultsFit
<1>3. CASE recorded = {}
  <2>1. others = Results
    BY <1>3
  <2>2. Newest(others).passed
    BY <1>1, <1>3 DEF Verdict
  <2>3. /\ Newest(Results) \in Results
        /\ \A other \in Results :
             \/ other.at < Newest(Results).at
             \/ other.at = Newest(Results).at
                /\ (other.passed = Newest(Results).passed \/ ~Newest(Results).passed)
    BY <1>1, <1>2, NewestIsThere
  <2>4. PICK last \in Results : last = Newest(Results)
    BY <2>3
  <2>5. last.passed /\ last \in ask.current
    BY <2>1, <2>2, <2>4, ResultsFit
  <2>6. \A result \in Results : ~result.passed => result.at < last.at /\ result.at <= last.at
    <3> SUFFICES ASSUME NEW result \in Results, ~result.passed
                 PROVE  result.at < last.at /\ result.at <= last.at
      OBVIOUS
    <3>1. result.at < last.at
      BY <2>3, <2>4, <2>5
    <3>2. result.at \in Int /\ last.at \in Int
      BY <1>2, ReceiptKinds
    <3>3. QED
      BY <3>1, <3>2
  <2>7. \A result \in Results : ~result.recorded
    BY <1>3
  <2>8. QED
    BY <1>2, <2>5, <2>6, <2>7
<1>4. CASE recorded # {}
  <2>1. /\ Newest(recorded) \in recorded
        /\ \A other \in recorded :
             \/ other.at < Newest(recorded).at
             \/ other.at = Newest(recorded).at
                /\ (other.passed = Newest(recorded).passed \/ ~Newest(recorded).passed)
    BY <1>2, <1>4, NewestIsThere
  <2>2. /\ Newest(recorded).passed
        /\ ~ \E other \in others : ~other.passed /\ other.at > Newest(recorded).at
    BY <1>1, <1>4 DEF Verdict
  <2>3. PICK last \in recorded : last = Newest(recorded)
    BY <2>1
  <2>4. last.passed /\ last.recorded /\ last \in ask.current /\ last \in Results
    BY <2>2, <2>3, ResultsFit
  <2>5. ASSUME NEW result \in Results, ~result.passed, result.recorded
        PROVE  result.at < last.at
    BY <2>1, <2>2, <2>3, <2>4, <2>5
  <2>6. ASSUME NEW result \in Results, ~result.passed, ~result.recorded
        PROVE  result.at <= last.at
    <3>1. ~ (result.at > last.at)
      BY <2>2, <2>3, <2>6
    <3>2. result.at \in Int /\ last.at \in Int
      BY <1>2, <2>4, ReceiptKinds
    <3>3. QED
      BY <3>1, <3>2
  <2>7. QED
    <3>1. \A result \in Results : result.at \in Int
      BY <1>2, ReceiptKinds
    <3>2. QED
      BY <2>4, <2>5, <2>6, <3>1
<1>5. QED
  BY <1>3, <1>4

\* PassWasConcluded, for every set of runs and receipts: every pass that is
\* current, and with them one that no failure outranks where the verdict is
\* passed, is what its run concluded with, was brought, or was judged while its
\* run was unknown, moved aside and not noted yet, or forgotten.
THEOREM PassesWereConcluded == Spec => []PassWasConcluded
<1> DEFINE backed == {x \in ask.seen : x \in Brought \cup ask.unknown \/ Concludes(x[1]) = x}
<1>1. ASSUME StatusInv, NEW result \in ask.current PROVE result.of \in backed
  <2>1. ResultFits(result) /\ CurrentFits(result)
    BY <1>1 DEF StatusInv, AskFits
  <2>2. QED
    BY <2>1 DEF ResultFits, CurrentFits
<1>2. ASSUME StatusInv, Verdict = "passed"
      PROVE  \E last \in ask.current :
               /\ last.passed /\ last.of \in backed
               /\ \A other \in Results : other.passed \/ other.at <= last.at
  <2>1. PICK last \in ask.current :
          last.passed /\ \A other \in Results : ~other.passed => other.at <= last.at
    BY <1>2, PassOutranks
  <2>2. last.of \in backed
    BY <1>1, <1>2
  <2>3. QED
    BY <2>1, <2>2
<1> HIDE DEF backed
<1>3. StatusInv => PassWasConcluded
  BY <1>1, <1>2 DEF PassWasConcluded, backed
<1>4. QED
  BY <1>3, StatusIsSound, PTL

\* PassHidesNoFailure, for every set of runs and receipts, where a receipt that
\* was read is there to be judged: whatever goes, is pruned or forgotten between
\* the looks, a pass that is answered is newer than every run that had failed
\* when it was asked and is kept, and not older than a failure that was brought.
THEOREM FailuresAreNotHidden ==
    ASSUME GoesWhileJudged = FALSE PROVE Spec => []PassHidesNoFailure
<1>1. ASSUME StatusInv, ask.pc = "answer", Verdict = "passed"
      PROVE  /\ \A r \in {f \in ask.failed : run[f].kept = "kept"} :
                  \E x \in RunReceipts :
                     passes[x] /\ Concludes(x[1]) = x /\ time[x] > run[r].at
             /\ \A x \in ask.seen \cap Brought :
                  passes[x] \/ \E y \in Receipts : passes[y] /\ time[y] >= time[x]
  <2>1. PICK last \in ask.current :
          /\ last.passed
          /\ \A result \in Results : ~result.passed =>
               /\ result.at <= last.at
               /\ result.recorded => last.recorded /\ result.at < last.at
    BY <1>1, PassOutranks
  <2>2. PICK y \in Receipts : y = last.of
    BY <1>1 DEF StatusInv, StatusTypeOK, AskRecord, Judged
  <2>3. /\ passes[y] /\ time[y] = last.at /\ time[y] \in 1 .. MaxTime
        /\ last.recorded => y \in RunReceipts /\ Concludes(y[1]) = y
    BY <1>1, <2>1, <2>2 DEF StatusInv, AskFits, ResultFits, Written
  <2>4. ASSUME NEW r \in ask.failed, run[r].kept = "kept"
        PROVE  \E x \in RunReceipts : passes[x] /\ Concludes(x[1]) = x /\ time[x] > run[r].at
    <3>1. r \in Runs /\ FailureSeen(r)
      BY <1>1 DEF StatusInv, AskFits, StatusTypeOK, AskRecord
    <3>2. PICK result \in ask.current :
            result = [of |-> Concludes(r), passed |-> FALSE, recorded |-> TRUE, at |-> run[r].at]
      BY <1>1, <2>4, <3>1 DEF FailureSeen
    <3>3. result \in Results /\ ~result.passed /\ result.recorded /\ result.at = run[r].at
      BY <3>2 DEF Results
    <3>4. last.recorded /\ run[r].at < last.at
      BY <2>1, <3>3
    <3>5. run[r].at \in Int /\ time[y] \in Int
      BY <1>1, <2>3, <3>1, ReceiptKinds DEF StatusInv, StatusTypeOK, RunRecord
    <3>6. time[y] > run[r].at
      BY <2>3, <3>4, <3>5
    <3>7. QED
      BY <2>3, <3>4, <3>6
  <2>5. ASSUME NEW x \in ask.seen \cap Brought, ~passes[x]
        PROVE  \E z \in Receipts : passes[z] /\ time[z] >= time[x]
    <3>1. x \in Receipts /\ passes[x] = FALSE /\ time[x] \in Int /\ time[y] \in Int
      BY <1>1, <2>3, <2>5, ReceiptKinds DEF StatusInv, StatusTypeOK
    <3>2. PICK result \in ask.current :
            result = [of |-> x, passed |-> FALSE, recorded |-> FALSE, at |-> time[x]]
      BY <1>1, <3>1 DEF StatusInv, AskFits, BroughtSeen
    <3>3. result \in Results /\ ~result.passed /\ result.at = time[x]
      BY <3>2 DEF Results
    <3>4. time[x] <= time[y]
      BY <2>1, <2>3, <3>3
    <3>5. time[y] >= time[x]
      BY <3>1, <3>4
    <3>6. QED
      BY <2>3, <3>5
  <2>6. QED
    BY <2>4, <2>5
<1>2. StatusInv => PassHidesNoFailure
  BY <1>1 DEF PassHidesNoFailure
<1>3. QED
  BY <1>2, StatusIsSound, PTL

===============================================================================
