--------------------------- MODULE PushGate_proofs ---------------------------
(***************************************************************************)
(* Proofs about PushGate, for every history of commits, every set of       *)
(* receipts and pushes and every budget: a gated commit goes out on a      *)
(* receipt that verified for it, the gate comes off a branch only by a     *)
(* push that nobody gates, and the evidence stays bounded.                 *)
(***************************************************************************)
EXTENDS PushGate, FiniteSetTheorems, WellFoundedInduction, TLAPS

GateSteps ==
    {"idle", "ask", "read", "judge", "compare", "look", "place", "list", "evict", "send",
     "unfinished"}

PushRecord ==
    [pc : GateSteps, sha : Commits \cup {None}, remote : Commits \cup {None},
     receipt : Receipts \cup {None}, excess : SUBSET Receipts]

GateTypeOK ==
    /\ tip \in Commits \cup {None}
    /\ tracking \in Commits \cup {None}
    /\ here \subseteq Commits
    /\ file \in [Pushes -> Receipts \cup {None}]
    /\ written \subseteq Receipts
    /\ evidence \subseteq Receipts
    /\ older \subseteq Receipts \X Receipts
    /\ push \in [Pushes -> PushRecord]

\* A clone has with a commit all that went before it.
HistoryIsWhole == \A c \in here : Ancestors[c] \subseteq here

\* What is in a worktree's file was written by a run, once.
FilesAreWritten == \A q \in Pushes : file[q] # None => file[q] \in written

\* A push of a commit that carries a contract: what it read is a receipt for
\* that commit, and verified if it is still there when it is compared.
ReceiptFits(q) ==
    LET x == push[q].receipt
    IN /\ push[q].pc \in {"judge", "compare"} =>
            x \in written /\ x \in Receipts /\ Of[x] = push[q].sha
       /\ push[q].pc = "compare" /\ file[q] = x => x \in Verifies
       /\ push[q].pc \in {"look", "place", "list", "evict"} =>
            x \in Verifies /\ Of[x] = push[q].sha
       /\ push[q].pc = "send" /\ push[q].sha \in Carries =>
            x \in Verifies /\ Of[x] = push[q].sha

\* A push of one that does not carry it is let go only over a branch that has
\* none either, as far as its commit follows on that branch.
LetGo(q) ==
    LET p == push[q]
    IN /\ p.pc \notin {"idle", "unfinished"} => p.sha \in here
       /\ p.pc \notin {"idle", "ask", "send", "unfinished"} => p.sha \in Carries
       /\ p.pc = "unfinished" => p.sha = None
       /\ p.pc = "send" /\ p.sha \notin Carries /\ p.remote \in Ancestors[p.sha] =>
            p.remote \notin Carries

GateInv ==
    /\ GateTypeOK
    /\ HistoryIsWhole
    /\ FilesAreWritten
    /\ evidence \subseteq Verifies
    /\ \A q \in Pushes : ReceiptFits(q) /\ LetGo(q)

LEMMA GateInit == Init => GateInv
<1> SUFFICES ASSUME Init PROVE GateInv
  OBVIOUS
<1>1. NotPushed \in PushRecord
  BY DEF NotPushed, PushRecord, GateSteps
<1>2. GateTypeOK
  BY <1>1 DEF Init, GateTypeOK
<1>3. \A q \in Pushes : ReceiptFits(q) /\ LetGo(q)
  BY DEF Init, ReceiptFits, LetGo, NotPushed
<1>4. QED
  BY <1>2, <1>3 DEF Init, GateInv, HistoryIsWhole, FilesAreWritten

-----------------------------------------------------------------------------
\* A step of push q alone concerns what q has read and may send.
LEMMA PushMoves ==
    ASSUME GateTypeOK, NEW q \in Pushes, NEW r \in PushRecord, Pushing(q, r)
    PROVE  /\ push' \in [Pushes -> PushRecord]
           /\ push'[q] = r
           /\ \A p \in Pushes : p # q => push'[p] = push[p]
  BY DEF GateTypeOK, Pushing

\* Where the file of another worktree changes, or none, and what was written
\* stays, the other pushes keep what they have.
LEMMA OthersFit ==
    ASSUME NEW p \in Pushes, ReceiptFits(p), LetGo(p), push'[p] = push[p],
           written \subseteq written', here \subseteq here', file'[p] = file[p]
    PROVE  ReceiptFits(p)' /\ LetGo(p)'
  BY DEF ReceiptFits, LetGo

\* The steps of a push that change nothing but where it is.
LEMMA AloneNext ==
    ASSUME GateInv, OnlyPush, NEW q \in Pushes, NEW r \in PushRecord, Pushing(q, r),
           ReceiptFits(q)', LetGo(q)'
    PROVE  GateInv'
<1>1. /\ push' \in [Pushes -> PushRecord]
      /\ \A p \in Pushes : p # q => push'[p] = push[p]
  BY PushMoves DEF GateInv
<1>2. \A p \in Pushes : ReceiptFits(p)' /\ LetGo(p)'
  <2> TAKE p \in Pushes
  <2>1. CASE p = q
    BY <2>1
  <2>2. CASE p # q
    BY <1>1, <2>2, OthersFit DEF GateInv, OnlyPush
  <2>3. QED
    BY <2>1, <2>2
<1>3. GateTypeOK' /\ HistoryIsWhole' /\ FilesAreWritten' /\ (evidence \subseteq Verifies)'
  BY <1>1 DEF GateInv, GateTypeOK, OnlyPush, HistoryIsWhole, FilesAreWritten
<1>4. QED
  BY <1>2, <1>3 DEF GateInv

\* What a push becomes keeps its shape.
LEMMA RecordsFit ==
    ASSUME GateTypeOK, NEW q \in Pushes
    PROVE  /\ NotPushed \in PushRecord
           /\ [NotPushed EXCEPT !.pc = "unfinished"] \in PushRecord
           /\ \A pc \in GateSteps : [push[q] EXCEPT !.pc = pc] \in PushRecord
           /\ \A pc \in GateSteps, x \in Receipts :
                [push[q] EXCEPT !.pc = pc, !.receipt = x] \in PushRecord
           /\ \A pc \in GateSteps, x \in SUBSET Receipts :
                [push[q] EXCEPT !.pc = pc, !.excess = x] \in PushRecord
  BY DEF GateTypeOK, PushRecord, NotPushed, GateSteps

LEMMA EndsFits ==
    ASSUME GateInv, NEW q \in Pushes, Ends(q)
    PROVE  /\ NotPushed \in PushRecord /\ Pushing(q, NotPushed)
           /\ ReceiptFits(q)' /\ LetGo(q)'
<1>1. NotPushed \in PushRecord /\ push'[q] = NotPushed
  BY RecordsFit, PushMoves DEF GateInv, Ends
<1>2. QED
  BY <1>1 DEF Ends, ReceiptFits, LetGo, NotPushed

\* A push that goes on with what it had.
LEMMA GoesFits ==
    ASSUME GateInv, NEW q \in Pushes, NEW pc \in GateSteps, Goes(q, pc)
    PROVE  /\ [push[q] EXCEPT !.pc = pc] \in PushRecord
           /\ Pushing(q, [push[q] EXCEPT !.pc = pc])
           /\ push'[q].pc = pc
           /\ push'[q].sha = push[q].sha
           /\ push'[q].remote = push[q].remote
           /\ push'[q].receipt = push[q].receipt
<1>1. [push[q] EXCEPT !.pc = pc] \in PushRecord
  BY RecordsFit DEF GateInv
<1>2. push'[q] = [push[q] EXCEPT !.pc = pc] /\ push[q] \in PushRecord
  BY <1>1, PushMoves DEF GateInv, Goes, GateTypeOK
<1>3. QED
  BY <1>1, <1>2 DEF Goes, PushRecord

-----------------------------------------------------------------------------
\* The clone, the remote and the worktrees move on under the pushes.
LEMMA WorldNext ==
    ASSUME GateInv, UNCHANGED <<push, evidence, older>>,
           GateTypeOK', HistoryIsWhole', FilesAreWritten',
           written \subseteq written', here \subseteq here',
           \A q \in Pushes : file'[q] = file[q] \/ file'[q] = None \/ file'[q] \notin written
    PROVE  GateInv'
<1>1. ASSUME NEW q \in Pushes PROVE ReceiptFits(q)' /\ LetGo(q)'
  <2>1. file'[q] = push[q].receipt => file[q] = push[q].receipt \/ push[q].receipt \notin written
                                        \/ push[q].receipt = None
    OBVIOUS
  <2>2. push[q].pc \in {"judge", "compare"} =>
            push[q].receipt \in written /\ push[q].receipt # None
    BY GateAssumption DEF GateInv, ReceiptFits, GateAssumption
  <2>3. QED
    BY <2>1, <2>2 DEF GateInv, ReceiptFits, LetGo
<1>2. QED
  BY <1>1 DEF GateInv

LEMMA MakeCommitNext == GateInv /\ MakeCommit => GateInv'
<1> SUFFICES ASSUME GateInv, MakeCommit PROVE GateInv'
  OBVIOUS
<1>1. PICK c \in Commits : Ancestors[c] \ {c} \subseteq here /\ here' = here \cup {c}
  BY DEF MakeCommit
<1>2. GateTypeOK' /\ HistoryIsWhole' /\ FilesAreWritten'
  BY <1>1, GateAssumption
  DEF GateAssumption, MakeCommit, GateInv, GateTypeOK, HistoryIsWhole, FilesAreWritten
<1>3. QED
  BY <1>1, <1>2, WorldNext DEF MakeCommit

LEMMA FetchNext == GateInv /\ Fetch => GateInv'
<1> SUFFICES ASSUME GateInv, Fetch PROVE GateInv'
  OBVIOUS
<1>1. tip \in Commits /\ Ancestors[tip] \subseteq Commits
  BY GateAssumption DEF GateAssumption, GateInv, GateTypeOK, Fetch
<1>2. GateTypeOK' /\ FilesAreWritten'
  BY <1>1 DEF Fetch, GateInv, GateTypeOK, FilesAreWritten
<1>3. \A c \in Ancestors[tip] : Ancestors[c] \subseteq Ancestors[tip]
  BY <1>1, GateAssumption DEF GateAssumption
<1>4. HistoryIsWhole'
  BY <1>3 DEF Fetch, GateInv, HistoryIsWhole
<1>5. QED
  BY <1>2, <1>4, WorldNext DEF Fetch

LEMMA MoveBranchNext == GateInv /\ MoveBranch => GateInv'
<1> SUFFICES ASSUME GateInv, MoveBranch PROVE GateInv'
  OBVIOUS
<1>1. GateTypeOK' /\ HistoryIsWhole' /\ FilesAreWritten'
  BY DEF MoveBranch, GateInv, GateTypeOK, HistoryIsWhole, FilesAreWritten
<1>2. QED
  BY <1>1, WorldNext DEF MoveBranch

LEMMA RedirectNext ==
    ASSUME GateInv, NEW q \in Pushes, Redirect(q) PROVE GateInv'
<1>1. /\ file' \in [Pushes -> Receipts \cup {None}]
      /\ \A p \in Pushes : file'[p] = file[p] \/ file'[p] = None
  BY DEF Redirect, GateInv, GateTypeOK
<1>2. GateTypeOK' /\ HistoryIsWhole' /\ FilesAreWritten'
  BY <1>1 DEF Redirect, GateInv, GateTypeOK, HistoryIsWhole, FilesAreWritten
<1>3. QED
  BY <1>1, <1>2, WorldNext DEF Redirect

\* The bytes of a run are its own: what a push has read never comes back.
LEMMA WriteReportNext ==
    ASSUME GateInv, NEW q \in Pushes, WriteReport(q) PROVE GateInv'
<1>1. PICK x \in Receipts \ written :
        file' = [file EXCEPT ![q] = x] /\ written' = written \cup {x}
  BY DEF WriteReport
<1>2. /\ file' \in [Pushes -> Receipts \cup {None}]
      /\ \A p \in Pushes : file'[p] = file[p] \/ file'[p] = x
  BY <1>1 DEF GateInv, GateTypeOK
<1>3. GateTypeOK' /\ HistoryIsWhole' /\ FilesAreWritten'
  BY <1>1, <1>2 DEF WriteReport, GateInv, GateTypeOK, HistoryIsWhole, FilesAreWritten
<1>4. QED
  BY <1>1, <1>2, <1>3, WorldNext DEF WriteReport

-----------------------------------------------------------------------------
\* The gate.
LEMMA StartNext ==
    ASSUME GateInv, NEW q \in Pushes, Start(q) PROVE GateInv'
<1>1. PICK c \in here :
        Pushing(q, [NotPushed EXCEPT !.pc = "ask", !.sha = c, !.remote = tip])
  BY DEF Start
<1> DEFINE r == [NotPushed EXCEPT !.pc = "ask", !.sha = c, !.remote = tip]
<1>2. r \in PushRecord /\ r.pc = "ask" /\ r.sha = c
  BY DEF GateInv, GateTypeOK, NotPushed, PushRecord, GateSteps
<1>3. push'[q] = r
  BY <1>1, <1>2, PushMoves DEF GateInv
<1>4. ReceiptFits(q)' /\ LetGo(q)'
  <2> HIDE DEF r
  <2>1. QED
    BY <1>2, <1>3 DEF ReceiptFits, LetGo, Start, OnlyPush
<1>5. QED
  BY <1>1, <1>2, <1>4, AloneNext DEF Start

\* A commit is let go only past a branch that the clone sees not gated; the one
\* it follows on is in the clone.
LEMMA AskNext ==
    ASSUME GateInv, NEW q \in Pushes, Ask(q) PROVE GateInv'
<1>1. CASE push[q].sha \in Carries
  <2>1. Goes(q, "read")
    BY <1>1 DEF Ask
  <2>2. ReceiptFits(q)' /\ LetGo(q)'
    BY <1>1, <2>1, GoesFits DEF GateInv, GateSteps, ReceiptFits, LetGo, Ask, OnlyPush
  <2>3. QED
    BY <2>1, <2>2, GoesFits, AloneNext DEF Ask, GateSteps
<1>2. CASE push[q].sha \notin Carries /\ RemoteTip(q) \in Carries
  BY <1>2, EndsFits, AloneNext DEF Ask
<1>3. CASE push[q].sha \notin Carries /\ RemoteTip(q) \notin Carries
  <2>1. Goes(q, "send")
    BY <1>3 DEF Ask
  <2>2. push[q].sha \in here
    BY DEF GateInv, LetGo, Ask
  <2>3. push[q].remote \in Ancestors[push[q].sha] => push[q].remote \notin Carries
    BY <1>3, <2>2 DEF GateInv, HistoryIsWhole, RemoteTip
  <2>4. ReceiptFits(q)' /\ LetGo(q)'
    BY <1>3, <2>1, <2>2, <2>3, GoesFits DEF GateSteps, ReceiptFits, LetGo, Ask, OnlyPush
  <2>5. QED
    BY <2>1, <2>4, GoesFits, AloneNext DEF Ask, GateSteps
<1>4. QED
  BY <1>1, <1>2, <1>3

LEMMA ReadNext ==
    ASSUME GateInv, NEW q \in Pushes, Read(q) PROVE GateInv'
<1>1. CASE file[q] # None /\ Of[file[q]] = push[q].sha
  <2> DEFINE r == [push[q] EXCEPT !.pc = "judge", !.receipt = file[q]]
  <2>1. Pushing(q, r) /\ file[q] \in Receipts
    BY <1>1 DEF Read, GateInv, GateTypeOK
  <2>2. r \in PushRecord /\ push[q] \in PushRecord
    BY <2>1, RecordsFit DEF GateInv, GateSteps, GateTypeOK
  <2>3. push'[q] = r /\ r.pc = "judge" /\ r.receipt = file[q] /\ r.sha = push[q].sha
    BY <2>1, <2>2, PushMoves DEF GateInv, PushRecord
  <2>4. ReceiptFits(q)' /\ LetGo(q)'
    <3> HIDE DEF r
    <3>1. QED
      BY <1>1, <2>1, <2>3 DEF GateInv, FilesAreWritten, ReceiptFits, LetGo, Read, OnlyPush
  <2>5. QED
    BY <2>1, <2>2, <2>4, AloneNext DEF Read
<1>2. CASE ~(file[q] # None /\ Of[file[q]] = push[q].sha)
  BY <1>2, EndsFits, AloneNext DEF Read
<1>3. QED
  BY <1>1, <1>2

\* What is judged is what is there now; it was read if it is what was read.
LEMMA JudgeNext ==
    ASSUME GateInv, NEW q \in Pushes, Judge(q) PROVE GateInv'
<1>1. CASE Verified(q)
  <2>1. Goes(q, "compare")
    BY <1>1 DEF Judge
  <2>2. ReceiptFits(q)' /\ LetGo(q)'
    BY <1>1, <2>1, GoesFits
    DEF GateInv, GateSteps, Verified, ReceiptFits, LetGo, Judge, OnlyPush
  <2>3. QED
    BY <2>1, <2>2, GoesFits, AloneNext DEF Judge, GateSteps
<1>2. CASE ~Verified(q)
  BY <1>2, EndsFits, AloneNext DEF Judge
<1>3. QED
  BY <1>1, <1>2

LEMMA CompareNext ==
    ASSUME GateInv, NEW q \in Pushes, Compare(q) PROVE GateInv'
<1>1. CASE file[q] = push[q].receipt
  <2>1. Goes(q, "look")
    BY <1>1 DEF Compare
  <2>2. ReceiptFits(q)' /\ LetGo(q)'
    BY <1>1, <2>1, GoesFits DEF GateInv, GateSteps, ReceiptFits, LetGo, Compare, OnlyPush
  <2>3. QED
    BY <2>1, <2>2, GoesFits, AloneNext DEF Compare, GateSteps
<1>2. CASE file[q] # push[q].receipt
  BY <1>2, EndsFits, AloneNext DEF Compare
<1>3. QED
  BY <1>1, <1>2

-----------------------------------------------------------------------------
\* Keeping evidence, and sending.

\* A push that changes the evidence, and is let go on with its own receipt.
LEMMA EvidenceNext ==
    ASSUME GateInv, NEW q \in Pushes, NEW r \in PushRecord, Pushing(q, r),
           UNCHANGED <<tip, tracking, here, file, written>>,
           evidence' \subseteq evidence \cup {push[q].receipt},
           older' \subseteq Receipts \X Receipts,
           push[q].receipt \in Verifies,
           ReceiptFits(q)', LetGo(q)'
    PROVE  GateInv'
<1>1. /\ push' \in [Pushes -> PushRecord]
      /\ \A p \in Pushes : p # q => push'[p] = push[p]
  BY PushMoves DEF GateInv
<1>2. \A p \in Pushes : ReceiptFits(p)' /\ LetGo(p)'
  <2> TAKE p \in Pushes
  <2>1. CASE p = q
    BY <2>1
  <2>2. CASE p # q
    BY <1>1, <2>2, OthersFit DEF GateInv
  <2>3. QED
    BY <2>1, <2>2
<1>3. evidence' \subseteq Verifies /\ evidence' \subseteq Receipts
  BY GateAssumption DEF GateInv, GateTypeOK, GateAssumption
<1>4. GateTypeOK' /\ HistoryIsWhole' /\ FilesAreWritten'
  BY <1>1, <1>3 DEF GateInv, GateTypeOK, HistoryIsWhole, FilesAreWritten
<1>5. QED
  BY <1>2, <1>3, <1>4 DEF GateInv

LEMMA OlderFits ==
    ASSUME GateTypeOK, NEW x \in Receipts, Newest(x)
    PROVE  /\ older' \subseteq Receipts \X Receipts
           /\ evidence' \subseteq evidence \cup {x}
  BY DEF GateTypeOK, Newest

\* Both ways in which a receipt is placed.
LEMMA PlacedNext ==
    ASSUME GateInv, NEW q \in Pushes, Touch(q) \/ Place(q) PROVE GateInv'
<1>1. push[q].receipt \in Verifies /\ push[q].receipt \in Receipts
  BY GateAssumption DEF GateAssumption, GateInv, ReceiptFits, Touch, Place
<1>2. /\ older' \subseteq Receipts \X Receipts
      /\ evidence' \subseteq evidence \cup {push[q].receipt}
  BY <1>1, OlderFits DEF GateInv, Touch, Place
<1>3. Goes(q, "list") /\ UNCHANGED <<tip, tracking, here, file, written>>
  BY DEF Touch, Place
<1>4. ReceiptFits(q)' /\ LetGo(q)'
  BY <1>3, GoesFits DEF GateInv, GateSteps, ReceiptFits, LetGo, Touch, Place
<1>5. QED
  BY <1>1, <1>2, <1>3, <1>4, GoesFits, EvidenceNext DEF GateSteps

LEMMA WriteAsideNext ==
    ASSUME GateInv, NEW q \in Pushes, WriteAside(q) PROVE GateInv'
<1>1. Goes(q, "place")
  BY DEF WriteAside
<1>2. ReceiptFits(q)' /\ LetGo(q)'
  BY <1>1, GoesFits DEF GateInv, GateSteps, ReceiptFits, LetGo, WriteAside, OnlyPush
<1>3. QED
  BY <1>1, <1>2, GoesFits, AloneNext DEF WriteAside, GateSteps

\* A push that kept a receipt is of a commit that carries a contract.
LEMMA KeepFailsNext ==
    ASSUME GateInv, NEW q \in Pushes, KeepFails(q) PROVE GateInv'
<1>1. Goes(q, "send")
  BY DEF KeepFails
<1>2. ReceiptFits(q)' /\ LetGo(q)'
  BY <1>1, GoesFits DEF GateInv, GateSteps, ReceiptFits, LetGo, KeepFails, OnlyPush
<1>3. QED
  BY <1>1, <1>2, GoesFits, AloneNext DEF KeepFails, GateSteps

LEMMA ListNext ==
    ASSUME GateInv, NEW q \in Pushes, List(q) PROVE GateInv'
<1> DEFINE r == [push[q] EXCEPT !.pc = "evict", !.excess = Excess(q)]
<1>1. Excess(q) \subseteq Receipts
  BY DEF Excess, Oldest, GateInv, GateTypeOK
<1>2. r \in PushRecord /\ push[q] \in PushRecord
  BY <1>1, RecordsFit DEF GateInv, GateSteps, GateTypeOK
<1>3. /\ push'[q] = r /\ r.pc = "evict"
      /\ r.receipt = push[q].receipt /\ r.sha = push[q].sha
  BY <1>2, PushMoves DEF List, GateInv, PushRecord
<1>4. ReceiptFits(q)' /\ LetGo(q)'
  <2> HIDE DEF r
  <2>1. QED
    BY <1>3 DEF GateInv, ReceiptFits, LetGo, List, OnlyPush
<1>5. QED
  BY <1>2, <1>4, AloneNext DEF List

LEMMA EvictNext ==
    ASSUME GateInv, NEW q \in Pushes, Evict(q) PROVE GateInv'
<1> DEFINE r == [push[q] EXCEPT !.pc = "send", !.excess = {}]
<1>1. r \in PushRecord /\ push[q] \in PushRecord
  BY RecordsFit DEF GateInv, GateSteps, GateTypeOK
<1>2. /\ push'[q] = r /\ r.pc = "send" /\ r.remote = push[q].remote
      /\ r.receipt = push[q].receipt /\ r.sha = push[q].sha
  BY <1>1, PushMoves DEF Evict, GateInv, PushRecord
<1>3. ReceiptFits(q)' /\ LetGo(q)'
  <2> HIDE DEF r
  <2>1. QED
    BY <1>2 DEF GateInv, ReceiptFits, LetGo, Evict
<1>4. /\ evidence' \subseteq evidence \cup {push[q].receipt}
      /\ older' \subseteq Receipts \X Receipts
      /\ push[q].receipt \in Verifies
  BY DEF Evict, GateInv, GateTypeOK, ReceiptFits
<1>5. QED
  BY <1>1, <1>3, <1>4, EvidenceNext DEF Evict

LEMMA SendNext ==
    ASSUME GateInv, NEW q \in Pushes, Send(q) PROVE GateInv'
<1>1. /\ push' \in [Pushes -> PushRecord]
      /\ \A p \in Pushes : p # q => push'[p] = push[p]
  BY EndsFits, PushMoves DEF GateInv, Send
<1>2. \A p \in Pushes : ReceiptFits(p)' /\ LetGo(p)'
  <2> TAKE p \in Pushes
  <2>1. CASE p = q
    BY <2>1, EndsFits DEF Send
  <2>2. CASE p # q
    BY <1>1, <2>2, OthersFit DEF GateInv, Send
  <2>3. QED
    BY <2>1, <2>2
<1>3. GateTypeOK' /\ HistoryIsWhole' /\ FilesAreWritten' /\ (evidence \subseteq Verifies)'
  <2>1. push[q].sha \in Commits
    BY DEF GateInv, GateTypeOK, LetGo, Send
  <2>2. QED
    BY <1>1, <2>1 DEF GateInv, GateTypeOK, HistoryIsWhole, FilesAreWritten, Send
<1>4. QED
  BY <1>2, <1>3 DEF GateInv

LEMMA KillNext ==
    ASSUME GateInv, NEW q \in Pushes, Kill(q) PROVE GateInv'
<1>1. CASE push[q].pc \in {"list", "evict"}
  <2> DEFINE r == [NotPushed EXCEPT !.pc = "unfinished"]
  <2>1. r \in PushRecord /\ Pushing(q, r)
    BY <1>1, RecordsFit DEF Kill, GateInv
  <2>2. push'[q] = r /\ r.pc = "unfinished" /\ r.sha = None
    BY <2>1, PushMoves DEF GateInv, NotPushed
  <2>3. ReceiptFits(q)' /\ LetGo(q)'
    <3> HIDE DEF r
    <3>1. QED
      BY <2>2 DEF ReceiptFits, LetGo
  <2>4. QED
    BY <2>1, <2>3, AloneNext DEF Kill
<1>2. CASE push[q].pc \notin {"list", "evict"}
  BY <1>2, EndsFits, AloneNext DEF Kill
<1>3. QED
  BY <1>1, <1>2

LEMMA GateNext == GateInv /\ [Next]_vars => GateInv'
<1> SUFFICES ASSUME GateInv, [Next]_vars PROVE GateInv'
  OBVIOUS
<1>1. CASE UNCHANGED vars
  BY <1>1 DEF vars, GateInv, GateTypeOK, HistoryIsWhole, FilesAreWritten, ReceiptFits, LetGo
<1>2. CASE MakeCommit \/ Fetch \/ MoveBranch
  BY <1>2, MakeCommitNext, FetchNext, MoveBranchNext
<1>3. ASSUME NEW q \in Pushes, Redirect(q) \/ WriteReport(q) PROVE GateInv'
  BY <1>3, RedirectNext, WriteReportNext
<1>4. ASSUME NEW q \in Pushes, PushStep(q) PROVE GateInv'
  BY <1>4, StartNext, AskNext, ReadNext, JudgeNext, CompareNext, PlacedNext, WriteAsideNext,
     KeepFailsNext, ListNext, EvictNext, SendNext, KillNext DEF PushStep
<1>5. QED
  BY <1>1, <1>2, <1>3, <1>4 DEF Next

\* "Kept evidence is those bytes, never a second read of the path", for every
\* set of commits, receipts and pushes.
THEOREM EvidenceVerified == Spec => []KeptIsVerified
<1>1. GateInv => KeptIsVerified
  <2> SUFFICES ASSUME GateInv, NEW q \in Pushes,
                      push[q].pc \in {"look", "place", "list", "evict", "send"},
                      push[q].sha \in Carries
               PROVE  push[q].receipt \in Verifies /\ Of[push[q].receipt] = push[q].sha
    BY DEF GateInv, KeptIsVerified
  <2>1. QED
    BY DEF GateInv, ReceiptFits
<1>2. QED
  BY <1>1, GateInit, GateNext, PTL DEF Spec

\* "Taking the gate off takes an explicit --no-verify", where nobody forces a
\* push: what a push adds follows on what the branch had, and the clone had it
\* when it was asked for.
THEOREM GateIsKept ==
    ASSUME Forces = FALSE
    PROVE  Spec => GateStaysOn
<1>1. GateInv /\ [Next]_vars =>
        \A q \in Pushes :
            push[q].pc = "send" /\ tip' # tip /\ push'[q].pc = "idle" /\ tip \in Carries
                => tip' \in Carries
  <2> SUFFICES ASSUME GateInv, [Next]_vars, NEW q \in Pushes,
                      push[q].pc = "send", tip' # tip, push'[q].pc = "idle", tip \in Carries
               PROVE  tip' \in Carries
    OBVIOUS
  <2>1. PICK p \in Pushes : Send(p)
    BY DEF Next, vars, PushStep, MakeCommit, Fetch, MoveBranch, Redirect, WriteReport, Start, Ask,
       Read, Judge, Compare, Touch, WriteAside, Place, KeepFails, List, Evict, Kill, OnlyPush
  <2>2. p = q
    BY <2>1, EndsFits, PushMoves DEF GateInv, Send
  <2>3. tip = push[q].remote /\ Fastforward(push[q].sha) /\ tip' = push[q].sha
    BY <2>1, <2>2 DEF Send
  <2>4. tip # None
    BY GateAssumption DEF GateAssumption
  <2>5. push[q].remote \in Ancestors[push[q].sha]
    BY <2>3, <2>4 DEF Fastforward
  <2>6. QED
    BY <2>3, <2>5 DEF GateInv, LetGo
<1>2. QED
  BY <1>1, GateInit, GateNext, PTL DEF Spec, GateStaysOn

-----------------------------------------------------------------------------
(***************************************************************************)
(* The bound.  A push that has placed its receipt and not evicted yet may  *)
(* leave one receipt too many; once it has listed what there is, what it   *)
(* picked makes up for it, whatever the others do in the meantime.  For    *)
(* several that evict at once this has to hold of any of them together.    *)
(***************************************************************************)
Evicting == {q \in Pushes : push[q].pc = "evict"}
Placed == {q \in Pushes : push[q].pc \in {"list", "evict", "unfinished"}}

Left(S) == evidence \ UNION {push[q].excess : q \in S}

AgesAreOrdered ==
    /\ \A x \in evidence : <<x, x>> \notin older
    /\ \A x, y, z \in evidence : <<x, y>> \in older /\ <<y, z>> \in older => <<x, z>> \in older

BoundInv ==
    /\ IsFiniteSet(evidence)
    /\ AgesAreOrdered
    /\ \A S \in SUBSET Evicting : Cardinality(Left(S)) + Cardinality(S) <= Budget + Cardinality(Placed)

\* Of a finite set at least n are the n oldest, unless there are fewer.
LEMMA OldestFill ==
    ASSUME AgesAreOrdered, NEW xs \in SUBSET evidence, IsFiniteSet(xs), NEW n \in Int
    PROVE  Oldest(n, xs) = xs \/ Cardinality(Oldest(n, xs)) >= n
<1> DEFINE Before(x) == {y \in xs : <<y, x>> \in older}
           rest == xs \ Oldest(n, xs)
<1>1. \A x \in xs : x \in Oldest(n, xs) <=> Cardinality(Before(x)) < n
  BY DEF Oldest
<1>2. \A x \in xs : IsFiniteSet(Before(x)) /\ Before(x) \in FiniteSubsetsOf(xs)
  BY FS_Subset DEF FiniteSubsetsOf
<1>3. SUFFICES ASSUME rest # {}
               PROVE  Cardinality(Oldest(n, xs)) >= n
  BY DEF Oldest
<1>4. PICK m \in rest : \A x \in rest : <<Before(x), Before(m)>> \notin StrictSubsetOrdering(xs)
  <2> DEFINE T == {Before(x) : x \in rest}
  <2>1. T \subseteq FiniteSubsetsOf(xs) /\ T # {}
    BY <1>2, <1>3
  <2>2. \E b \in T : \A a \in T : <<a, b>> \notin StrictSubsetOrdering(xs)
    <3> HIDE DEF T
    <3>1. QED
      BY <2>1, FS_StrictSubsetOrderingWellFounded, WFMin
  <2>3. QED
    BY <2>2
<1>5. Before(m) \subseteq Oldest(n, xs)
  <2> SUFFICES ASSUME NEW y \in Before(m), y \notin Oldest(n, xs)
               PROVE  FALSE
    OBVIOUS
  <2>1. y \in rest /\ y \in xs /\ m \in xs
    OBVIOUS
  <2>2. Before(y) \subseteq Before(m)
    BY <2>1 DEF AgesAreOrdered
  <2>3. y \notin Before(y)
    BY <2>1 DEF AgesAreOrdered
  <2>4. <<Before(y), Before(m)>> \in StrictSubsetOrdering(xs)
    <3>1. Before(y) # Before(m) /\ Before(y) \in SUBSET xs /\ Before(m) \in SUBSET xs
      BY <2>3
    <3> HIDE DEF Before
    <3>2. QED
      BY <2>2, <3>1 DEF StrictSubsetOrdering
  <2>5. QED
    BY <1>4, <2>1, <2>4
<1>6. IsFiniteSet(Oldest(n, xs))
  BY FS_Subset DEF Oldest
<1>7. /\ Cardinality(Before(m)) <= Cardinality(Oldest(n, xs))
      /\ Cardinality(Before(m)) \in Nat /\ Cardinality(Oldest(n, xs)) \in Nat
  BY <1>2, <1>5, <1>6, FS_Subset, FS_CardinalityType
<1>8. ~(Cardinality(Before(m)) < n)
  BY <1>1
<1>9. QED
  BY <1>7, <1>8

\* What is left of a listing is within the budget.
LEMMA ExcessFits ==
    ASSUME GateInv, BoundInv, NEW q \in Pushes
    PROVE  /\ IsFiniteSet(evidence \ Excess(q))
           /\ Cardinality(evidence \ Excess(q)) <= Budget
<1> DEFINE xs == evidence \ {push[q].receipt}
           n == Cardinality(evidence) - Budget
<1>1. Budget \in Nat \ {0}
  BY GateAssumption DEF GateAssumption
<1>2. IsFiniteSet(xs) /\ IsFiniteSet(evidence) /\ Cardinality(evidence) \in Nat /\ n \in Int
  <2>1. IsFiniteSet(evidence)
    BY DEF BoundInv
  <2>2. Cardinality(evidence) \in Nat
    BY <2>1, FS_CardinalityType
  <2>3. IsFiniteSet(xs)
    BY <2>1, FS_RemoveElement
  <2>4. QED
    BY <1>1, <2>1, <2>2, <2>3
<1>3. Excess(q) = Oldest(n, xs) /\ Excess(q) \subseteq evidence
  BY DEF Excess, Oldest
<1>4. /\ IsFiniteSet(evidence \ Excess(q)) /\ IsFiniteSet(Excess(q))
      /\ Cardinality(evidence \ Excess(q)) = Cardinality(evidence) - Cardinality(Excess(q))
  <2>1. evidence \cap Excess(q) = Excess(q)
    BY <1>3
  <2>2. IsFiniteSet(Excess(q))
    BY <1>2, <1>3, FS_Subset
  <2> HIDE DEF xs, n
  <2>3. QED
    BY <1>2, <2>1, <2>2, FS_Difference
<1>5. CASE Excess(q) = xs
  <2>1. evidence \ xs \subseteq {push[q].receipt}
    OBVIOUS
  <2>2. Cardinality(evidence \ xs) <= 1
    <3>1. IsFiniteSet({push[q].receipt}) /\ Cardinality({push[q].receipt}) = 1
      BY FS_Singleton
    <3>2. QED
      BY <2>1, <3>1, FS_Subset
  <2>3. QED
    BY <1>1, <1>4, <1>5, <2>2, FS_CardinalityType
<1>6. CASE Cardinality(Excess(q)) >= n
  BY <1>1, <1>2, <1>4, <1>6, FS_CardinalityType
<1>7. QED
  BY <1>2, <1>3, <1>5, <1>6, OldestFill DEF BoundInv

LEMMA PlacedFinite ==
    /\ IsFiniteSet(Placed) /\ Cardinality(Placed) \in Nat
    /\ Evicting \subseteq Placed
    /\ \A S \in SUBSET Evicting :
         IsFiniteSet(S) /\ Cardinality(S) \in Nat /\ Cardinality(S) <= Cardinality(Placed)
<1>1. IsFiniteSet(Pushes)
  BY GateAssumption DEF GateAssumption
<1>2. IsFiniteSet(Placed) /\ Cardinality(Placed) \in Nat
  BY <1>1, FS_Subset, FS_CardinalityType DEF Placed
<1>3. Evicting \subseteq Placed
  BY DEF Evicting, Placed
<1>4. ASSUME NEW S \in SUBSET Evicting
      PROVE  IsFiniteSet(S) /\ Cardinality(S) \in Nat /\ Cardinality(S) <= Cardinality(Placed)
  BY <1>2, <1>3, <1>4, FS_Subset, FS_CardinalityType
<1>5. QED
  BY <1>2, <1>3, <1>4

LEMMA LeftFinite ==
    ASSUME BoundInv, NEW S
    PROVE  IsFiniteSet(Left(S)) /\ Cardinality(Left(S)) \in Nat
<1>1. IsFiniteSet(evidence) /\ Left(S) \subseteq evidence
  BY DEF BoundInv, Left
<1>2. QED
  BY <1>1, FS_Subset, FS_CardinalityType

LEMMA BoundInit == Init => BoundInv
<1> SUFFICES ASSUME Init PROVE BoundInv
  OBVIOUS
<1>1. IsFiniteSet(evidence) /\ AgesAreOrdered
  BY FS_EmptySet DEF Init, AgesAreOrdered
<1>2. ASSUME NEW S \in SUBSET Evicting
      PROVE  Cardinality(Left(S)) + Cardinality(S) <= Budget + Cardinality(Placed)
  <2>1. S = {} /\ Left(S) = {}
    BY DEF Init, Evicting, NotPushed, Left
  <2>2. QED
    BY <2>1, FS_EmptySet, PlacedFinite, GateAssumption DEF GateAssumption
<1>3. QED
  BY <1>1, <1>2 DEF BoundInv

\* Steps that leave the evidence alone, and what those that evict have picked.
LEMMA BoundKept ==
    ASSUME BoundInv, UNCHANGED <<evidence, older>>,
           Evicting' \subseteq Evicting, Placed' = Placed,
           \A q \in Evicting' : push'[q].excess = push[q].excess
    PROVE  BoundInv'
<1>1. ASSUME NEW S \in SUBSET Evicting' PROVE Left(S)' = Left(S)
  BY <1>1 DEF Left
<1>2. IsFiniteSet(evidence)' /\ AgesAreOrdered'
  BY DEF BoundInv, AgesAreOrdered
<1>3. ASSUME NEW S \in SUBSET Evicting'
      PROVE  Cardinality(Left(S)') + Cardinality(S) <= Budget + Cardinality(Placed')
  BY <1>1, <1>3 DEF BoundInv
<1>4. QED
  BY <1>2, <1>3 DEF BoundInv

\* A step of one push: the others are where they were.
LEMMA PlacedMoves ==
    ASSUME GateTypeOK, NEW q \in Pushes, NEW r \in PushRecord, Pushing(q, r)
    PROVE  /\ Evicting' = (Evicting \ {q}) \cup (IF r.pc = "evict" THEN {q} ELSE {})
           /\ Placed' = (Placed \ {q})
                \cup (IF r.pc \in {"list", "evict", "unfinished"} THEN {q} ELSE {})
           /\ \A p \in Pushes : p # q => push'[p].excess = push[p].excess
<1>1. push'[q] = r /\ \A p \in Pushes : p # q => push'[p] = push[p]
  BY PushMoves
<1>2. QED
  BY <1>1 DEF Evicting, Placed

\* One more receipt, by a push that is counted from now on.
LEMMA PlacedBound ==
    ASSUME GateInv, BoundInv, NEW q \in Pushes, Touch(q) \/ Place(q)
    PROVE  BoundInv'
<1> DEFINE x == push[q].receipt
<1>1. Newest(x) /\ Goes(q, "list") /\ push[q].pc \in {"look", "place"}
  BY DEF Touch, Place
<1>2. IsFiniteSet(evidence) /\ AgesAreOrdered
  BY DEF BoundInv
<1>3. IsFiniteSet(evidence')
  BY <1>1, <1>2, FS_AddElement DEF Newest
<1>4. AgesAreOrdered'
  BY <1>1, <1>2 DEF Newest, AgesAreOrdered
<1>5. /\ Evicting' = Evicting /\ q \notin Evicting
      /\ Placed' = Placed \cup {q} /\ q \notin Placed
      /\ \A p \in Pushes : p # q => push'[p].excess = push[p].excess
  <2> DEFINE r == [push[q] EXCEPT !.pc = "list"]
  <2>1. r \in PushRecord /\ Pushing(q, r)
    BY <1>1, GoesFits DEF GateSteps
  <2>2. r.pc = "list"
    BY DEF GateInv, GateTypeOK, PushRecord
  <2>3. q \notin Evicting /\ q \notin Placed
    BY <1>1 DEF Evicting, Placed
  <2> HIDE DEF r
  <2>4. /\ Evicting' = Evicting \ {q} /\ Placed' = (Placed \ {q}) \cup {q}
        /\ \A p \in Pushes : p # q => push'[p].excess = push[p].excess
    BY <2>1, <2>2, PlacedMoves DEF GateInv
  <2>5. QED
    BY <2>3, <2>4
<1>6. Cardinality(Placed') = Cardinality(Placed) + 1
  BY <1>5, PlacedFinite, FS_AddElement
<1>7. ASSUME NEW S \in SUBSET Evicting'
      PROVE  Cardinality(Left(S)') + Cardinality(S) <= Budget + Cardinality(Placed')
  <2>1. Left(S)' \subseteq Left(S) \cup {x}
    BY <1>1, <1>5, <1>7 DEF Left, Newest, Evicting
  <2>2. /\ IsFiniteSet(Left(S) \cup {x})
        /\ Cardinality(Left(S) \cup {x}) <= Cardinality(Left(S)) + 1
        /\ Cardinality(Left(S)) \in Nat
    BY LeftFinite, FS_AddElement
  <2>3. /\ Cardinality(Left(S)') <= Cardinality(Left(S) \cup {x})
        /\ Cardinality(Left(S)') \in Nat /\ Cardinality(Left(S) \cup {x}) \in Nat
    BY <2>1, <2>2, FS_Subset, FS_CardinalityType
  <2>4. /\ Cardinality(Left(S)) + Cardinality(S) <= Budget + Cardinality(Placed)
        /\ Cardinality(S) \in Nat /\ Cardinality(Placed) \in Nat /\ Budget \in Nat
    BY <1>5, <1>7, PlacedFinite, GateAssumption DEF BoundInv, GateAssumption
  <2>5. QED
    BY <1>6, <2>2, <2>3, <2>4
<1>8. QED
  BY <1>3, <1>4, <1>7 DEF BoundInv

\* What a push picks is more than the budget can hold, whatever the others do.
LEMMA ListBound ==
    ASSUME GateInv, BoundInv, NEW q \in Pushes, List(q)
    PROVE  BoundInv'
<1> DEFINE r == [push[q] EXCEPT !.pc = "evict", !.excess = Excess(q)]
<1>1. r \in PushRecord /\ r.pc = "evict" /\ r.excess = Excess(q)
  <2>1. Excess(q) \subseteq Receipts
    BY DEF Excess, Oldest, GateInv, GateTypeOK
  <2>2. push[q] \in PushRecord
    BY DEF GateInv, GateTypeOK
  <2>3. QED
    BY <2>1, <2>2 DEF PushRecord, GateSteps
<1>2. Pushing(q, r) /\ push[q].pc = "list" /\ UNCHANGED <<evidence, older>>
  BY DEF List, OnlyPush
<1> HIDE DEF r
<1>3. push'[q].excess = Excess(q)
  BY <1>1, <1>2, PushMoves DEF GateInv
<1>4. /\ Evicting' = Evicting \cup {q} /\ Placed' = Placed
      /\ \A p \in Pushes : p # q => push'[p].excess = push[p].excess
  <2>1. q \notin Evicting /\ q \in Placed
    BY <1>2 DEF Evicting, Placed
  <2>2. QED
    BY <1>1, <1>2, <2>1, PlacedMoves DEF GateInv
<1>5. IsFiniteSet(evidence)' /\ AgesAreOrdered'
  BY <1>2 DEF BoundInv, AgesAreOrdered
<1>6. ASSUME NEW S \in SUBSET Evicting'
      PROVE  Cardinality(Left(S)') + Cardinality(S) <= Budget + Cardinality(Placed')
  <2>1. CASE q \in S
    <3>1. Left(S)' \subseteq evidence \ Excess(q)
      BY <1>2, <1>3, <2>1 DEF Left
    <3>2. /\ Cardinality(Left(S)') <= Cardinality(evidence \ Excess(q))
          /\ Cardinality(Left(S)') \in Nat /\ Cardinality(evidence \ Excess(q)) \in Nat
          /\ Cardinality(evidence \ Excess(q)) <= Budget
      BY <3>1, ExcessFits, FS_Subset, FS_CardinalityType
    <3>3. S \subseteq Placed /\ IsFiniteSet(Placed)
      BY <1>4, <1>2, PlacedFinite DEF Placed
    <3>4. /\ Cardinality(S) <= Cardinality(Placed)
          /\ Cardinality(S) \in Nat /\ Cardinality(Placed) \in Nat
      BY <3>3, FS_Subset, FS_CardinalityType
    <3>5. QED
      BY <1>4, <3>2, <3>4, GateAssumption DEF GateAssumption
  <2>2. CASE q \notin S
    <3>1. S \in SUBSET Evicting /\ Left(S)' = Left(S)
      BY <1>2, <1>4, <2>2 DEF Left, Evicting
    <3>2. QED
      BY <1>4, <3>1 DEF BoundInv
  <2>3. QED
    BY <2>1, <2>2
<1>7. QED
  BY <1>5, <1>6 DEF BoundInv

\* A push that evicts what it picked is no longer counted.
LEMMA EvictBound ==
    ASSUME GateInv, BoundInv, NEW q \in Pushes, Evict(q)
    PROVE  BoundInv'
<1> DEFINE r == [push[q] EXCEPT !.pc = "send", !.excess = {}]
<1>1. r \in PushRecord /\ r.pc = "send"
  <2>1. push[q] \in PushRecord
    BY DEF GateInv, GateTypeOK
  <2>2. QED
    BY <2>1 DEF PushRecord, GateSteps
<1>2. Pushing(q, r) /\ push[q].pc = "evict" /\ evidence' = evidence \ push[q].excess
  BY DEF Evict
<1> HIDE DEF r
<1>3. /\ Evicting' = Evicting \ {q} /\ q \in Evicting
      /\ Placed' = Placed \ {q} /\ q \in Placed
      /\ \A p \in Pushes : p # q => push'[p].excess = push[p].excess
  <2>1. q \in Evicting /\ q \in Placed
    BY <1>2 DEF Evicting, Placed
  <2>2. QED
    BY <1>1, <1>2, <2>1, PlacedMoves DEF GateInv
<1>4. IsFiniteSet(evidence') /\ AgesAreOrdered'
  <2>1. IsFiniteSet(evidence')
    BY <1>2, FS_Difference DEF BoundInv
  <2>2. AgesAreOrdered'
    BY <1>2 DEF BoundInv, AgesAreOrdered, Evict
  <2>3. QED
    BY <2>1, <2>2
<1>5. Cardinality(Placed') = Cardinality(Placed) - 1
  BY <1>3, PlacedFinite, FS_RemoveElement
<1>6. ASSUME NEW S \in SUBSET Evicting'
      PROVE  Cardinality(Left(S)') + Cardinality(S) <= Budget + Cardinality(Placed')
  <2>1. Left(S)' = Left(S \cup {q})
    BY <1>2, <1>3, <1>6 DEF Left, Evicting
  <2>2. S \cup {q} \in SUBSET Evicting /\ S \in SUBSET Evicting /\ q \notin S
    BY <1>3, <1>6
  <2>3. Cardinality(S \cup {q}) = Cardinality(S) + 1
    BY <2>2, PlacedFinite, FS_AddElement
  <2>4. /\ Cardinality(Left(S \cup {q})) + Cardinality(S \cup {q}) <= Budget + Cardinality(Placed)
        /\ Cardinality(Left(S \cup {q})) \in Nat
    BY <2>2, LeftFinite DEF BoundInv
  <2>5. Cardinality(S) \in Nat /\ Cardinality(Placed) \in Nat /\ Budget \in Nat
    BY <2>2, PlacedFinite, GateAssumption DEF GateAssumption
  <2>6. QED
    BY <1>5, <2>1, <2>3, <2>4, <2>5
<1>7. QED
  BY <1>4, <1>6 DEF BoundInv

\* Everything else a push does leaves the evidence and the count alone.
LEMMA AloneBound ==
    ASSUME GateInv, BoundInv, UNCHANGED <<evidence, older>>,
           NEW q \in Pushes, NEW r \in PushRecord, Pushing(q, r), r.pc # "evict",
           push[q].pc \in {"list", "evict", "unfinished"}
               <=> r.pc \in {"list", "evict", "unfinished"}
    PROVE  BoundInv'
<1>1. /\ Evicting' \subseteq Evicting /\ Placed' = Placed
      /\ \A p \in Evicting' : push'[p].excess = push[p].excess
  <2>1. /\ Evicting' = Evicting \ {q}
        /\ Placed' = (Placed \ {q})
             \cup (IF r.pc \in {"list", "evict", "unfinished"} THEN {q} ELSE {})
        /\ \A p \in Pushes : p # q => push'[p].excess = push[p].excess
    BY PlacedMoves DEF GateInv
  <2>2. q \in Placed <=> r.pc \in {"list", "evict", "unfinished"}
    BY DEF Placed
  <2>3. QED
    BY <2>1, <2>2 DEF Evicting
<1>2. QED
  BY <1>1, BoundKept

LEMMA BoundNext == GateInv /\ BoundInv /\ [Next]_vars => BoundInv'
<1> SUFFICES ASSUME GateInv, BoundInv, [Next]_vars PROVE BoundInv'
  OBVIOUS
<1>1. CASE UNCHANGED <<push, evidence, older>>
  <2>1. Evicting' = Evicting /\ Placed' = Placed
    BY <1>1 DEF Evicting, Placed
  <2>2. QED
    BY <1>1, <2>1, BoundKept
<1>2. CASE UNCHANGED vars \/ MakeCommit \/ Fetch \/ MoveBranch
        \/ \E q \in Pushes : Redirect(q) \/ WriteReport(q)
  BY <1>1, <1>2 DEF vars, MakeCommit, Fetch, MoveBranch, Redirect, WriteReport
<1>3. ASSUME NEW q \in Pushes, PushStep(q) PROVE BoundInv'
  <2>1. CASE Start(q)
    <3>1. PICK c \in here :
            Pushing(q, [NotPushed EXCEPT !.pc = "ask", !.sha = c, !.remote = tip])
      BY <2>1 DEF Start
    <3>2. [NotPushed EXCEPT !.pc = "ask", !.sha = c, !.remote = tip] \in PushRecord
      BY DEF GateInv, GateTypeOK, NotPushed, PushRecord, GateSteps
    <3>3. QED
      BY <2>1, <3>1, <3>2, AloneBound DEF Start, OnlyPush, NotPushed
  <2>2. CASE \E x \in Receipts :
              /\ Pushing(q, [push[q] EXCEPT !.pc = "judge", !.receipt = x])
              /\ push[q].pc = "read" /\ OnlyPush
    <3>1. PICK x \in Receipts : Pushing(q, [push[q] EXCEPT !.pc = "judge", !.receipt = x])
      BY <2>2
    <3>2. [push[q] EXCEPT !.pc = "judge", !.receipt = x] \in PushRecord /\ push[q] \in PushRecord
      BY RecordsFit DEF GateInv, GateSteps, GateTypeOK
    <3>3. [push[q] EXCEPT !.pc = "judge", !.receipt = x].pc = "judge"
      BY <3>2 DEF PushRecord
    <3>4. QED
      BY <2>2, <3>1, <3>2, <3>3, AloneBound DEF OnlyPush
  <2>3. CASE /\ Ends(q) /\ UNCHANGED <<evidence, older>>
             /\ push[q].pc \notin {"list", "evict", "unfinished"}
    BY <2>3, EndsFits, AloneBound DEF NotPushed
  <2>4. CASE \E pc \in GateSteps \ {"list", "evict", "unfinished"} :
              /\ Goes(q, pc) /\ UNCHANGED <<evidence, older>>
              /\ push[q].pc \notin {"list", "evict", "unfinished"}
    <3>1. PICK pc \in GateSteps \ {"list", "evict", "unfinished"} : Goes(q, pc)
      BY <2>4
    <3>2. /\ [push[q] EXCEPT !.pc = pc] \in PushRecord
          /\ Pushing(q, [push[q] EXCEPT !.pc = pc])
          /\ [push[q] EXCEPT !.pc = pc].pc = pc
      BY <3>1, GoesFits DEF GateInv, GateTypeOK, PushRecord
    <3>3. QED
      BY <2>4, <3>2, AloneBound
  <2>5. CASE /\ Pushing(q, [NotPushed EXCEPT !.pc = "unfinished"])
             /\ push[q].pc \in {"list", "evict"} /\ OnlyPush
    BY <2>5, RecordsFit, AloneBound DEF GateInv, OnlyPush, NotPushed
  <2>6. CASE Read(q)
    <3>1. file[q] \in Receipts \cup {None}
      BY DEF GateInv, GateTypeOK
    <3>2. QED
      BY <2>2, <2>3, <2>6, <3>1 DEF Read, OnlyPush
  <2>7. CASE Ask(q) \/ Judge(q) \/ Compare(q) \/ WriteAside(q) \/ KeepFails(q) \/ Send(q)
    BY <2>3, <2>4, <2>7
    DEF Ask, Judge, Compare, WriteAside, KeepFails, Send, OnlyPush, GateSteps
  <2>8. CASE Kill(q)
    <3>1. push[q].pc # "unfinished"
      BY <2>8 DEF Kill, GateInv, LetGo
    <3>2. QED
      BY <2>3, <2>5, <2>8, <3>1 DEF Kill, OnlyPush
  <2>9. QED
    BY <1>3, <2>1, <2>6, <2>7, <2>8, PlacedBound, ListBound, EvictBound DEF PushStep
<1>4. QED
  BY <1>2, <1>3 DEF Next

\* "Bounded like .sykli/receipts/", for every budget and however many pushes
\* place, list and evict at once.
THEOREM EvidenceStaysBounded == Spec => []EvidenceIsBounded
<1>1. BoundInv => EvidenceIsBounded
  <2> SUFFICES ASSUME BoundInv PROVE EvidenceIsBounded
    OBVIOUS
  <2>1. {} \in SUBSET Evicting /\ Left({}) = evidence
    BY DEF Left
  <2>2. Cardinality(evidence) + Cardinality({}) <= Budget + Cardinality(Placed)
    BY <2>1 DEF BoundInv
  <2>3. Cardinality({}) = 0 /\ Cardinality(evidence) \in Nat
    BY FS_EmptySet, FS_CardinalityType DEF BoundInv
  <2>4. QED
    BY <2>2, <2>3 DEF EvidenceIsBounded, Placed
<1>2. QED
  BY <1>1, GateInit, GateNext, BoundInit, BoundNext, PTL DEF Spec
===============================================================================
