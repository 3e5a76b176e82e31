------------------------------ MODULE PushGate ------------------------------
(***************************************************************************)
(* `sykli hook pre-push` on a gated branch (pre_push, receipt_for,         *)
(* keep_evidence and prune_evidence of src/src/hook.rs), run by pushes     *)
(* from several worktrees of one clone at once.  A push is gated by what   *)
(* its commit carries and by what the branch had; an accepted push keeps   *)
(* its receipt as evidence in the clone, and evicts the oldest past a      *)
(* budget.  Beside them runs write receipts, commits are made and fetched, *)
(* and others move the branch; a push may be killed anywhere.              *)
(***************************************************************************)
EXTENDS Integers, FiniteSets

CONSTANTS
    Pushes,         \* pushes of one commit at a time, from a worktree each
    Commits,
    Ancestors,      \* Ancestors[c]: commit c and all before it
    Carries,        \* the commits that carry a root contract
    Receipts,
    Of,             \* Of[x]: the commit whose tree receipt x is a run of
    Verifies,       \* the receipts that pass verify --commit for it
    Budget,         \* SYKLI_RECEIPT_BUDGET
    Forces          \* whether pushes from this clone may force

None == "none"

ASSUME GateAssumption ==
    /\ Ancestors \in [Commits -> SUBSET Commits] /\ \A c \in Commits : c \in Ancestors[c]
    /\ \A c \in Commits : \A b \in Ancestors[c] : Ancestors[b] \subseteq Ancestors[c]
    /\ Carries \subseteq Commits /\ None \notin Commits \cup Receipts
    /\ Of \in [Receipts -> Commits] /\ Verifies \subseteq Receipts
    /\ IsFiniteSet(Pushes) /\ Budget \in Nat \ {0} /\ Forces \in BOOLEAN

VARIABLES
    tip,            \* the branch at the remote
    tracking,       \* refs/remotes/REMOTE/BRANCH
    here,           \* the commits in this clone
    file,           \* file[q]: the receipt in .sykli/receipt.json of q's worktree
    written,        \* the receipts that runs have written
    evidence,       \* sykli/receipts
    older,          \* the pairs of them of which the first was modified before
    push            \* push[q]: where push q is

vars == <<tip, tracking, here, file, written, evidence, older, push>>

NotPushed == [pc |-> "idle", sha |-> None, remote |-> None, receipt |-> None, excess |-> {}]

-----------------------------------------------------------------------------
(* The repository and the remote *)

Fastforward(c) == tip = None \/ tip \in Ancestors[c]

\* Somebody commits here, on top of what is here;
MakeCommit ==
    /\ \E c \in Commits \ here : Ancestors[c] \ {c} \subseteq here /\ here' = here \cup {c}
    /\ UNCHANGED <<tip, tracking, file, written, evidence, older, push>>

\* fetches the branch, to its tracking branch or not;
Fetch ==
    /\ tip # None
    /\ here' = here \cup Ancestors[tip]
    /\ tracking' \in {tracking, tip}
    /\ UNCHANGED <<tip, file, written, evidence, older, push>>

\* or moves it from another clone.
MoveBranch ==
    /\ \E c \in Commits : Fastforward(c) /\ tip' = c
    /\ UNCHANGED <<tracking, here, file, written, evidence, older, push>>

\* A run's report is redirected to the file: emptied first, then written with
\* bytes no other run wrote.
Redirect(q) ==
    /\ file' = [file EXCEPT ![q] = None]
    /\ UNCHANGED <<tip, tracking, here, written, evidence, older, push>>

WriteReport(q) ==
    /\ file[q] = None
    /\ \E x \in Receipts \ written :
        file' = [file EXCEPT ![q] = x] /\ written' = written \cup {x}
    /\ UNCHANGED <<tip, tracking, here, evidence, older, push>>

-----------------------------------------------------------------------------
(* The gate *)

Pushing(q, record) == push' = [push EXCEPT ![q] = record]
Goes(q, pc) == Pushing(q, [push[q] EXCEPT !.pc = pc])
Ends(q) == Pushing(q, NotPushed)
OnlyPush == UNCHANGED <<tip, tracking, here, file, written, evidence, older>>

\* git says what it pushes over what.
Start(q) ==
    /\ push[q].pc = "idle"
    /\ \E c \in here : Pushing(q, [NotPushed EXCEPT !.pc = "ask", !.sha = c, !.remote = tip])
    /\ OnlyPush

\* Mutant: the tracking branch alone tells.
TrackingTip(q) == IF q \in Pushes THEN tracking ELSE None

\* remote_tip: what the branch points at before, as far as the clone knows.
RemoteTip(q) == IF push[q].remote \in here THEN push[q].remote ELSE tracking

\* One batch answers: a commit that carries a contract is judged by it; one
\* that does not takes the gate off, when the branch had one, or is not gated.
Ask(q) ==
    /\ push[q].pc = "ask"
    /\ IF push[q].sha \in Carries THEN Goes(q, "read")
       ELSE IF RemoteTip(q) \in Carries THEN Ends(q) ELSE Goes(q, "send")
    /\ OnlyPush

\* receipt_for: the receipt is read,
Read(q) ==
    /\ push[q].pc = "read"
    /\ LET x == file[q]
       IN IF x # None /\ Of[x] = push[q].sha
          THEN Pushing(q, [push[q] EXCEPT !.pc = "judge", !.receipt = x])
          ELSE Ends(q)
    /\ OnlyPush

Verified(q) == file[q] \in Verifies /\ Of[file[q]] = push[q].sha

\* judged, where it is read again,
Judge(q) ==
    /\ push[q].pc = "judge"
    /\ IF Verified(q) THEN Goes(q, "compare") ELSE Ends(q)
    /\ OnlyPush

\* Mutant: what is kept is a second read of the file.
CompareNothing(q) ==
    /\ push[q].pc = "compare"
    /\ IF file[q] # None
       THEN Pushing(q, [push[q] EXCEPT !.pc = "look", !.receipt = file[q]])
       ELSE Ends(q)
    /\ OnlyPush

\* and read once more: only bytes that did not change have verified.
Compare(q) ==
    /\ push[q].pc = "compare"
    /\ IF file[q] = push[q].receipt THEN Goes(q, "look") ELSE Ends(q)
    /\ OnlyPush

-----------------------------------------------------------------------------
(* keep_evidence *)

Newest(x) ==
    /\ evidence' = evidence \cup {x}
    /\ older' = {o \in older : x \notin {o[1], o[2]}} \cup (evidence \ {x}) \X {x}

\* Evidence that is there already becomes the newest;
Touch(q) ==
    /\ push[q].pc = "look" /\ push[q].receipt \in evidence
    /\ Newest(push[q].receipt)
    /\ Goes(q, "list")
    /\ UNCHANGED <<tip, tracking, here, file, written>>

\* else it is written aside,
WriteAside(q) ==
    /\ push[q].pc = "look" /\ push[q].receipt \notin evidence
    /\ Goes(q, "place")
    /\ OnlyPush

\* and renamed into place, over another push's copy if there is one by now.
\* It is as old as the copy that was written aside, which is taken to be new.
Place(q) ==
    /\ push[q].pc = "place"
    /\ Newest(push[q].receipt)
    /\ Goes(q, "list")
    /\ UNCHANGED <<tip, tracking, here, file, written>>

\* Not to be had for keeping, or to be written: the push goes ahead without.
KeepFails(q) ==
    /\ push[q].pc \in {"look", "place"}
    /\ Goes(q, "send")
    /\ OnlyPush

\* The `over` oldest of these.
Oldest(over, xs) == {x \in xs : Cardinality({y \in xs : <<y, x>> \in older}) < over}

\* Mutant: what was just kept is left out before the others are counted.
ExcessOfOthers(q) ==
    LET others == evidence \ {push[q].receipt}
    IN Oldest(Cardinality(others) - Budget, others)

\* The oldest past the budget, never what was just kept.
Excess(q) == Oldest(Cardinality(evidence) - Budget, evidence \ {push[q].receipt})

\* prune_evidence lists what is there, and picks;
List(q) ==
    /\ push[q].pc = "list"
    /\ Pushing(q, [push[q] EXCEPT !.pc = "evict", !.excess = Excess(q)])
    /\ OnlyPush

\* what it picked is removed, though it was renewed meanwhile.
Evict(q) ==
    /\ push[q].pc = "evict"
    /\ evidence' = evidence \ push[q].excess
    /\ older' = {o \in older : {o[1], o[2]} \subseteq evidence'}
    /\ Pushing(q, [push[q] EXCEPT !.pc = "send", !.excess = {}])
    /\ UNCHANGED <<tip, tracking, here, file, written>>

-----------------------------------------------------------------------------
\* The remote takes the commit if the branch is still where it was said to be.
Send(q) ==
    /\ push[q].pc = "send"
    /\ IF tip = push[q].remote /\ (Fastforward(push[q].sha) \/ Forces)
       THEN tip' = push[q].sha /\ tracking' = push[q].sha
       ELSE UNCHANGED <<tip, tracking>>
    /\ Ends(q)
    /\ UNCHANGED <<here, file, written, evidence, older>>

\* Killed after it placed a receipt, it leaves one more than it found; bound:
\* nothing is pushed from that worktree again.
Kill(q) ==
    /\ push[q].sha # None
    /\ IF push[q].pc \in {"list", "evict"}
       THEN Pushing(q, [NotPushed EXCEPT !.pc = "unfinished"])
       ELSE Ends(q)
    /\ OnlyPush

-----------------------------------------------------------------------------
Init ==
    /\ tip = None /\ tracking = None /\ here = {}
    /\ file = [q \in Pushes |-> None] /\ written = {}
    /\ evidence = {} /\ older = {}
    /\ push = [q \in Pushes |-> NotPushed]

PushStep(q) ==
    \/ Start(q) \/ Ask(q) \/ Read(q) \/ Judge(q) \/ Compare(q)
    \/ Touch(q) \/ WriteAside(q) \/ Place(q) \/ KeepFails(q) \/ List(q) \/ Evict(q) \/ Send(q) \/ Kill(q)

Next ==
    \/ MakeCommit \/ Fetch \/ MoveBranch
    \/ \E q \in Pushes : Redirect(q) \/ WriteReport(q) \/ PushStep(q)

Spec == Init /\ [][Next]_vars

-----------------------------------------------------------------------------
(* Properties *)

\* "Taking the gate off takes an explicit --no-verify": a push that moves a
\* branch whose commit carries a contract moves it to one that does, wherever
\* the branch was moved from and whatever of it was fetched meanwhile.
GateStaysOn ==
    [][\A q \in Pushes :
        push[q].pc = "send" /\ tip' # tip /\ push'[q].pc = "idle" /\ tip \in Carries
            => tip' \in Carries]_vars

\* "Kept evidence is those bytes, never a second read of the path": a gated
\* commit goes out on a receipt that verified for it, and nothing else is kept,
\* though the file it is read from is written over at any time.
KeptIsVerified ==
    /\ evidence \subseteq Verifies
    /\ \A q \in Pushes :
        push[q].pc \in {"look", "place", "list", "evict", "send"} /\ push[q].sha \in Carries
            => push[q].receipt \in Verifies /\ Of[push[q].receipt] = push[q].sha

\* "Bounded like .sykli/receipts/": however pushes list, place and evict at
\* once, past the budget there is at most one receipt for each push that has
\* placed its own and not evicted yet, or was killed between the two.
EvidenceIsBounded ==
    Cardinality(evidence) <= Budget +
        Cardinality({q \in Pushes : push[q].pc \in {"list", "evict", "unfinished"}})

=============================================================================
