----------------------------- MODULE RunStatus -----------------------------
(***************************************************************************)
(* `sykli status --run` beside the run it asks about (src/src/runs.rs      *)
(* `status`, `view`).  A reader loads the journal under its shared lock,   *)
(* lets it go, then looks at the run's lease and, one by one, at the       *)
(* attempts the journal it loaded left open: the run goes on in between.   *)
(* One reader asks at a time; it writes nothing.                           *)
(***************************************************************************)
EXTENDS DurableRun

VARIABLES
    reader,         \* where the reader is
    seen,           \* the journal as it loaded it
    live,           \* whether the run's lease was held when it looked
    shown           \* what it says of each open attempt it has looked at

statusVars == <<vars, reader, seen, live, shown>>

-----------------------------------------------------------------------------
NothingSeen == [generation |-> 0, attempts |-> <<>>, decided |-> [t \in Tasks |-> Undecided],
                stopped |-> FALSE, concluded |-> "none"]

SeenOpen == {a \in DOMAIN seen.attempts : seen.attempts[a].end = "none"}

\* A run without its first record cannot be shown.
LoadJournal ==
    /\ reader = "idle"
    /\ generation # 0
    /\ reader' = "loaded"
    /\ seen' = [generation |-> generation, attempts |-> attempts, decided |-> decided,
                stopped |-> stopped, concluded |-> concluded]
    /\ shown' = [a \in {} |-> "none"]
    /\ UNCHANGED <<vars, live>>

\* Mutant: a run is taken to be coordinated while an attempt of it is.
LookAtAttemptLeases ==
    /\ reader = "loaded"
    /\ reader' = "looking"
    /\ live' = \E a \in SeenOpen : AttemptHeld(a)
    /\ UNCHANGED <<vars, seen, shown>>

LookAtLease ==
    /\ reader = "loaded"
    /\ reader' = "looking"
    /\ live' = (lease # NoOne)
    /\ UNCHANGED <<vars, seen, shown>>

\* Mutant: only the recorded group is looked at, not the attempt's lease.
LookAtGroup(a) ==
    /\ reader = "looking"
    /\ a \in SeenOpen \ DOMAIN shown
    /\ shown' = [b \in DOMAIN shown \cup {a} |->
                   IF b # a THEN shown[b]
                   ELSE IF live \/ (seen.attempts[a].started /\ GroupExists(a))
                        THEN "running" ELSE "lost"]
    /\ UNCHANGED <<vars, reader, seen, live>>

\* `attempt_alive`, asked only when no coordinator is there.
LookAtAttempt(a) ==
    /\ reader = "looking"
    /\ a \in SeenOpen \ DOMAIN shown
    /\ shown' = [b \in DOMAIN shown \cup {a} |->
                   IF b # a THEN shown[b]
                   ELSE IF live \/ AttemptHeld(a) \/ (seen.attempts[a].started /\ GroupExists(a))
                        THEN "running" ELSE "lost"]
    /\ UNCHANGED <<vars, reader, seen, live>>

Answer ==
    /\ reader = "looking"
    /\ SeenOpen = DOMAIN shown
    /\ reader' = "answered"
    /\ UNCHANGED <<vars, seen, live, shown>>

AskAgain ==
    /\ reader = "answered"
    /\ reader' = "idle"
    /\ seen' = NothingSeen
    /\ live' = FALSE
    /\ shown' = [a \in {} |-> "none"]
    /\ UNCHANGED vars

\* The state `view` gives the run.
ShownState ==
    CASE seen.concluded # "none" -> "completed"
      [] seen.concluded = "none" /\ seen.stopped -> "interrupted"
      [] seen.concluded = "none" /\ ~seen.stopped /\ live ->
           IF seen.attempts # <<>> \/ \E t \in Tasks : seen.decided[t] # Undecided
           THEN "running" ELSE "requested"
      [] OTHER -> "lost"

StatusInit ==
    /\ Init
    /\ reader = "idle"
    /\ seen = NothingSeen
    /\ live = FALSE
    /\ shown = [a \in {} |-> "none"]

ReaderStep ==
    \/ LoadJournal \/ LookAtLease \/ (\E a \in AttemptIds : LookAtAttempt(a))
    \/ Answer \/ AskAgain

StatusNext ==
    \/ Next /\ UNCHANGED <<reader, seen, live, shown>>
    \/ ReaderStep

StatusSpec == StatusInit /\ [][StatusNext]_statusVars

-----------------------------------------------------------------------------
\* An attempt a status calls lost is over: its process does not run and is
\* never started later, whatever the run did since its journal was read;
\* unless it closed its lease and that journal did not name its group yet.
ShownLostIsOver ==
    \A a \in DOMAIN shown :
        shown[a] = "lost" /\ proc[a] = "alive" =>
            a \in closed /\ ~seen.attempts[a].started

\* A run shown as lost is left: while its generation stays the one that was
\* read, nobody works on it, whatever happened between the two looks.
ShownLostIsLeft ==
    reader = "answered" /\ ShownState = "lost" /\ generation = seen.generation =>
        \A c \in Coordinators : co[c].generation = generation => At(c, "reopened")
=============================================================================
