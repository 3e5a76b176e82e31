---------------------------- MODULE Verification ----------------------------
(***************************************************************************)
(* What a run records of the inputs its contract declares, and how         *)
(* `sykli verify` judges that record: the operators of input_record,       *)
(* declared_input_records, PathFacts::file_behind, InputsAt::judge and     *)
(* judge of src/src/main.rs.                                               *)
(*                                                                         *)
(* A working tree and a git tree both give every path an entry.  Git       *)
(* stores a file's bytes cleaned and checks them out smudged (line endings *)
(* and filters); a link's bytes are its text.  SHA-256 is taken to be      *)
(* injective: a digest is what it is the digest of.                        *)
(***************************************************************************)
EXTENDS Integers, FiniteSets, Sequences

CONSTANTS
    Paths,          \* the paths of the repository outside .sykli
    ContractPath, LockPath,
    Ignored,        \* those git ignores, and so no tree has
    Bytes, NoBytes,
    Clean, Smudge,  \* what git stores of a file, and checks out of a blob
    Target,         \* where a link of these bytes leads: a path, or
    Elsewhere,      \* to a directory of the repository or nothing in it,
    Outside,        \* or out of the repository
    Contracts,      \* the tasks, in order, of a contract of these bytes
    Pins            \* the contract a lock of these bytes pins

ASSUME VerificationAssumption ==
    /\ {ContractPath, LockPath} \subseteq Paths \ Ignored
    /\ {Elsewhere, Outside} \cap Paths = {}
    /\ Clean \in [Bytes -> Bytes] /\ Smudge \in [Bytes -> Bytes]
    /\ \A b \in Bytes : Clean[Smudge[Clean[b]]] = Clean[b] /\ Clean[Clean[b]] = Clean[b]
    /\ Target \in [Bytes -> Paths \cup {Elsewhere, Outside}]
    /\ NoBytes \notin Bytes

-----------------------------------------------------------------------------
Nothing == [kind |-> "none", bytes |-> NoBytes, exec |-> FALSE]
File(b, x) == [kind |-> "file", bytes |-> b, exec |-> x]
Link(b) == [kind |-> "link", bytes |-> b, exec |-> FALSE]

\* snapshot: the tree git writes of the working tree d.
TreeOf(d) ==
    [p \in Paths |-> IF p \in Ignored THEN Nothing
                     ELSE IF d[p].kind = "file" THEN File(Clean[d[p].bytes], d[p].exec)
                     ELSE d[p]]

Tasks(c) == {Contracts[c][i] : i \in 1..Len(Contracts[c])}
Declared(c) == UNION {task.inputs : task \in Tasks(c)}

\* load_pinned, and ContractNames::judged for a commit: there is a contract,
\* and the lock beside it, if there is one, pins it.
Loads(d) ==
    /\ d[ContractPath].kind = "file"
    /\ d[ContractPath].bytes \in DOMAIN Contracts
    /\ d[LockPath].kind = "file" => Pins[d[LockPath].bytes] = d[ContractPath].bytes

\* The path of the file that a read of p gives, following the links among the
\* paths that are known; Elsewhere if it leads to none of them.
Behind(d, known, p) ==
    LET follow[n \in 0..Cardinality(known), q \in Paths \cup {Elsewhere, Outside}] ==
            IF n = 0 \/ q \notin known \/ d[q].kind = "none" THEN Elsewhere
            ELSE IF d[q].kind = "link" THEN follow[n - 1, Target[d[q].bytes]]
            ELSE q
    IN follow[Cardinality(known), p]

\* input_record: a file's bytes and execute bit, or the text of a link that
\* leads to no file.
Unread == [sha |-> NoBytes, exec |-> FALSE, link |-> FALSE]
Read(d, p) ==
    LET file == Behind(d, Paths, p)
    IN IF file # Elsewhere THEN [sha |-> d[file].bytes, exec |-> d[file].exec, link |-> FALSE]
       ELSE IF d[p].kind = "link" THEN [Unread EXCEPT !.sha = d[p].bytes, !.link = TRUE]
       ELSE Unread

\* declared_input_records, of the working tree d and the run's tree t: what
\* was read, the entry t has there, and the execute bit t has of the file.
Record(d, t, declared, p) ==
    LET read == Read(d, p)
        file == Behind(t, declared, p)
    IN [sha |-> read.sha, link |-> read.link,
        object |-> IF read = Unread THEN Nothing ELSE t[p],
        exec |-> IF file = Elsewhere \/ read.link THEN read.exec ELSE t[file].exec]
Records(d, t, c) == [p \in Declared(c) |-> Record(d, t, Declared(c), p)]

-----------------------------------------------------------------------------
(* verify --commit: the record r of p against a commit's tree t *)

\* An input the commit does not have, that a task makes.
Generated(c, t, p) ==
    /\ t[p].kind = "none"
    /\ \E task \in Tasks(c) : p \in task.outputs

\* Mutant: the text of a link vouches for whatever it leads to.
JudgeLinkText(t, declared, p, r) ==
    t[p].kind = "link" /\ r.sha = t[p].bytes

\* A link recorded by its own text leads, by the names, to no file.
JudgeLink(t, declared, p, r) ==
    /\ t[p].kind = "link"
    /\ r.sha = t[p].bytes
    /\ LET to == Target[t[p].bytes]
       IN /\ to # Outside
          /\ to \in Paths => \/ t[to].kind = "none"
                             \/ t[to].kind = "link" /\ to \in declared

\* A file, through declared links: its bytes as stored or as checked out, and
\* its execute bit.
JudgeFile(t, declared, p, r) ==
    LET file == Behind(t, declared, p)
    IN /\ file # Elsewhere
       /\ r.sha \in {t[file].bytes, Smudge[t[file].bytes]}
       /\ r.exec = t[file].exec

Judge(c, t, p, r) ==
    IF r.sha = NoBytes THEN t[p].kind = "none"
    ELSE \/ Generated(c, t, p)
         \/ /\ t[p].kind # "none"
            /\ r.object = t[p]
            /\ IF r.link THEN JudgeLink(t, Declared(c), p, r)
                         ELSE JudgeFile(t, Declared(c), p, r)

\* judge: the contract and lock the commit carries, its tree, every record,
\* and the outcome.
VerifiesFor(receipt, t) ==
    /\ Loads(t)
    /\ receipt.contract = t[ContractPath].bytes
    /\ receipt.tree = t
    /\ \A p \in Declared(receipt.contract) :
            Judge(receipt.contract, t, p, receipt.records[p])
    /\ \A task \in Tasks(receipt.contract) :
            receipt.outcome[task.name] \in {"passed", "cached"}

-----------------------------------------------------------------------------
\* What a read of p may give in a checkout of t: files as they are stored, or
\* as a checkout makes them.
InCheckout(t, p) ==
    {Read(t, p),
     Read([q \in Paths |-> IF t[q].kind = "file"
                           THEN [t[q] EXCEPT !.bytes = Smudge[@]] ELSE t[q]], p)}

=============================================================================
