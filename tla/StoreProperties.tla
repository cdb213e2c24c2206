---------------------------- MODULE StoreProperties ----------------------------
(***************************************************************************)
(* What the stores owe their clients, and migrations those who open a file.*)
(***************************************************************************)
EXTENDS Stores

\* An attempt to write, the first of its write or a later one.
Attempts == [what : Contents, n : 1..MaxNumber, stamp : Times, tried : 1..MaxProbes]

\* The boards hold rows; a log is kept for the blocks that are open and for no
\* longer; who has a block open holds the lock, and the stores agree on how deep.
StoresTypeOK ==
    /\ IsBoard(mem) /\ IsBoard(conn) /\ IsBoard(file)
    /\ undo \in Seq(Undoing)
    /\ memDepth = 0 => undo = << >>
    /\ clock \in Times /\ holder \in Kernels \cup {NoOne}
    /\ sqlDepth \in Nat /\ (sqlDepth > 0 <=> holder # NoOne)
    /\ paired => memDepth = sqlDepth
    /\ counters \in [Kernels -> [Keys -> 0..MaxNumber]]
    /\ \A k \in Kernels : Writing(k) => writing[k] \in Attempts
    /\ schema \subseteq {"schema_version"} \cup UNION {{Scripts[v][n] : n \in DOMAIN Scripts[v]} :
                                                     v \in DOMAIN Scripts}
    /\ versions \subseteq DOMAIN Scripts

\* A MemoryStore keeps the promise of `transaction`: its writes in place and its
\* log are a landed board and a pending one ("SqliteStore rolls back; this store
\* must too"; MemoryStore.transaction).
MemoryBoard == INSTANCE TransactionalStore WITH
    landed <- Unmarked(Undone(mem, undo)), pending <- Unmarked(mem), depth <- memDepth

MemoryIsTransactional == MemoryBoard!Spec

\* A SqliteStore keeps it with its file and its connection, through the end of its
\* process and the next one's opening of the file (SqliteStore.transaction).
SqliteBoard == INSTANCE TransactionalStore WITH
    landed <- Unmarked(file), pending <- Unmarked(conn), depth <- sqlDepth

SqliteIsTransactional == SqliteBoard!Spec

\* The closures of the log, called from the last to the first, come to what Undone
\* says (the loop of MemoryStore.transaction).
UndoIsTheLoop == UndoneInTurn(mem, undo) = Undone(mem, undo)

\* The records arrived in the order of their stamps.
InStampOrder == \A i, j \in DOMAIN conn : conn[i].at < conn[j].at => conn[i].stamp <= conn[j].stamp

\* "The two stores must agree": whatever was written, invalidated, rolled back and
\* read, and whichever deadlines each of them has noticed, both answer get and
\* list_slot alike and count the same verdicts.  find_active_by_kind finds a record
\* in both or in neither, and the same one if they arrived in the order of their
\* stamps, which two kernels do not guarantee (MemoryStore, SqliteStore).
StoresAgree ==
    paired =>
        /\ Seen(mem, clock) = Seen(conn, clock)
        /\ \A c \in Contents :
             LET inMem  == MemFound(c.slot, c.kind, c.trace, clock)
                 inConn == SqlFound(c.slot, c.kind, c.trace, clock)
             IN  /\ inMem = {} <=> inConn = {}
                 /\ InStampOrder => inMem = inConn
        /\ \A why \in Why :
             CountInvalidatedByReason(why)
               = Cardinality({i \in DOMAIN mem : mem[i].status = "INVALIDATED" /\ mem[i].reason = why})

\* What has landed stays: whoever writes, fails, dies and starts again with its
\* counters at zero, no record in the file is ever replaced or lost, and none that
\* was settled is ACTIVE again (the ids of Kernel.write, append and transaction).
LandedStaysStep ==
    \A i \in DOMAIN file :
        /\ i \in DOMAIN file'
        /\ <<file'[i].content, file'[i].stamp, file'[i].at>>
             = <<file[i].content, file[i].stamp, file[i].at>>
        /\ file'[i].status = "ACTIVE" => file[i].status = "ACTIVE"

LandedStays == [][LandedStaysStep]_storesVars

\* A write has only passed over ids that are taken, one for each time it has tried:
\* when it gives up there are _MAX_ID_PROBES records under its slot and trace
\* ("reached only by a store that is misbehaving": or by one that has that many
\* records of the trace, and a kernel that has just started).
ProbedIdsTaken ==
    \A k \in Kernels : Writing(k) =>
        \A n \in 1..(writing[k].tried - 1) :
            [IdOf(writing[k]) EXCEPT !.n = @ - n] \in DOMAIN conn

\* The version in the file tells the truth: everything the scripts up to it create
\* is there, and all of it that the program of a process knows of when the process
\* has the file open, whoever ran or died in migrate at the same time.
Created(v) == UNION {{Scripts[u][n] : n \in DOMAIN Scripts[u]} : u \in 1..v}

VersionTellsTruth ==
    /\ \A v \in versions : Created(v) \subseteq schema
    /\ \A p \in Processes : IsOpen(p) => Created(Knows[p]) \subseteq schema

\* Every process opens the file in the end: one that another has overtaken, or that
\* died in the middle, does when it tries again ("Running migrate() twice is safe").
FilesOpen == \A p \in Processes : []<>IsOpen(p)
=============================================================================
