-------------------------------- MODULE Stores --------------------------------
(***************************************************************************)
(* The clients of a store, and the two stores side by side: whatever the   *)
(* clients ask is asked of a SqliteStore and of a MemoryStore, "which one  *)
(* is a deployment choice".  A client is a thread with a kernel of its     *)
(* own; the kernels share the store of their process, the host.  Clients   *)
(* write through Kernel.write, which picks the id, invalidate and read,    *)
(* inside and outside of transaction blocks, which may nest.               *)
(*                                                                         *)
(* The host may end at any moment and start again.  The MemoryStore ends   *)
(* with it: it has no part in what follows.                                *)
(***************************************************************************)
EXTENDS MemoryStore, SqliteStore, Migrations

CONSTANTS
    Kernels,    \* the clients' kernels
    Host,       \* the process that runs them
    MaxProbes,  \* _MAX_ID_PROBES
    MaxDepth,   \* bound on the blocks that are open at once
    MaxRows,    \* bound on the records when a write begins
    MaxCount,   \* bound on the ids a kernel has given out when a write begins
    MaxCalls,   \* bound on the writes, invalidations and blocks clients begin
    MaxEarly,   \* bound on those they begin while a process has the file not open yet
    MaxDeaths   \* bound on the ends of processes

ASSUME StoresAssumption ==
    /\ Host \in Processes /\ "nobody" \notin Kernels
    /\ MaxProbes \in Nat \ {0}
    /\ {MaxDepth, MaxRows, MaxCount, MaxCalls, MaxEarly, MaxDeaths} \subseteq Nat
    /\ MaxCount + MaxProbes <= MaxNumber + 1

VARIABLES
    clock,      \* time.time()
    holder,     \* who holds the store's lock between its calls: who has a block open
    counters,   \* _counters of each kernel
    writing,    \* the record a `write` is trying to append, and how often it has
    paired,     \* whether the host has not ended yet
    calls,      \* the writes, invalidations and blocks begun
    deaths      \* how often a process has ended

clientVars == <<clock, holder, counters, writing, paired, calls, deaths>>
storesVars == <<memVars, sqlVars, migrationVars, clientVars>>

NoOne    == "nobody"
NoWrite  == [tried |-> 0]
Writing(k) == writing[k] # NoWrite

\* The RLock: free, or this client's.
CanUse(k) == IsOpen(Host) /\ holder \in {k, NoOne}

\* The client can make a call.
Ready(k) == CanUse(k) /\ ~Writing(k)

\* The client begins something.
Begin ==
    /\ calls < IF \A p \in Processes : IsOpen(p) THEN MaxCalls ELSE MaxEarly
    /\ calls' = calls + 1

\* What the MemoryStore does while it is there to be asked.
InMemory(A) == IF paired THEN A ELSE UNCHANGED memVars

StoresInit ==
    /\ MemInit /\ SqlInit /\ MigrationsInit
    /\ clock = 0 /\ holder = NoOne
    /\ counters = [k \in Kernels |-> [key \in Keys |-> 0]]
    /\ writing = [k \in Kernels |-> NoWrite]
    /\ paired = TRUE /\ calls = 0 /\ deaths = 0

-----------------------------------------------------------------------------
\* write.  The record is made, and stamped, before the store is asked.

\* Mutant: the counter stays where it is.
Attempt_Same(k, c, tried) ==
    /\ writing' = [writing EXCEPT ![k] =
                     [what |-> c, n |-> counters[k][Key(c)] + 1, stamp |-> clock, tried |-> tried]]
    /\ UNCHANGED counters

\* _next_id and the record with it, the `tried`-th of this write.
Attempt(k, c, tried) ==
    LET n == counters[k][Key(c)] + 1
    IN  /\ counters' = [counters EXCEPT ![k][Key(c)] = n]
        /\ writing' = [writing EXCEPT ![k] =
                         [what |-> c, n |-> n, stamp |-> clock, tried |-> tried]]

IdOf(w) == [key |-> Key(w.what), n |-> w.n]

BeginWrite(k, c) ==
    /\ IsOpen(Host) /\ ~Writing(k)
    /\ Begin
    /\ Cardinality(DOMAIN conn) < MaxRows
    /\ counters[k][Key(c)] < MaxCount
    /\ Attempt(k, c, 1)
    /\ UNCHANGED <<memVars, sqlVars, migrationVars, clock, holder, paired, deaths>>

\* The id is free.
AppendRecord(k) ==
    /\ CanUse(k) /\ Writing(k)
    /\ LET w == writing[k]
       IN  /\ SqlAppend(IdOf(w), w.what, w.stamp)
           /\ InMemory(MemAppend(IdOf(w), w.what, w.stamp))
    /\ writing' = [writing EXCEPT ![k] = NoWrite]
    /\ UNCHANGED <<migrationVars, clock, holder, counters, paired, calls, deaths>>

\* RecordIdConflict from both stores.
Conflict(k) ==
    /\ CanUse(k) /\ Writing(k)
    /\ SqlTaken(IdOf(writing[k]))
    /\ paired => MemTaken(IdOf(writing[k]))
    /\ UNCHANGED <<memVars, sqlVars, migrationVars, clock, holder, paired, calls, deaths>>

\* The next id is tried.
Probe(k) ==
    /\ Conflict(k)
    /\ writing[k].tried < MaxProbes
    /\ Attempt(k, writing[k].what, writing[k].tried + 1)

\* RuntimeError: the client is told there is no id.
GiveUp(k) ==
    /\ Conflict(k)
    /\ writing[k].tried = MaxProbes
    /\ writing' = [writing EXCEPT ![k] = NoWrite]
    /\ UNCHANGED counters

\* append raises for another reason.
WriteRaises(k) ==
    /\ CanUse(k) /\ Writing(k)
    /\ writing' = [writing EXCEPT ![k] = NoWrite]
    /\ UNCHANGED <<memVars, sqlVars, migrationVars, clock, holder, counters, paired, calls, deaths>>

-----------------------------------------------------------------------------
\* The other calls.

InvalidateRecord(k, id, why) ==
    /\ Ready(k)
    /\ Begin
    /\ SqlInvalidate(id, why)
    /\ InMemory(MemInvalidate(id, why))
    /\ UNCHANGED <<migrationVars, clock, holder, counters, writing, paired, deaths>>

\* A query, which checks the deadlines of these records on the way.
Query(k, inConn, inMem) ==
    /\ Ready(k)
    /\ SqlRead(inConn, clock)
    /\ InMemory(MemRead(inMem, clock))
    /\ UNCHANGED <<migrationVars, clientVars>>

Get(k, id)        == Query(k, {id}, {id})
ListSlot(k, slot) == Query(k, InSlot(conn, slot), InSlot(mem, slot))
Find(k, slot, kind, trace) ==
    Query(k, SqlWalked(slot, kind, trace, clock), MemWalked(slot, kind, trace, clock))

\* Only a SqliteStore has it; a client that calls it has that store.
Persistent(k, slot) == Query(k, ListPersistent(slot), {})

-----------------------------------------------------------------------------
\* Blocks.

EnterBlock(k) ==
    /\ Ready(k) /\ sqlDepth < MaxDepth
    /\ Begin
    /\ SqlEnter /\ InMemory(MemEnter)
    /\ holder' = k
    /\ UNCHANGED <<migrationVars, clock, counters, writing, paired, deaths>>

\* The lock goes with the outermost block.
Released == IF sqlDepth = 1 THEN NoOne ELSE holder

LeaveBlock(k) ==
    /\ Ready(k) /\ holder = k
    /\ SqlLeave /\ InMemory(MemLeave)
    /\ holder' = Released
    /\ UNCHANGED <<migrationVars, clock, counters, writing, paired, calls, deaths>>

\* An exception ends the block, the client's own or one of a call in it.
FailBlock(k) ==
    /\ Ready(k) /\ holder = k
    /\ SqlFail /\ InMemory(MemFail)
    /\ holder' = Released
    /\ UNCHANGED <<migrationVars, clock, counters, writing, paired, calls, deaths>>

-----------------------------------------------------------------------------
\* The world.

Tick ==
    /\ clock < MaxClock
    /\ clock' = clock + 1
    /\ UNCHANGED <<memVars, sqlVars, migrationVars, holder, counters, writing, paired, calls, deaths>>

\* A process ends, and what it had in memory.
EndProcess(p) ==
    /\ deaths < MaxDeaths
    /\ deaths' = deaths + 1
    /\ CloseFile(p)
    /\ IF p = Host
       THEN /\ SqlDie
            /\ holder' = NoOne
            /\ counters' = [k \in Kernels |-> [key \in Keys |-> 0]]
            /\ writing' = [k \in Kernels |-> NoWrite]
            /\ paired' = FALSE
       ELSE UNCHANGED <<sqlVars, holder, counters, writing, paired>>
    /\ UNCHANGED <<memVars, clock, calls>>

OpenFile(p) == Migrate(p) /\ UNCHANGED <<memVars, sqlVars, clientVars>>

Client(k) ==
    \/ \E c \in Contents : BeginWrite(k, c)
    \/ AppendRecord(k) \/ Probe(k) \/ GiveUp(k) \/ WriteRaises(k)
    \/ \E id \in DOMAIN conn, why \in Why : InvalidateRecord(k, id, why)
    \/ \E id \in DOMAIN conn : Get(k, id)
    \/ \E c \in Contents : \/ ListSlot(k, c.slot)
                           \/ Find(k, c.slot, c.kind, c.trace)
                           \/ Persistent(k, c.slot)
    \/ EnterBlock(k) \/ LeaveBlock(k) \/ FailBlock(k)

StoresNext ==
    \/ \E k \in Kernels : Client(k)
    \/ \E p \in Processes : OpenFile(p) \/ EndProcess(p)
    \/ Tick

StoresSpec == StoresInit /\ [][StoresNext]_storesVars

\* A process that is started goes on opening the file, and tries again when that
\* raises: that is what its user does.
FairStores == StoresSpec /\ \A p \in Processes : WF_storesVars(OpenFile(p))
=============================================================================
