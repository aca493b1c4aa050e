----------------------------- MODULE UsageCounters -----------------------------
(***************************************************************************)
(* Site-usage counters: events counted in memory, written out by the       *)
(* periodic flush, by a switch of the storage and at shutdown, to MongoDB  *)
(* in chunks or to PostgreSQL in one transaction; and the copy of the old  *)
(* MongoDB history into PostgreSQL (analytics.py, analytics_store.py,      *)
(* analytics_migration.py, migrate_analytics_to_postgres.py).  One server  *)
(* process.  A counter is a document of one day.                           *)
(***************************************************************************)
EXTENDS Integers, FiniteSets, FiniteSetsExt, Functions

CONSTANTS
    UsageDays,      \* 1 .. n, the days the clock goes through
    Names,          \* what is counted on a day
    MaxKeys,        \* ANALYTICS_MAX_BUFFER_KEYS
    ChunkSize,      \* ANALYTICS_FLUSH_CHUNK
    UsageEvents,         \* bound: events counted
    WriteFaults,    \* bound: failed writes
    Switches,       \* bound: of the storage
    Stops           \* bound: shutdowns and crashes

ASSUME UsageAssumption ==
    /\ {MaxKeys, ChunkSize} \subseteq Nat \ {0}
    /\ {UsageEvents, WriteFaults, Switches, Stops} \subseteq Nat
    /\ UsageDays \subseteq Nat /\ 1 \in UsageDays /\ IsFiniteSet(UsageDays) /\ IsFiniteSet(Names)

Keys == UsageDays \X Names

Stores == {"mongo", "postgres"}

\* Three callers of _flush_once: the flusher task, switch_storage and stop.
Flushers == {"tick", "switch", "stop"}

VARIABLES
    today,
    process,        \* "up", "stopping" or "down"
    storage,        \* the store in use and the day it was chosen, 0 if it was not (_mode_override)
    choice,         \* the same, as saved in platform_settings
    buffer,         \* Keys -> counted and not handed to a flush (_deltas)
    pending,        \* _flush_pending_keys
    flights,        \* Flushers -> the flush under way
    counters,       \* Stores -> Keys -> what the store holds, in PostgreSQL without the history
    history,        \* Keys -> what PostgreSQL took over from MongoDB
    doneKeys,         \* counters whose MongoDB document is marked as imported
    inMemory,           \* the running copy of the history
    tally           \* history: how often things happened

usageVars == <<today, process, storage, choice, buffer, pending, flights, counters, history,
               doneKeys, inMemory, tally>>

NoUsage == [k \in Keys |-> 0]

Plus(f, g) == [k \in Keys |-> f[k] + g[k]]

Only(f, S) == [k \in Keys |-> IF k \in S THEN f[k] ELSE 0]

Held(f) == {k \in Keys : f[k] > 0}

NoFlush == [store |-> "none", rest |-> NoUsage, goal |-> "none", asked |-> 0]

Flying == {f \in Flushers : flights[f].store # "none"}

NoCopy == [pc |-> "idle", seen |-> {}, doc |-> NoUsage, until |-> 0]

UsageInit ==
    /\ today = 1
    /\ process = "up"
    /\ storage = [mode |-> "mongo", since |-> 0]
    /\ choice = [mode |-> "mongo", since |-> 0]
    /\ buffer = NoUsage
    /\ pending = {}
    /\ flights = [f \in Flushers |-> NoFlush]
    /\ counters = [s \in Stores |-> NoUsage]
    /\ history = NoUsage
    /\ doneKeys = {}
    /\ inMemory = NoCopy
    /\ tally = [counted |-> NoUsage, twice |-> NoUsage, lost |-> NoUsage, faults |-> 0, stops |-> 0,
                switches |-> 0, overlapped |-> FALSE, said |-> "none", short |-> {}]

NextDay ==
    /\ today + 1 \in UsageDays
    /\ today' = today + 1
    /\ UNCHANGED <<process, storage, choice, buffer, pending, flights, counters, history, doneKeys, inMemory, tally>>

\* Faulty: the keys of the flush under way are not counted.
RoomBeside(k) == k \in Held(buffer) \/ Cardinality(Held(buffer)) < MaxKeys

\* A new key needs room beside the keys of the buffer and of the flush under way.
Room(k) == k \in Held(buffer) \/ Cardinality(Held(buffer) \cup pending) < MaxKeys

Count(n) ==
    LET k == <<today, n>> IN
    /\ process = "up"
    /\ FoldFunction(+, 0, tally.counted) < UsageEvents
    /\ Room(k)
    /\ buffer' = [buffer EXCEPT ![k] = @ + 1]
    /\ tally' = [tally EXCEPT !.counted[k] = @ + 1]
    /\ UNCHANGED <<today, process, storage, choice, pending, flights, counters, history, doneKeys, inMemory>>

-------------------------------------------------------------------------------
(* _flush_once. *)

\* The buffer is handed over whole, to the store of that moment.
Launch(f, goal) ==
    /\ flights' = [flights EXCEPT ![f] = [store |-> storage.mode, rest |-> buffer, goal |-> goal,
                                          asked |-> today]]
    /\ buffer' = NoUsage
    /\ pending' = Held(buffer)
    /\ tally' = [tally EXCEPT !.overlapped = @ \/ Flying # {}]

MidnightPasses ==
    /\ process = "up"
    /\ "tick" \notin Flying
    /\ buffer # NoUsage
    /\ Launch("tick", "none")
    /\ UNCHANGED <<today, process, storage, choice, counters, history, doneKeys, inMemory>>

Land(f) ==
    /\ flights' = [flights EXCEPT ![f].rest = NoUsage]
    /\ pending' = {}

\* The next part of the dictionary, in whatever order it has.
Chunks(f) ==
    {S \in SUBSET Held(flights[f].rest) :
        S # {} /\ Cardinality(S) = Min({ChunkSize, Cardinality(Held(flights[f].rest))})}

\* bulk_write of a chunk; after the last one the flush has ended.
WriteChunk(f) ==
    /\ process # "down"
    /\ flights[f].store = "mongo"
    /\ \E S \in Chunks(f) :
         /\ counters' = [counters EXCEPT !["mongo"] = Plus(@, Only(flights[f].rest, S))]
         /\ flights' = [flights EXCEPT ![f].rest = Only(@, Keys \ S)]
         /\ pending' = IF S = Held(flights[f].rest) THEN {} ELSE pending
    /\ UNCHANGED <<today, process, storage, choice, buffer, history, doneKeys, inMemory, tally>>

\* Faulty: without the chunk that failed.
GivenBackAfter(f, C) == Only(flights[f].rest, Keys \ C)

\* PartialFlushError: what is not known to be written, the failed chunk C included.
GivenBack(f, C) == flights[f].rest

\* A bulk that is reported failed has written some of its counters all the same.
ChunkFails(f) ==
    /\ process # "down"
    /\ flights[f].store = "mongo"
    /\ tally.faults < WriteFaults
    /\ \E C \in Chunks(f) : \E S \in SUBSET C :
         /\ counters' = [counters EXCEPT !["mongo"] = Plus(@, Only(flights[f].rest, S))]
         /\ tally' = [tally EXCEPT !.faults = @ + 1,
                                   !.twice = Plus(@, Only(flights[f].rest, S))]
         /\ buffer' = Plus(buffer, GivenBack(f, C))
    /\ Land(f)
    /\ UNCHANGED <<today, process, storage, choice, history, doneKeys, inMemory>>

WriteRows(f) ==
    /\ process # "down"
    /\ flights[f].store = "postgres"
    /\ flights[f].rest # NoUsage
    /\ counters' = [counters EXCEPT !["postgres"] = Plus(@, flights[f].rest)]
    /\ Land(f)
    /\ UNCHANGED <<today, process, storage, choice, buffer, history, doneKeys, inMemory, tally>>

\* A transaction that fails or outlasts _PG_WRITE_TIMEOUT_S, the commit included.
RowsFail(f, committed) ==
    /\ process # "down"
    /\ flights[f].store = "postgres"
    /\ flights[f].rest # NoUsage
    /\ tally.faults < WriteFaults
    /\ LET landed == IF committed THEN flights[f].rest ELSE NoUsage IN
       /\ counters' = [counters EXCEPT !["postgres"] = Plus(@, landed)]
       /\ tally' = [tally EXCEPT !.faults = @ + 1, !.twice = Plus(@, landed)]
    /\ buffer' = Plus(buffer, flights[f].rest)
    /\ Land(f)
    /\ UNCHANGED <<today, process, storage, choice, history, doneKeys, inMemory>>

DayEnded(f) == f \in Flying /\ flights[f].rest = NoUsage

TickEnds ==
    /\ process # "down"
    /\ DayEnded("tick")
    /\ flights' = [flights EXCEPT !["tick"] = NoFlush]
    /\ UNCHANGED <<today, process, storage, choice, buffer, pending, counters, history, doneKeys, inMemory, tally>>

-------------------------------------------------------------------------------
(* switch_storage. *)

\* The choice is saved first; what was counted until then goes to the store in use.
AskSwitch(m) ==
    /\ process = "up"
    /\ "switch" \notin Flying
    /\ m # storage.mode
    /\ tally.switches < Switches
    /\ choice' = [mode |-> m, since |-> today]
    /\ flights' = [flights EXCEPT !["switch"] = [store |-> storage.mode, rest |-> buffer, goal |-> m,
                                                asked |-> today]]
    /\ buffer' = NoUsage
    /\ pending' = IF buffer = NoUsage THEN pending ELSE Held(buffer)
    /\ tally' = [tally EXCEPT !.switches = @ + 1,
                              !.overlapped = @ \/ (Flying # {} /\ buffer # NoUsage)]
    /\ UNCHANGED <<today, process, storage, counters, history, doneKeys, inMemory>>

\* Whatever came of that flush.
Switch ==
    /\ process = "up"
    /\ DayEnded("switch")
    /\ storage' = [mode |-> flights["switch"].goal, since |-> flights["switch"].asked]
    /\ flights' = [flights EXCEPT !["switch"] = NoFlush]
    /\ UNCHANGED <<today, process, choice, buffer, pending, counters, history, doneKeys, inMemory, tally>>

-------------------------------------------------------------------------------
(* stop, and the end of the process. *)

BeginStop ==
    /\ process = "up"
    /\ tally.stops < Stops
    /\ process' = "stopping"
    /\ flights' = [flights EXCEPT !["stop"] = [store |-> storage.mode, rest |-> buffer, goal |-> "none",
                                              asked |-> today]]
    /\ buffer' = NoUsage
    /\ pending' = IF buffer = NoUsage THEN pending ELSE Held(buffer)
    /\ tally' = [tally EXCEPT !.stops = @ + 1,
                              !.overlapped = @ \/ (Flying # {} /\ buffer # NoUsage)]
    /\ UNCHANGED <<today, storage, choice, counters, history, doneKeys, inMemory>>

InFlight(k) == flights["tick"].rest[k] + flights["switch"].rest[k] + flights["stop"].rest[k]

\* What is in memory then is gone, the part the cancelled flusher hands back included.
Dies ==
    /\ process' = "down"
    /\ buffer' = NoUsage
    /\ pending' = {}
    /\ flights' = [f \in Flushers |-> NoFlush]
    /\ inMemory' = NoCopy
    /\ UNCHANGED <<today, storage, choice, counters, history, doneKeys>>

EndStop ==
    /\ process = "stopping"
    /\ DayEnded("stop")
    /\ tally' = [tally EXCEPT !.lost = [k \in Keys |-> @[k] + buffer[k] + InFlight(k)]]
    /\ Dies

CountingStops ==
    /\ process # "down"
    /\ tally.stops < Stops
    /\ tally' = [tally EXCEPT !.stops = @ + 1,
                              !.lost = [k \in Keys |-> @[k] + buffer[k] + InFlight(k)]]
    /\ Dies

\* A choice that cannot be read leaves the default of the environment.
StartAgain(readable) ==
    /\ process = "down"
    /\ process' = "up"
    /\ storage' = IF readable THEN choice ELSE [mode |-> "mongo", since |-> 0]
    /\ tally' = [tally EXCEPT !.overlapped = FALSE, !.said = "none", !.short = {}]
    /\ UNCHANGED <<today, choice, buffer, pending, flights, counters, history, doneKeys, inMemory>>

-------------------------------------------------------------------------------
(* The copy of the history, one document at a time, and its check. *)

StartCopy ==
    /\ process = "up"
    /\ storage.mode = "postgres"
    /\ inMemory.pc = "idle"
    /\ inMemory' = [NoCopy EXCEPT !.pc = "scan",
                              !.until = IF storage.since = 0 THEN today ELSE storage.since]
    /\ tally' = [tally EXCEPT !.said = "none", !.short = {}]
    /\ UNCHANGED <<today, process, storage, choice, buffer, pending, flights, counters, history, doneKeys>>

Wanted == {k \in Held(counters["mongo"]) \ inMemory.seen : k[1] \leq inMemory.until}

ReadDocument(k) ==
    /\ process # "down"
    /\ inMemory.pc = "scan"
    /\ k \in Wanted
    /\ inMemory' = [inMemory EXCEPT !.pc = "read", !.seen = @ \cup {k}, !.doc = Only(counters["mongo"], {k})]
    /\ UNCHANGED <<today, process, storage, choice, buffer, pending, flights, counters, history, doneKeys, tally>>

\* Faulty: the ledger is not asked.
NewInLedgerAlways(S) == S

NewInLedger(S) == S \ doneKeys

\* One transaction: the mark in the ledger, and the counts it lets through.
CopyDocument ==
    /\ process # "down"
    /\ inMemory.pc = "read"
    /\ history' = Plus(history, Only(inMemory.doc, NewInLedger(Held(inMemory.doc))))
    /\ doneKeys' = doneKeys \cup Held(inMemory.doc)
    /\ inMemory' = [inMemory EXCEPT !.pc = "scan", !.doc = NoUsage]
    /\ UNCHANGED <<today, process, storage, choice, buffer, pending, flights, counters, tally>>

\* The answer to the commit is lost, or the transaction fails: the job stops.
CopyFails(committed) ==
    /\ process # "down"
    /\ inMemory.pc = "read"
    /\ tally.faults < WriteFaults
    /\ IF committed
         THEN /\ history' = Plus(history, Only(inMemory.doc, NewInLedger(Held(inMemory.doc))))
              /\ doneKeys' = doneKeys \cup Held(inMemory.doc)
         ELSE UNCHANGED <<history, doneKeys>>
    /\ inMemory' = NoCopy
    /\ tally' = [tally EXCEPT !.faults = @ + 1]
    /\ UNCHANGED <<today, process, storage, choice, buffer, pending, flights, counters>>


Old == {k \in Keys : k[1] < inMemory.until}

\* Faulty: whatever was read is in the ledger.
VerifiedByLedger == inMemory.seen \cap Old \subseteq doneKeys

\* The total of a name over these days, as the size of a disjoint union.
OldEvents(f, n) == UNION {{k} \X (1 .. f[k]) : k \in {o \in Old : o[2] = n}}

OldTotal(f, n) == Cardinality(OldEvents(f, n))

\* Totals over the days before the switch.
Verified ==
    \A n \in Names : OldTotal(Plus(counters["postgres"], history), n) = OldTotal(counters["mongo"], n)

Verify ==
    /\ process # "down"
    /\ inMemory.pc = "scan"
    /\ Wanted = {}
    /\ tally' = [tally EXCEPT !.said = IF Verified THEN "copied" ELSE "differs",
                              !.short = {k \in Old : history[k] # counters["mongo"][k]}]
    /\ inMemory' = NoCopy
    /\ UNCHANGED <<today, process, storage, choice, buffer, pending, flights, counters, history, doneKeys>>

UsageNext ==
    \/ NextDay
    \/ \E n \in Names : Count(n)
    \/ MidnightPasses \/ TickEnds
    \/ \E f \in Flushers : WriteChunk(f) \/ ChunkFails(f) \/ WriteRows(f)
    \/ \E f \in Flushers, committed \in BOOLEAN : RowsFail(f, committed)
    \/ \E m \in Stores : AskSwitch(m)
    \/ Switch
    \/ BeginStop \/ EndStop \/ CountingStops
    \/ \E readable \in BOOLEAN : StartAgain(readable)
    \/ StartCopy
    \/ \E k \in Keys : ReadDocument(k)
    \/ CopyDocument
    \/ \E committed \in BOOLEAN : CopyFails(committed)
    \/ Verify

UsageSpec == UsageInit /\ [][UsageNext]_usageVars

-------------------------------------------------------------------------------
Counts == [Keys -> Nat]

UsageTypeOK ==
    /\ today \in UsageDays /\ process \in {"up", "stopping", "down"}
    /\ {storage, choice} \subseteq [mode : Stores, since : Nat]
    /\ buffer \in Counts /\ pending \subseteq Keys
    /\ flights \in [Flushers -> [store : Stores \cup {"none"}, rest : Counts,
                                 goal : Stores \cup {"none"}, asked : Nat]]
    /\ counters \in [Stores -> Counts] /\ history \in Counts /\ doneKeys \subseteq Keys
    /\ inMemory \in [pc : {"idle", "scan", "read"}, seen : SUBSET Keys, doc : Counts, until : Nat]
    /\ tally \in [counted : Counts, twice : Counts, lost : Counts, faults : Nat, stops : Nat,
                  switches : Nat, overlapped : BOOLEAN, said : {"none", "copied", "differs"},
                  short : SUBSET Keys]

\* Every event accepted is in the buffer, with one flush, or in one store, however flushes overlap, fail
\* half-way and give back, and whatever the storage is switched to meanwhile; what a failed write had
\* written after all is the only thing counted again, and what dies with the process the only thing lost.
CountedOnce ==
    \A k \in Keys :
        tally.counted[k] + tally.twice[k]
          = buffer[k] + InFlight(k) + counters["mongo"][k] + counters["postgres"][k] + tally.lost[k]

\* The history of a counter reaches PostgreSQL at most once, however often the copy is stopped and run again.
CopiedOnce == \A k \in Keys : history[k] \leq counters["mongo"][k]

\* While flushes come one at a time, memory holds no more than the bound, also when they fail.
MemoryBounded ==
    ~tally.overlapped
      => Cardinality(Held(buffer) \cup UNION {Held(flights[f].rest) : f \in Flushers}) \leq MaxKeys

\* "Copied and verified" after a single switch and no failed write: every count MongoDB had from before that day
\* was in PostgreSQL when the totals were compared.
VerifiedIsWhole ==
    (tally.said = "copied" /\ tally.switches = 1 /\ tally.faults = 0) => tally.short = {}

UsageSound == CountedOnce /\ CopiedOnce /\ MemoryBounded /\ VerifiedIsWhole
===============================================================================
