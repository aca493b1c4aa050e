-------------------------------- MODULE Mirror --------------------------------
(***************************************************************************)
(* sync_mirror: the second cluster's copy of the live database.  Append-   *)
(* only collections are upserted from a watermark less an overlap; the     *)
(* others are pruned and upserted whole, and skipped while their digest is *)
(* the one remembered from the last good sync.  One document stands for a  *)
(* collection of the second kind; the events for one of the first.         *)
(***************************************************************************)
EXTENDS Integers, FiniteSets, FiniteSetsExt

CONSTANTS
    MirrorDocs,     \* ids of the documents
    MirrorWrites,   \* bound: of the versions a document can have
    MirrorSeconds,  \* bound: of the clock
    EventLateness,  \* how long an insert may trail the making of its id
    MirrorOverlap,  \* OVERLAP_S
    Slowness,       \* how long the events may take from the copy to the reading of the newest
    MirrorResets,   \* bound: election resets, which delete the events
    Timeouts        \* bound: syncs that fail, are cancelled after MIRROR_TIMEOUT_S, or die

ASSUME MirrorAssumption ==
    /\ {MirrorWrites, MirrorSeconds, EventLateness, MirrorOverlap, Slowness, MirrorResets, Timeouts} \subseteq Nat
    /\ MirrorSeconds > 0
    /\ EventLateness + Slowness \leq MirrorOverlap
    /\ IsFiniteSet(MirrorDocs)

VARIABLES
    now,
    live, copy,     \* MirrorDocs -> version, 0 when there is none
    liveEvents, copyEvents,
    writes,         \* versions handed out
    remembered,     \* mirror_state: digests and watermarks of the last good sync
    sync,           \* the sync under way
    shaky,          \* history: the digest remembered was taken by a sync during which a document
                    \* moved, or an interrupted sync has touched the copy since
    mirrorResets, timeouts

mirrorVars ==
    <<now, live, copy, liveEvents, copyEvents, writes, remembered, sync, shaky, mirrorResets, timeouts>>

EventIds == 1 .. MirrorSeconds

MirrorVersions == [MirrorDocs -> 0 .. MirrorWrites]

\* Digest of an empty memory: no collection hashes to it.
NoDigest == [d \in MirrorDocs |-> 0 - 1]

Digests == MirrorVersions \cup {NoDigest}

NoSync == [pc |-> "idle", whole |-> FALSE, digest |-> NoDigest, mark |-> 0, since |-> 0, moved |-> FALSE]

Sync == [pc : {"idle", "digest", "prune", "upsert", "events", "mark", "save"}, whole : BOOLEAN,
         digest : Digests, mark : {0} \cup EventIds, since : Nat, moved : BOOLEAN]

MirrorInit ==
    /\ now = 1
    /\ live = [d \in MirrorDocs |-> 0] /\ copy = live
    /\ liveEvents = {} /\ copyEvents = {}
    /\ writes = 0
    /\ remembered = [digest |-> NoDigest, mark |-> 0]
    /\ sync = NoSync
    /\ shaky = FALSE
    /\ mirrorResets = 0 /\ timeouts = 0

-----------------------------------------------------------------------------
(* The application *)

Pass ==
    /\ now < MirrorSeconds
    /\ sync.pc = "mark" => now < sync.since + Slowness
    /\ now' = now + 1
    /\ UNCHANGED <<live, copy, liveEvents, copyEvents, writes, remembered, sync, shaky, mirrorResets, timeouts>>

AppendEvent(e) ==
    /\ e \notin liveEvents
    /\ e \in (now - EventLateness) .. now
    /\ liveEvents' = liveEvents \cup {e}
    /\ UNCHANGED <<now, live, copy, copyEvents, writes, remembered, sync, shaky, mirrorResets, timeouts>>

\* A reset of the election deletes the tenant's events.
DeleteEvents ==
    /\ mirrorResets < MirrorResets
    /\ liveEvents # {}
    /\ mirrorResets' = mirrorResets + 1
    /\ liveEvents' = {}
    /\ UNCHANGED <<now, live, copy, copyEvents, writes, remembered, sync, shaky, timeouts>>

Moving == sync' = [sync EXCEPT !.moved = sync.pc \in {"prune", "upsert", "events", "mark", "save"}]

\* Insert or update: a version there never was.
WriteDoc(d) ==
    /\ writes < MirrorWrites
    /\ writes' = writes + 1
    /\ live' = [live EXCEPT ![d] = writes + 1]
    /\ Moving
    /\ UNCHANGED <<now, copy, liveEvents, copyEvents, remembered, shaky, mirrorResets, timeouts>>

DeleteDoc(d) ==
    /\ live[d] # 0
    /\ live' = [live EXCEPT ![d] = 0]
    /\ Moving
    /\ UNCHANGED <<now, copy, liveEvents, copyEvents, writes, remembered, shaky, mirrorResets, timeouts>>

-----------------------------------------------------------------------------
(* sync_mirror *)

\* The lock of the process is free.  A full sync looks at everything, also at what it remembers
\* as done; the second cluster may have been swapped, which makes the sync full too.
BeginSync(whole) ==
    /\ sync.pc = "idle"
    /\ sync' = [NoSync EXCEPT !.pc = "digest", !.whole = whole, !.mark = remembered.mark]
    /\ UNCHANGED <<now, live, copy, liveEvents, copyEvents, writes, remembered, shaky, mirrorResets, timeouts>>

TakeDigest ==
    /\ sync.pc = "digest"
    /\ sync' = [sync EXCEPT
         !.digest = live,
         !.pc = IF sync.whole \/ remembered.digest # live THEN "prune" ELSE "events",
         !.moved = FALSE]
    /\ UNCHANGED <<now, live, copy, liveEvents, copyEvents, writes, remembered, shaky, mirrorResets, timeouts>>

\* _prune: the ids to keep are read here, what is not among them is deleted from the copy.
\* Faulty: nothing is pruned.
KeepAll == MirrorDocs

Keep == {d \in MirrorDocs : live[d] # 0}

Prune ==
    /\ sync.pc = "prune"
    /\ copy' = [d \in MirrorDocs |-> IF d \in Keep THEN copy[d] ELSE 0]
    /\ sync' = [sync EXCEPT !.pc = "upsert"]
    /\ UNCHANGED <<now, live, liveEvents, copyEvents, writes, remembered, shaky, mirrorResets, timeouts>>

Upsert ==
    /\ sync.pc = "upsert"
    /\ copy' = [d \in MirrorDocs |-> IF live[d] # 0 THEN live[d] ELSE copy[d]]
    /\ sync' = [sync EXCEPT !.pc = "events"]
    /\ UNCHANGED <<now, live, liveEvents, copyEvents, writes, remembered, shaky, mirrorResets, timeouts>>

\* Append-only: from the watermark less the overlap, or, in a full sync and without a watermark,
\* whole.
\* Faulty: without the overlap.
FromMark == {e \in liveEvents : e > sync.mark}

From == {e \in liveEvents : e \geq sync.mark - MirrorOverlap}

\* Faulty: a full sync upserts and does not prune.
CopiedUnpruned == copyEvents \cup From

Copied == IF sync.whole \/ sync.mark = 0 THEN liveEvents ELSE copyEvents \cup From

CopyEvents ==
    /\ sync.pc = "events"
    /\ copyEvents' = Copied
    /\ sync' = [sync EXCEPT !.pc = "mark", !.since = now]
    /\ UNCHANGED <<now, live, copy, liveEvents, writes, remembered, shaky, mirrorResets, timeouts>>

\* Faulty: the id after it.
NewestIdNext == 1 + Max(liveEvents)

NewestId == Max(liveEvents)

\* The watermark is the newest event there is now, after the copy; none leaves it as it was.
NewestEvent ==
    /\ sync.pc = "mark"
    /\ sync' = [sync EXCEPT !.pc = "save", !.since = 0,
                            !.mark = IF liveEvents = {} THEN sync.mark ELSE NewestId]
    /\ UNCHANGED <<now, live, copy, liveEvents, copyEvents, writes, remembered, shaky, mirrorResets, timeouts>>

\* Faulty: the digest of what is there now.
SavedDigestNow == live

SavedDigest == sync.digest

Save ==
    /\ sync.pc = "save"
    /\ remembered' = [digest |-> SavedDigest, mark |-> sync.mark]
    /\ shaky' = IF remembered.digest = sync.digest /\ ~sync.whole THEN shaky ELSE sync.moved
    /\ sync' = NoSync
    /\ UNCHANGED <<now, live, copy, liveEvents, copyEvents, writes, mirrorResets, timeouts>>

\* An error, the timeout of run_scheduled or the end of the process: nothing is remembered.
Timeout ==
    /\ sync.pc # "idle"
    /\ timeouts < Timeouts
    /\ timeouts' = timeouts + 1
    /\ shaky' = (shaky \/ sync.pc \notin {"digest", "prune"})
    /\ sync' = NoSync
    /\ UNCHANGED <<now, live, copy, liveEvents, copyEvents, writes, remembered, mirrorResets>>

SyncStep == TakeDigest \/ Prune \/ Upsert \/ CopyEvents \/ NewestEvent \/ Save

MirrorNext ==
    \/ Pass
    \/ \E e \in EventIds : AppendEvent(e)
    \/ DeleteEvents
    \/ \E d \in MirrorDocs : WriteDoc(d) \/ DeleteDoc(d)
    \/ \E whole \in BOOLEAN : BeginSync(whole)
    \/ SyncStep
    \/ Timeout

MirrorSpec == MirrorInit /\ [][MirrorNext]_mirrorVars

\* The scheduler's calls: the daily one asks for a full sync, and the steps go on by themselves.
FairMirrorSpec == MirrorSpec /\ WF_mirrorVars(SyncStep) /\ SF_mirrorVars(BeginSync(TRUE))

-----------------------------------------------------------------------------
(* Properties *)

\* The copy, the memory and the sync are what the code makes them.
MirrorTypeOK ==
    /\ now \in 1 .. MirrorSeconds
    /\ live \in MirrorVersions /\ copy \in MirrorVersions
    /\ liveEvents \subseteq EventIds /\ copyEvents \subseteq EventIds
    /\ writes \in 0 .. MirrorWrites
    /\ remembered \in [digest : Digests, mark : {0} \cup EventIds]
    /\ sync \in Sync
    /\ shaky \in BOOLEAN /\ mirrorResets \in 0 .. MirrorResets /\ timeouts \in 0 .. Timeouts

\* A collection that an incremental sync skips because its digest is remembered is in the copy
\* exactly as it is live, unless it moved while the sync that took the digest was under way, or
\* a later sync was interrupted (_digest is taken before the copy, and remembered only by a sync
\* that ended well).
SkippedIsCopied ==
    sync.pc = "idle" /\ remembered.digest = live /\ ~shaky => copy = live

\* An event that the next incremental sync would no longer read is in the copy already: the
\* watermark, read after the copy, stays within the overlap of what was copied.
WatermarkBehindCopy ==
    \A e \in liveEvents : e < remembered.mark - MirrorOverlap => e \in copyEvents

\* When the application rests, a full sync makes the copy equal to the live database, also after
\* deletions that incremental syncs do not see.
MirrorCatchesUp == <>[](copy = live /\ copyEvents = liveEvents)

\* What an incremental sync leaves out is in the mirror already.
MirrorSound == SkippedIsCopied /\ WatermarkBehindCopy
=============================================================================
