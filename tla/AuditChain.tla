------------------------------ MODULE AuditChain ------------------------------
(***************************************************************************)
(* The tamper-evidence of the ballots: vote_events stamped with a coarse   *)
(* time and a random id, audit checkpoints that fold them into a hash      *)
(* chain, the copies anchored in Object Lock storage, and the verifier     *)
(* (src/backend/main.py, src/backend/chain_verify.py), for one             *)
(* organisation.                                                           *)
(*                                                                         *)
(* Time is counted in units of which a bucket has BucketLength.  An id is  *)
(* the end of its bucket followed by a random part below Randoms.  A hash  *)
(* chain value is represented by the set of the ids folded into it: every  *)
(* fold takes ids above those before it, in order, and an event is never   *)
(* changed, so the set determines what was hashed.                         *)
(***************************************************************************)
EXTENDS Integers, FiniteSets, FiniteSetsExt

CONSTANTS
    Papers,         \* ballots that may be cast, one event each
    Workers,         \* callers of create_audit_checkpoint: the sweep, an admin
    Routes,          \* the routes ballots come by: "vote", "vote_bulk"
    BucketLength,    \* VOTE_TIME_BUCKET_SECONDS
    Grace,           \* CHECKPOINT_SEAL_GRACE_SECONDS
    TxnLifetime,     \* how long the database lets a transaction run
    Randoms,         \* how many random parts there are
    CastUntil,       \* bound: transactions begin before then
    MaxTime,         \* bound: the clock stops there
    MaxCrashes       \* bound: how often a server process dies

ASSUME AuditAssumption ==
    /\ Routes \subseteq {"vote", "vote_bulk"}
    /\ BucketLength \in Nat \ {0} /\ Randoms \in Nat \ {0}
    /\ Grace \in Nat /\ TxnLifetime \in 0..Grace
    /\ CastUntil \in Nat /\ MaxTime \in Nat /\ MaxCrashes \in Nat

VARIABLES
    wallClock,           \* the wall clock
    casts,         \* casts[b]: the transaction of ballot b
    voteEvents,        \* vote_events, committed
    checkpoints,   \* audit_checkpoints
    sweepers,       \* sweepers[w]: a create_audit_checkpoint in progress
    anchored,      \* the copies of checkpoints in Object Lock storage
    crashes

chainVars == <<wallClock, casts, voteEvents, checkpoints, sweepers, anchored, crashes>>

Genesis == -1     \* from_id of the first checkpoint (None); ids are above it

StampIds == 0 .. (MaxTime + BucketLength + 1) * Randoms

(* _vote_bucket_start *)
BucketStart(t) == t - (t % BucketLength)

CastDoc   == [pc : {"idle", "begun", "dated", "stamped", "done"}, route : {"vote", "vote_bulk"},
              begun : 0..MaxTime, cast_at : {BucketStart(t) : t \in 0..MaxTime}, id : StampIds]
EventDoc  == [id : StampIds, cast_at : {BucketStart(t) : t \in 0..MaxTime}]
Checkpoint == [from : StampIds \cup {Genesis}, to : StampIds, count : Nat,
               prev : SUBSET StampIds, hash : SUBSET StampIds]
WorkerDoc == [pc : {"idle", "head", "folded", "publish"},
              last : StampIds \cup {Genesis}, prev : SUBSET StampIds, found : SUBSET StampIds]

ChainTypeOK ==
    /\ wallClock \in 0..MaxTime
    /\ casts \in [Papers -> CastDoc]
    /\ voteEvents \subseteq EventDoc
    /\ checkpoints \subseteq Checkpoint
    /\ sweepers \in [Workers -> WorkerDoc]
    /\ anchored \subseteq [to : StampIds, hash : SUBSET StampIds]
    /\ crashes \in 0..MaxCrashes

-----------------------------------------------------------------------------
(* The _ids _new_vote_event_stamp may draw at time t: the bucket's end, then *)
(* a random part that no other event has.                                    *)
Stamps(t) ==
    LET end == BucketStart(t) + BucketLength
    IN  {end * Randoms + k : k \in 0 .. Randoms - 1}
            \ ({e.id : e \in voteEvents} \cup {casts[b].id : b \in
                                           {c \in Papers : casts[c].pc = "stamped"}})

IdleCast   == [pc |-> "idle", route |-> "vote", begun |-> 0, cast_at |-> 0, id |-> 0]
IdleWorker == [pc |-> "idle", last |-> Genesis, prev |-> {}, found |-> {}]

ChainInit == /\ wallClock = 0
        /\ casts = [b \in Papers |-> IdleCast]
        /\ voteEvents = {}
        /\ checkpoints = {}
        /\ sweepers = [w \in Workers |-> IdleWorker]
        /\ anchored = {}
        /\ crashes = 0

-----------------------------------------------------------------------------
(* The ballot's transaction *)

BeginCast(b, route) ==
    /\ casts[b].pc = "idle"
    /\ wallClock < CastUntil
    /\ casts' = [casts EXCEPT ![b].pc = "begun", ![b].route = route, ![b].begun = wallClock]
    /\ UNCHANGED <<wallClock, voteEvents, checkpoints, sweepers, anchored, crashes>>

(* Faulty: the ballot keeps the instant it was cast at.                     *)
StampExactly(b) ==
    /\ casts[b].pc = "begun" /\ casts[b].route = "vote"
    /\ \E id \in Stamps(wallClock) :
          casts' = [casts EXCEPT ![b].pc = "stamped", ![b].cast_at = wallClock, ![b].id = id]
    /\ UNCHANGED <<wallClock, voteEvents, checkpoints, sweepers, anchored, crashes>>

(* /vote draws _id and cast_at together, from one reading of the clock. *)
StampVote(b) ==
    /\ casts[b].pc = "begun" /\ casts[b].route = "vote"
    /\ \E id \in Stamps(wallClock) :
          casts' = [casts EXCEPT ![b].pc = "stamped", ![b].cast_at = BucketStart(wallClock),
                                 ![b].id = id]
    /\ UNCHANGED <<wallClock, voteEvents, checkpoints, sweepers, anchored, crashes>>

(* /vote-bulk reads the clock for cast_at, awaits _demo_active, and then    *)
(* reads the clock again for the _id of each event.                         *)
DateBulkVote(b) ==
    /\ casts[b].pc = "begun" /\ casts[b].route = "vote_bulk"
    /\ casts' = [casts EXCEPT ![b].pc = "dated", ![b].cast_at = BucketStart(wallClock)]
    /\ UNCHANGED <<wallClock, voteEvents, checkpoints, sweepers, anchored, crashes>>

StampBulkVote(b) ==
    /\ casts[b].pc = "dated"
    /\ \E id \in Stamps(wallClock) :
          casts' = [casts EXCEPT ![b].pc = "stamped", ![b].id = id]
    /\ UNCHANGED <<wallClock, voteEvents, checkpoints, sweepers, anchored, crashes>>

(* The event becomes visible when the transaction commits, which it can     *)
(* only do within the database's limit on its life.                         *)
CommitCast(b) ==
    LET cast == casts[b]
    IN  /\ cast.pc = "stamped"
        /\ wallClock - cast.begun <= TxnLifetime
        /\ voteEvents' = voteEvents \cup {[id |-> cast.id, cast_at |-> cast.cast_at]}
        /\ casts' = [casts EXCEPT ![b].pc = "done"]
        /\ UNCHANGED <<wallClock, checkpoints, sweepers, anchored, crashes>>

(* A write conflict: with_transaction runs the callback again. *)
RetryCast(b) ==
    /\ casts[b].pc \in {"dated", "stamped"}
    /\ wallClock < CastUntil
    /\ casts' = [casts EXCEPT ![b].pc = "begun", ![b].begun = wallClock,
                           ![b].cast_at = 0, ![b].id = 0]
    /\ UNCHANGED <<wallClock, voteEvents, checkpoints, sweepers, anchored, crashes>>

(* The transaction outlives its limit, is refused or loses its process. *)
AbortCast(b) ==
    /\ casts[b].pc \in {"begun", "dated", "stamped"}
    /\ casts' = [casts EXCEPT ![b].pc = "done"]
    /\ UNCHANGED <<wallClock, voteEvents, checkpoints, sweepers, anchored, crashes>>

-----------------------------------------------------------------------------
(* create_audit_checkpoint *)

NewestCheckpoints == {cp \in checkpoints : \A other \in checkpoints : other.to <= cp.to}

ReadHead(w) ==
    /\ sweepers[w].pc = "idle"
    /\ sweepers' = [sweepers EXCEPT ![w] =
           IF checkpoints = {} THEN [IdleWorker EXCEPT !.pc = "head"]
           ELSE LET last == CHOOSE cp \in NewestCheckpoints : TRUE
                IN  [pc |-> "head", last |-> last.to, prev |-> last.hash, found |-> {}]]
    /\ UNCHANGED <<wallClock, casts, voteEvents, checkpoints, anchored, crashes>>

(* Faulty: a bucket is sealed the moment it ends.                           *)
SealedAtOnce == BucketStart(wallClock)

SealedBefore == BucketStart(IF wallClock >= Grace THEN wallClock - Grace ELSE 0)

(* Faulty: every committed event above the last to_id is folded.            *)
Unfolded(e, last) == e.id > last

(* Faulty: the bucket that is still open counts as sealed.                  *)
FoldableWithOpenBucket(e, last) == e.id > last /\ e.cast_at <= SealedBefore

(* Faulty: only the bucket sealed last is looked at, as if no sweep had     *)
(* ever been missed.                                                        *)
FoldableLastBucket(e, last) == e.id > last /\ e.cast_at = SealedBefore - BucketLength

(* The events above the last to_id whose buckets are sealed.                *)
Foldable(e, last) == e.id > last /\ e.cast_at < SealedBefore

FoldEvents(w) ==
    LET found == {e.id : e \in {f \in voteEvents : Foldable(f, sweepers[w].last)}}
    IN  /\ sweepers[w].pc = "head"
        /\ sweepers' = [sweepers EXCEPT ![w] =
               IF found = {} THEN IdleWorker
               ELSE [@ EXCEPT !.pc = "folded", !.found = found]]
        /\ UNCHANGED <<wallClock, casts, voteEvents, checkpoints, anchored, crashes>>

(* Faulty: the index is not there.                                          *)
NeverTaken(w) == FALSE

(* The unique indexes on (org, from_id) and (org, to_id) let one worker     *)
(* extend a head.                                                           *)
Taken(w) == \E cp \in checkpoints :
                cp.from = sweepers[w].last \/ cp.to = Max(sweepers[w].found)

(* Faulty: the checkpoint that could not be inserted is published.          *)
PublishAnyway(w) == /\ sweepers' = [sweepers EXCEPT ![w].pc = "publish"]
                    /\ UNCHANGED checkpoints

GiveUp(w) == /\ sweepers' = [sweepers EXCEPT ![w] = IdleWorker]
             /\ UNCHANGED checkpoints

Extend(w) ==
    LET work == sweepers[w]
    IN  /\ checkpoints' = checkpoints \cup
               {[from |-> work.last, to |-> Max(work.found),
                 count |-> Cardinality(work.found), prev |-> work.prev,
                 hash |-> work.prev \cup work.found]}
        /\ sweepers' = [sweepers EXCEPT ![w].pc = "publish"]

InsertCheckpoint(w) ==
    /\ sweepers[w].pc = "folded"
    /\ IF Taken(w) THEN GiveUp(w) ELSE Extend(w)
    /\ UNCHANGED <<wallClock, casts, voteEvents, anchored, crashes>>

(* _publish_checkpoint_externally: a failed upload is logged, never retried. *)
Publish(w) ==
    /\ sweepers[w].pc = "publish"
    /\ \/ anchored' = anchored \cup {[to |-> Max(sweepers[w].found),
                                      hash |-> sweepers[w].prev \cup sweepers[w].found]}
       \/ UNCHANGED anchored
    /\ sweepers' = [sweepers EXCEPT ![w] = IdleWorker]
    /\ UNCHANGED <<wallClock, casts, voteEvents, checkpoints, crashes>>

(* The process of a worker dies between two of its steps. *)
SweeperDies(w) ==
    /\ sweepers[w].pc # "idle"
    /\ crashes < MaxCrashes
    /\ crashes' = crashes + 1
    /\ sweepers' = [sweepers EXCEPT ![w] = IdleWorker]
    /\ UNCHANGED <<wallClock, casts, voteEvents, checkpoints, anchored>>

ClockTicks == /\ wallClock < MaxTime
        /\ wallClock' = wallClock + 1
        /\ UNCHANGED <<casts, voteEvents, checkpoints, sweepers, anchored, crashes>>

WorkerStep(w) == ReadHead(w) \/ FoldEvents(w) \/ InsertCheckpoint(w) \/ Publish(w)

ChainNext ==
    \/ \E b \in Papers :
          \/ \E route \in Routes : BeginCast(b, route)
          \/ StampVote(b) \/ DateBulkVote(b) \/ StampBulkVote(b)
          \/ CommitCast(b) \/ RetryCast(b) \/ AbortCast(b)
    \/ \E w \in Workers : WorkerStep(w) \/ SweeperDies(w)
    \/ ClockTicks

(* The sweep runs every AUDIT_CHECKPOINT_SWEEP_SECONDS for as long as the   *)
(* server runs, and time passes.                                            *)
ChainFairness == WF_chainVars(ClockTicks) /\ \A w \in Workers : WF_chainVars(WorkerStep(w))

ChainSpec     == ChainInit /\ [][ChainNext]_chainVars
ChainFairSpec == ChainSpec /\ ChainFairness

-----------------------------------------------------------------------------
(* Properties *)

(* chain_verify_db: recomputed over the committed events of each range, in  *)
(* the order of the to_ids, every checkpoint's hash comes out as stored.    *)
Before(cp) == {c \in checkpoints : c.to < cp.to}

Recomputed(cp) ==
    LET prev == IF Before(cp) = {} THEN {}
                ELSE (CHOOSE c \in Before(cp) : \A d \in Before(cp) : d.to <= c.to).hash
    IN  prev \cup {e.id : e \in {f \in voteEvents : f.id > cp.from /\ f.id <= cp.to}}

ChainVerifies == \A cp \in checkpoints : Recomputed(cp) = cp.hash

(* No ballot lands behind a checkpoint's to_id, where every later           *)
(* checkpoint would skip it.                                                *)
Covered == UNION {cp.hash : cp \in checkpoints}

NoBallotSkipped ==
    \A e \in voteEvents : (\E cp \in checkpoints : e.id <= cp.to) => e.id \in Covered

(* Overlapping sweeps do not fork the chain: the checkpoints follow one     *)
(* another from the first, each beginning where another ended.              *)
ChainIsLinear ==
    \A cp \in checkpoints :
        /\ cp.from < cp.to
        /\ cp.from = Genesis => cp.prev = {}
        /\ cp.from # Genesis => \E c \in checkpoints : c.to = cp.from /\ c.hash = cp.prev
        /\ \A c \in checkpoints \ {cp} : c.to <= cp.from \/ cp.to <= c.from

(* Whatever was anchored where it cannot be changed is a checkpoint of the  *)
(* chain as stored: an overlapping sweep that lost its range has anchored   *)
(* nothing that would later accuse the database of tampering.               *)
AnchorsAreCheckpoints ==
    \A copy \in anchored : \E cp \in checkpoints : cp.to = copy.to /\ cp.hash = copy.hash

(* The figures of the integrity report agree: the events the checkpoints    *)
(* count and those still to be covered are all the events there are.        *)
Uncheckpointed == {e \in voteEvents : \A cp \in checkpoints : e.id > cp.to}

(* The sum of the counts, as the size of a disjoint union.                  *)
Tallied == UNION {{cp} \X (1 .. cp.count) : cp \in checkpoints}

CountsAddUp == Cardinality(Tallied) + Cardinality(Uncheckpointed) = Cardinality(voteEvents)

(* No ballot has come by /vote-bulk, which dates an event before it stamps  *)
(* its _id.                                                                 *)
OneReading == \A b \in Papers : casts[b].route = "vote"

(* The audit finds nothing: every checkpoint comes out as stored, no ballot *)
(* lies where none will ever cover it, and the figures agree                *)
(* (chain_verify_db, /admin/integrity-report).                              *)
ChainSound == OneReading => ChainVerifies /\ NoBallotSkipped /\ CountsAddUp

(* Whichever sweeps overlap or die, there is one chain, and what was        *)
(* anchored outside is part of it.                                          *)
ChainOrdered == ChainIsLinear /\ AnchorsAreCheckpoints

(* "The last ballots are folded in shortly after voting closes": every      *)
(* ballot is covered in the end, whichever sweeps overlap or die.           *)
BallotsAreCovered ==
    \A b \in Papers :
        (\E e \in voteEvents : e.id = casts[b].id) ~> (casts[b].id \in Covered \/ ~OneReading)
=============================================================================
