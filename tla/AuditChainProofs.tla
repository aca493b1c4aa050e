--------------------------- MODULE AuditChainProofs ---------------------------
(* The chain of audit checkpoints does not fork and whatever was anchored is  *)
(* part of it, for any number of ballots, of callers of                       *)
(* create_audit_checkpoint, of crashes and of clock ticks; and where ballots  *)
(* come by /vote, no ballot is passed over.                                   *)
EXTENDS AuditChain, FiniteSetTheorems, WellFoundedInduction, TLAPS

(* A non-empty set of bounded naturals has a greatest element, which is Max.  *)
LEMMA MaxOfBounded ==
    ASSUME NEW K \in Nat, NEW S \in SUBSET (0 .. K), S # {}
    PROVE  Max(S) \in S /\ \A y \in S : y <= Max(S)
<1> DEFINE T == {K - x : x \in S}
<1>0. \A x \in S : x \in 0 .. K /\ K - x \in Nat
  OBVIOUS
<1>1. T \subseteq Nat /\ T # {}
  <2>1. \A u \in T : u \in Nat
    BY <1>0
  <2>2. T # {}
    <3>1. PICK x \in S : TRUE
      OBVIOUS
    <3>2. K - x \in T
      BY <3>1
    <3> QED
      BY <3>2
  <2> QED
    BY <2>1, <2>2
<1>2. PICK t \in T : \A u \in T : ~(<<u, t>> \in OpToRel(<, Nat))
  <2>1. IsWellFoundedOn(OpToRel(<, Nat), Nat)
    BY NatLessThanWellFounded
  <2> QED
    BY <1>1, <2>1, WFMin
<1>3. \A u \in T : ~(u < t)
  <2> SUFFICES ASSUME NEW u \in T, u < t PROVE FALSE
    OBVIOUS
  <2>1. <<u, t>> \in OpToRel(<, Nat)
    BY <1>1 DEF OpToRel
  <2> QED
    BY <1>2, <2>1
<1>4. PICK x \in S : t = K - x
  OBVIOUS
<1>5. ASSUME NEW y \in S PROVE x >= y
  <2>1. K - y \in T /\ ~(K - y < K - x)
    BY <1>3, <1>4
  <2> QED
    BY <1>0, <2>1

<1>6. \E z \in S : \A y \in S : z >= y
  BY <1>5
<1>7. Max(S) \in S /\ \A y \in S : Max(S) >= y
  BY <1>6 DEF Max
<1> QED
  BY <1>0, <1>7

-----------------------------------------------------------------------------
(* Type correctness. *)

LEMMA BucketStartType ==
    ASSUME NEW t \in Nat
    PROVE  BucketStart(t) \in 0 .. t
<1>1. BucketLength \in Nat /\ BucketLength > 0
  BY AuditAssumption
<1>2. t % BucketLength \in 0 .. t
  BY <1>1
<1> QED
  BY <1>2 DEF BucketStart

LEMMA StampsAreIds ==
    ASSUME NEW t \in 0 .. MaxTime
    PROVE  Stamps(t) \subseteq StampIds
<1> DEFINE end == BucketStart(t) + BucketLength
<1>1. end \in 0 .. MaxTime + BucketLength
  BY BucketStartType, AuditAssumption
<1>2. SUFFICES ASSUME NEW k \in 0 .. Randoms - 1
               PROVE  end * Randoms + k \in StampIds
  BY DEF Stamps
<1>3. Randoms \in Nat /\ Randoms > 0 /\ MaxTime \in Nat /\ BucketLength \in Nat
  BY AuditAssumption
<1>4. end * Randoms <= (MaxTime + BucketLength) * Randoms
  BY <1>1, <1>3
<1>5. (MaxTime + BucketLength + 1) * Randoms = (MaxTime + BucketLength) * Randoms + Randoms
  BY <1>3
<1>6. end * Randoms \in Nat /\ (MaxTime + BucketLength) * Randoms \in Nat
  BY <1>1, <1>3
<1> QED
  BY <1>3, <1>4, <1>5, <1>6 DEF StampIds

LEMMA IdsAreNaturals == \E K \in Nat : StampIds = 0 .. K
<1>1. (MaxTime + BucketLength + 1) * Randoms \in Nat
  BY AuditAssumption
<1> QED
  BY <1>1 DEF StampIds

(* The greatest of a set of ids. *)
LEMMA MaxOfIds ==
    ASSUME NEW S \in SUBSET StampIds, S # {}
    PROVE  Max(S) \in S /\ \A id \in S : id <= Max(S)
BY MaxOfBounded, IdsAreNaturals

LEMMA NewestExists ==
    ASSUME checkpoints \subseteq Checkpoint, checkpoints # {}
    PROVE  /\ (CHOOSE cp \in NewestCheckpoints : TRUE) \in NewestCheckpoints
           /\ NewestCheckpoints \subseteq checkpoints
<1> DEFINE Tos == {cp.to : cp \in checkpoints}
<1>1. Tos \subseteq StampIds /\ Tos # {}
  BY DEF Checkpoint
<1>2. Max(Tos) \in Tos /\ \A to \in Tos : to <= Max(Tos)
  <2> HIDE DEF Tos
  <2> QED
    BY <1>1, MaxOfIds
<1>3. PICK cp \in checkpoints : \A c \in checkpoints : c.to <= cp.to
  BY <1>2
<1>4. cp \in NewestCheckpoints
  BY <1>3 DEF NewestCheckpoints
<1> QED
  BY <1>4 DEF NewestCheckpoints

(* A worker that has folded has found something. *)
FoundSome == \A w \in Workers : sweepers[w].pc \in {"folded", "publish"} => sweepers[w].found # {}

LEMMA NewCheckpointType ==
    ASSUME NEW last \in StampIds \cup {Genesis}, NEW prev \in SUBSET StampIds,
           NEW found \in SUBSET StampIds, found # {}
    PROVE  [from |-> last, to |-> Max(found), count |-> Cardinality(found), prev |-> prev,
            hash |-> prev \cup found] \in Checkpoint
<1>1. Max(found) \in StampIds
  BY MaxOfIds
<1>2. IsFiniteSet(StampIds)
  BY IdsAreNaturals, FS_Interval
<1>3. Cardinality(found) \in Nat
  BY <1>2, FS_Subset, FS_CardinalityType
<1> QED
  BY <1>1, <1>3 DEF Checkpoint

LEMMA TypeInit == ChainInit => ChainTypeOK /\ FoundSome
<1> SUFFICES ASSUME ChainInit PROVE ChainTypeOK /\ FoundSome
  OBVIOUS
<1>1. 0 \in StampIds /\ 0 \in 0 .. MaxTime /\ 0 \in 0 .. MaxCrashes
  BY AuditAssumption DEF StampIds
<1>2. 0 \in {BucketStart(t) : t \in 0 .. MaxTime}
  <2>1. BucketStart(0) = 0
    BY BucketStartType
  <2> QED
    BY <1>1, <2>1
<1>3. IdleCast \in CastDoc
  BY <1>1, <1>2 DEF CastDoc, IdleCast
<1>4. IdleWorker \in WorkerDoc
  BY DEF WorkerDoc, IdleWorker
<1> QED
  BY <1>1, <1>3, <1>4 DEF ChainInit, ChainTypeOK, FoundSome, IdleWorker

LEMMA CastTypes ==
    ASSUME ChainTypeOK, NEW b \in Papers,
           \/ \E route \in Routes : BeginCast(b, route)
           \/ StampVote(b) \/ DateBulkVote(b) \/ StampBulkVote(b)
           \/ CommitCast(b) \/ RetryCast(b) \/ AbortCast(b)
    PROVE  ChainTypeOK'
<1> DEFINE Starts == {BucketStart(t) : t \in 0 .. MaxTime}
<1>0. /\ wallClock \in 0 .. MaxTime /\ casts \in [Papers -> CastDoc] /\ voteEvents \subseteq EventDoc
      /\ checkpoints \subseteq Checkpoint /\ sweepers \in [Workers -> WorkerDoc]
      /\ anchored \subseteq [to : StampIds, hash : SUBSET StampIds] /\ crashes \in 0 .. MaxCrashes
  BY DEF ChainTypeOK
<1>1. /\ casts[b] \in CastDoc
      /\ casts[b].pc \in {"idle", "begun", "dated", "stamped", "done"}
      /\ casts[b].route \in {"vote", "vote_bulk"} /\ casts[b].begun \in 0 .. MaxTime
      /\ casts[b].cast_at \in Starts /\ casts[b].id \in StampIds
  BY <1>0 DEF CastDoc
<1>2. BucketStart(wallClock) \in Starts /\ 0 \in Starts /\ 0 \in StampIds
  <2>1. BucketStart(0) = 0 /\ 0 \in 0 .. MaxTime
    BY BucketStartType, AuditAssumption
  <2> QED
    BY <1>0, <2>1, AuditAssumption DEF StampIds
<1>3. Stamps(wallClock) \subseteq StampIds
  BY <1>0, StampsAreIds
<1>4. ASSUME NEW c \in CastDoc, casts' = [casts EXCEPT ![b] = c]
      PROVE  casts' \in [Papers -> CastDoc]
  BY <1>0, <1>4
<1> HIDE DEF Starts
<1>5. CASE \E route \in Routes : BeginCast(b, route)
  <2>1. PICK route \in Routes : BeginCast(b, route)
    BY <1>5
  <2> DEFINE c == [casts[b] EXCEPT !.pc = "begun", !.route = route, !.begun = wallClock]
  <2>2. c \in CastDoc
    BY <1>0, <1>1, AuditAssumption DEF CastDoc
  <2>3. casts' = [casts EXCEPT ![b] = c]
    BY <2>1 DEF BeginCast
  <2>4. casts' \in [Papers -> CastDoc]
    BY <1>4, <2>2, <2>3
  <2> QED
    BY <1>0, <2>1, <2>4 DEF BeginCast, ChainTypeOK
<1>6. CASE StampVote(b)
  <2>1. PICK id \in Stamps(wallClock) :
            casts' = [casts EXCEPT ![b].pc = "stamped", ![b].cast_at = BucketStart(wallClock), ![b].id = id]
    BY <1>6 DEF StampVote
  <2> DEFINE c == [casts[b] EXCEPT !.pc = "stamped", !.cast_at = BucketStart(wallClock), !.id = id]
  <2>2. c \in CastDoc
    BY <1>1, <1>2, <1>3 DEF CastDoc, Starts
  <2>3. casts' \in [Papers -> CastDoc]
    BY <1>4, <2>1, <2>2
  <2> QED
    BY <1>0, <1>6, <2>3 DEF StampVote, ChainTypeOK
<1>7. CASE DateBulkVote(b)
  <2> DEFINE c == [casts[b] EXCEPT !.pc = "dated", !.cast_at = BucketStart(wallClock)]
  <2>1. c \in CastDoc
    BY <1>1, <1>2 DEF CastDoc, Starts
  <2>2. casts' \in [Papers -> CastDoc]
    BY <1>4, <1>7, <2>1 DEF DateBulkVote
  <2> QED
    BY <1>0, <1>7, <2>2 DEF DateBulkVote, ChainTypeOK
<1>8. CASE StampBulkVote(b)
  <2>1. PICK id \in Stamps(wallClock) : casts' = [casts EXCEPT ![b].pc = "stamped", ![b].id = id]
    BY <1>8 DEF StampBulkVote
  <2> DEFINE c == [casts[b] EXCEPT !.pc = "stamped", !.id = id]
  <2>2. c \in CastDoc
    BY <1>1, <1>3 DEF CastDoc, Starts
  <2>3. casts' \in [Papers -> CastDoc]
    BY <1>4, <2>1, <2>2
  <2> QED
    BY <1>0, <1>8, <2>3 DEF StampBulkVote, ChainTypeOK
<1>9. CASE CommitCast(b)
  <2>1. [id |-> casts[b].id, cast_at |-> casts[b].cast_at] \in EventDoc
    BY <1>1 DEF EventDoc, Starts
  <2>2. [casts[b] EXCEPT !.pc = "done"] \in CastDoc
    BY <1>1 DEF CastDoc, Starts
  <2>3. casts' \in [Papers -> CastDoc]
    BY <1>4, <1>9, <2>2 DEF CommitCast
  <2> QED
    BY <1>0, <1>9, <2>1, <2>3 DEF CommitCast, ChainTypeOK
<1>10. CASE RetryCast(b)
  <2> DEFINE c == [casts[b] EXCEPT !.pc = "begun", !.begun = wallClock, !.cast_at = 0, !.id = 0]
  <2>1. c \in CastDoc
    BY <1>0, <1>1, <1>2 DEF CastDoc, Starts
  <2>2. casts' \in [Papers -> CastDoc]
    BY <1>4, <1>10, <2>1 DEF RetryCast
  <2> QED
    BY <1>0, <1>10, <2>2 DEF RetryCast, ChainTypeOK
<1>11. CASE AbortCast(b)
  <2>1. [casts[b] EXCEPT !.pc = "done"] \in CastDoc
    BY <1>1 DEF CastDoc, Starts
  <2>2. casts' \in [Papers -> CastDoc]
    BY <1>4, <1>11, <2>1 DEF AbortCast
  <2> QED
    BY <1>0, <1>11, <2>2 DEF AbortCast, ChainTypeOK
<1> QED
  BY <1>5, <1>6, <1>7, <1>8, <1>9, <1>10, <1>11

LEMMA WorkerTypes ==
    ASSUME ChainTypeOK, FoundSome, NEW w \in Workers, WorkerStep(w) \/ SweeperDies(w)
    PROVE  ChainTypeOK'
<1>1. /\ wallClock \in 0 .. MaxTime /\ casts \in [Papers -> CastDoc] /\ voteEvents \subseteq EventDoc
      /\ checkpoints \subseteq Checkpoint /\ sweepers \in [Workers -> WorkerDoc]
      /\ anchored \subseteq [to : StampIds, hash : SUBSET StampIds] /\ crashes \in 0 .. MaxCrashes
  BY DEF ChainTypeOK
<1>2. /\ sweepers[w].pc \in {"idle", "head", "folded", "publish"}
      /\ sweepers[w].last \in StampIds \cup {Genesis}
      /\ sweepers[w].prev \in SUBSET StampIds /\ sweepers[w].found \in SUBSET StampIds
      /\ sweepers[w] \in WorkerDoc
  BY <1>1 DEF WorkerDoc
<1>3. IdleWorker \in WorkerDoc
  BY DEF WorkerDoc, IdleWorker
<1>4. ASSUME NEW d \in WorkerDoc, sweepers' = [sweepers EXCEPT ![w] = d]
      PROVE  sweepers' \in [Workers -> WorkerDoc]
  BY <1>1, <1>4
<1>5. CASE ReadHead(w)
  <2>1. CASE checkpoints = {}
    <3>1. [IdleWorker EXCEPT !.pc = "head"] \in WorkerDoc
      BY DEF WorkerDoc, IdleWorker
    <3>2. sweepers' \in [Workers -> WorkerDoc]
      BY <1>4, <1>5, <2>1, <3>1 DEF ReadHead
    <3> QED
      BY <1>1, <1>5, <3>2 DEF ReadHead, ChainTypeOK
  <2>2. CASE checkpoints # {}
    <3> DEFINE last == CHOOSE cp \in NewestCheckpoints : TRUE
               d == [pc |-> "head", last |-> last.to, prev |-> last.hash, found |-> {}]
    <3>1. last \in checkpoints
      BY <1>1, <2>2, NewestExists
    <3>2. last \in Checkpoint
      BY <1>1, <3>1
    <3>3. d \in WorkerDoc
      BY <3>2 DEF Checkpoint, WorkerDoc
    <3>4. sweepers' = [sweepers EXCEPT ![w] = d]
      BY <1>5, <2>2 DEF ReadHead
    <3> HIDE DEF d
    <3>5. sweepers' \in [Workers -> WorkerDoc]
      BY <1>4, <3>3, <3>4
    <3> QED
      BY <1>1, <1>5, <3>5 DEF ReadHead, ChainTypeOK
  <2> QED
    BY <2>1, <2>2
<1>6. CASE FoldEvents(w)
  <2> DEFINE found == {e.id : e \in {f \in voteEvents : Foldable(f, sweepers[w].last)}}
             d == [sweepers[w] EXCEPT !.pc = "folded", !.found = found]
  <2>1. found \subseteq StampIds
    BY <1>1 DEF EventDoc
  <2>2. d \in WorkerDoc
    BY <1>2, <2>1 DEF WorkerDoc
  <2>3. sweepers' = [sweepers EXCEPT ![w] = IdleWorker] \/ sweepers' = [sweepers EXCEPT ![w] = d]
    BY <1>6 DEF FoldEvents
  <2> HIDE DEF d
  <2>4. sweepers' \in [Workers -> WorkerDoc]
    BY <1>3, <1>4, <2>2, <2>3
  <2> QED
    BY <1>1, <1>6, <2>4 DEF FoldEvents, ChainTypeOK
<1>7. CASE InsertCheckpoint(w) /\ Taken(w)
  <2>1. sweepers' \in [Workers -> WorkerDoc]
    BY <1>3, <1>4, <1>7 DEF InsertCheckpoint, GiveUp
  <2> QED
    BY <1>1, <1>7, <2>1 DEF InsertCheckpoint, GiveUp, ChainTypeOK
<1>8. CASE InsertCheckpoint(w) /\ ~Taken(w)
  <2>1. [sweepers[w] EXCEPT !.pc = "publish"] \in WorkerDoc
    BY <1>2 DEF WorkerDoc
  <2>2. sweepers' \in [Workers -> WorkerDoc]
    BY <1>4, <1>8, <2>1 DEF InsertCheckpoint, Extend
  <2>3. sweepers[w].found # {}
    BY <1>8 DEF InsertCheckpoint, FoundSome
  <2>4. checkpoints' \subseteq Checkpoint
    BY <1>1, <1>2, <1>8, <2>3, NewCheckpointType DEF InsertCheckpoint, Extend
  <2> QED
    BY <1>1, <1>8, <2>2, <2>4 DEF InsertCheckpoint, Extend, ChainTypeOK
<1>9. CASE Publish(w)
  <2>1. sweepers' \in [Workers -> WorkerDoc]
    BY <1>3, <1>4, <1>9 DEF Publish
  <2>2. sweepers[w].found # {}
    BY <1>9 DEF Publish, FoundSome
  <2>3. Max(sweepers[w].found) \in StampIds
    BY <1>2, <2>2, MaxOfIds
  <2>4. anchored' \subseteq [to : StampIds, hash : SUBSET StampIds]
    BY <1>1, <1>2, <1>9, <2>3 DEF Publish
  <2> QED
    BY <1>1, <1>9, <2>1, <2>4 DEF Publish, ChainTypeOK
<1>10. CASE SweeperDies(w)
  <2>1. sweepers' \in [Workers -> WorkerDoc]
    BY <1>3, <1>4, <1>10 DEF SweeperDies
  <2> QED
    BY <1>1, <1>10, <2>1, AuditAssumption DEF SweeperDies, ChainTypeOK
<1> QED
  BY <1>5, <1>6, <1>7, <1>8, <1>9, <1>10 DEF WorkerStep

LEMMA WorkersKeepFound ==
    ASSUME ChainTypeOK, FoundSome, NEW w \in Workers, WorkerStep(w) \/ SweeperDies(w)
    PROVE  FoundSome'
<1>1. sweepers \in [Workers -> WorkerDoc]
  BY DEF ChainTypeOK
<1>2. SUFFICES sweepers'[w].pc \in {"folded", "publish"} => sweepers'[w].found # {}
  <2>1. \A v \in Workers \ {w} : sweepers'[v] = sweepers[v]
    BY <1>1 DEF WorkerStep, ReadHead, FoldEvents, InsertCheckpoint, GiveUp, Extend, Publish, SweeperDies
  <2> QED
    BY <2>1 DEF FoundSome
<1>3. IdleWorker.pc = "idle"
  BY DEF IdleWorker
<1>4. CASE ReadHead(w)
  BY <1>1, <1>4 DEF ReadHead, IdleWorker
<1>5. CASE FoldEvents(w)
  BY <1>1, <1>3, <1>5 DEF FoldEvents, WorkerDoc
<1>6. CASE InsertCheckpoint(w)
  BY <1>1, <1>3, <1>6 DEF InsertCheckpoint, GiveUp, Extend, FoundSome, WorkerDoc
<1>7. CASE Publish(w) \/ SweeperDies(w)
  BY <1>1, <1>3, <1>7 DEF Publish, SweeperDies
<1> QED
  BY <1>4, <1>5, <1>6, <1>7 DEF WorkerStep

LEMMA TypeStep == ChainTypeOK /\ FoundSome /\ [ChainNext]_chainVars => ChainTypeOK' /\ FoundSome'
<1> SUFFICES ASSUME ChainTypeOK, FoundSome, [ChainNext]_chainVars
             PROVE  ChainTypeOK' /\ FoundSome'
  OBVIOUS
<1>1. CASE \E b \in Papers :
             \/ \E route \in Routes : BeginCast(b, route)
             \/ StampVote(b) \/ DateBulkVote(b) \/ StampBulkVote(b)
             \/ CommitCast(b) \/ RetryCast(b) \/ AbortCast(b)
  <2>1. UNCHANGED sweepers
    BY <1>1 DEF BeginCast, StampVote, DateBulkVote, StampBulkVote, CommitCast, RetryCast, AbortCast
  <2> QED
    BY <1>1, <2>1, CastTypes DEF FoundSome
<1>2. CASE \E w \in Workers : WorkerStep(w) \/ SweeperDies(w)
  BY <1>2, WorkerTypes, WorkersKeepFound
<1>3. CASE ClockTicks
  BY <1>3, AuditAssumption DEF ClockTicks, ChainTypeOK, FoundSome
<1>4. CASE UNCHANGED chainVars
  BY <1>4 DEF chainVars, ChainTypeOK, FoundSome
<1> QED
  BY <1>1, <1>2, <1>3, <1>4 DEF ChainNext

(* Everything the audit stores is of its type. *)
THEOREM ChainTypeCorrect == ChainSpec => [](ChainTypeOK /\ FoundSome)
<1>1. QED
  BY TypeInit, TypeStep, PTL DEF ChainSpec

-----------------------------------------------------------------------------
(* The strengthening of ChainOrdered. *)

(* What a worker read as the head: nothing yet, or a checkpoint's to_id and   *)
(* hash.                                                                      *)
HeadRead(last, prev) ==
    \/ last = Genesis /\ prev = {}
    \/ \E cp \in checkpoints : cp.to = last /\ cp.hash = prev

WorkInv(w) ==
    /\ sweepers[w].pc \in {"head", "folded"} => HeadRead(sweepers[w].last, sweepers[w].prev)
    /\ sweepers[w].pc = "folded" =>
          sweepers[w].found # {} /\ \A id \in sweepers[w].found : id > sweepers[w].last
    /\ sweepers[w].pc = "publish" =>
          \E cp \in checkpoints : /\ cp.to = Max(sweepers[w].found)
                                  /\ cp.hash = sweepers[w].prev \cup sweepers[w].found

(* A head nobody extended is the highest one: so that whoever wins both       *)
(* unique indexes ends the chain.                                             *)
Rooted == checkpoints # {} => \E cp \in checkpoints : cp.from = Genesis

Extended ==
    \A cp \in checkpoints : \/ \A c \in checkpoints : c.to <= cp.to
                            \/ \E c \in checkpoints : c.from = cp.to

OrderInv ==
    /\ ChainIsLinear /\ AnchorsAreCheckpoints
    /\ Rooted /\ Extended
    /\ \A w \in Workers : WorkInv(w)


-----------------------------------------------------------------------------

LEMMA OrderInit == ChainInit => OrderInv
BY DEF ChainInit, OrderInv, ChainIsLinear, AnchorsAreCheckpoints, Rooted, Extended, WorkInv, IdleWorker

(* A step that leaves the chain alone disturbs nothing but the worker that took it. *)
LEMMA SameChain ==
    ASSUME OrderInv, UNCHANGED checkpoints
    PROVE  /\ ChainIsLinear' /\ Rooted' /\ Extended'
           /\ \A v \in Workers : sweepers'[v] = sweepers[v] => WorkInv(v)'
BY DEF OrderInv, ChainIsLinear, Rooted, Extended, WorkInv, HeadRead

LEMMA OthersKeep ==
    ASSUME ChainTypeOK, OrderInv, NEW w \in Workers, UNCHANGED checkpoints, AnchorsAreCheckpoints',
           NEW d, sweepers' = [sweepers EXCEPT ![w] = d], WorkInv(w)'
    PROVE  OrderInv'
<1>1. \A v \in Workers \ {w} : sweepers'[v] = sweepers[v]
  BY DEF ChainTypeOK
<1> QED
  BY <1>1, SameChain DEF OrderInv

LEMMA IdleKeeps ==
    ASSUME ChainTypeOK, OrderInv, NEW w \in Workers, UNCHANGED checkpoints, AnchorsAreCheckpoints',
           sweepers' = [sweepers EXCEPT ![w] = IdleWorker]
    PROVE  OrderInv'
<1>1. sweepers'[w].pc = "idle"
  BY DEF ChainTypeOK, IdleWorker
<1>2. WorkInv(w)'
  BY <1>1 DEF WorkInv
<1> QED
  BY <1>2, OthersKeep

LEMMA ReadHeadKeeps ==
    ASSUME ChainTypeOK, OrderInv, NEW w \in Workers, ReadHead(w)
    PROVE  OrderInv'
<1>1. UNCHANGED <<checkpoints, anchored>> /\ sweepers \in [Workers -> WorkerDoc]
  BY DEF ReadHead, ChainTypeOK
<1>2. AnchorsAreCheckpoints'
  BY <1>1 DEF OrderInv, AnchorsAreCheckpoints
<1>3. CASE checkpoints = {}
  <2> DEFINE d == [IdleWorker EXCEPT !.pc = "head"]
  <2>1. sweepers' = [sweepers EXCEPT ![w] = d]
    BY <1>3 DEF ReadHead
  <2>2. sweepers'[w].pc = "head" /\ sweepers'[w].last = Genesis /\ sweepers'[w].prev = {}
    BY <1>1, <2>1 DEF IdleWorker
  <2>3. WorkInv(w)'
    BY <2>2 DEF WorkInv, HeadRead
  <2> HIDE DEF d
  <2> QED
    BY <1>1, <1>2, <2>1, <2>3, OthersKeep
<1>4. CASE checkpoints # {}
  <2> DEFINE cp == CHOOSE cp \in NewestCheckpoints : TRUE
             d == [pc |-> "head", last |-> cp.to, prev |-> cp.hash, found |-> {}]
  <2>1. cp \in checkpoints
    BY <1>4, NewestExists DEF ChainTypeOK
  <2>2. sweepers' = [sweepers EXCEPT ![w] = d]
    BY <1>4 DEF ReadHead
  <2>3. sweepers'[w].pc = "head" /\ sweepers'[w].last = cp.to /\ sweepers'[w].prev = cp.hash
    BY <1>1, <2>2
  <2> HIDE DEF cp
  <2>4. WorkInv(w)'
    BY <1>1, <2>1, <2>3 DEF WorkInv, HeadRead
  <2> HIDE DEF d
  <2> QED
    BY <1>1, <1>2, <2>2, <2>4, OthersKeep
<1> QED
  BY <1>3, <1>4

LEMMA FoldKeeps ==
    ASSUME ChainTypeOK, OrderInv, NEW w \in Workers, FoldEvents(w)
    PROVE  OrderInv'
<1> DEFINE found == {e.id : e \in {f \in voteEvents : Foldable(f, sweepers[w].last)}}
           d == [sweepers[w] EXCEPT !.pc = "folded", !.found = found]
<1>1. UNCHANGED <<checkpoints, anchored>> /\ sweepers \in [Workers -> WorkerDoc] /\ sweepers[w].pc = "head"
  BY DEF FoldEvents, ChainTypeOK
<1>2. AnchorsAreCheckpoints'
  BY <1>1 DEF OrderInv, AnchorsAreCheckpoints
<1>3. CASE found = {}
  BY <1>1, <1>2, <1>3, IdleKeeps DEF FoldEvents
<1>4. CASE found # {}
  <2>1. sweepers' = [sweepers EXCEPT ![w] = d]
    BY <1>4 DEF FoldEvents
  <2>2. /\ d.pc = "folded" /\ d.found = found /\ d.last = sweepers[w].last /\ d.prev = sweepers[w].prev
    BY <1>1 DEF WorkerDoc
  <2>3. \A id \in found : id > sweepers[w].last
    BY DEF Foldable
  <2>4. HeadRead(sweepers[w].last, sweepers[w].prev)
    BY <1>1 DEF OrderInv, WorkInv
  <2>5. sweepers'[w] = d
    BY <1>1, <2>1
  <2> HIDE DEF d, found
  <2>6. WorkInv(w)'
    BY <1>1, <1>4, <2>2, <2>3, <2>4, <2>5 DEF WorkInv, HeadRead
  <2> QED
    BY <1>1, <1>2, <2>1, <2>6, OthersKeep
<1> QED
  BY <1>3, <1>4

(* The checkpoint a worker inserts when neither index stops it follows every other one. *)
LEMMA ExtendFollows ==
    ASSUME ChainTypeOK, OrderInv, NEW w \in Workers, sweepers[w].pc = "folded", ~Taken(w)
    PROVE  \A cp \in checkpoints : cp.to <= sweepers[w].last
<1> DEFINE last == sweepers[w].last
<1>1. HeadRead(last, sweepers[w].prev)
  BY DEF OrderInv, WorkInv
<1>2. \A cp \in checkpoints : cp.from # last
  BY DEF Taken
<1>3. CASE last = Genesis
  BY <1>2, <1>3 DEF OrderInv, Rooted
<1>4. CASE \E cp \in checkpoints : cp.to = last
  BY <1>2, <1>4 DEF OrderInv, Extended
<1> QED
  BY <1>1, <1>3, <1>4 DEF HeadRead

LEMMA ExtendKeeps ==
    ASSUME ChainTypeOK, OrderInv, NEW w \in Workers, InsertCheckpoint(w), ~Taken(w)
    PROVE  OrderInv'
<1> DEFINE work == sweepers[w]
           new == [from |-> work.last, to |-> Max(work.found), count |-> Cardinality(work.found),
                   prev |-> work.prev, hash |-> work.prev \cup work.found]
<1>1. /\ checkpoints' = checkpoints \cup {new} /\ UNCHANGED anchored /\ work.pc = "folded"
      /\ sweepers' = [sweepers EXCEPT ![w].pc = "publish"]
  BY DEF InsertCheckpoint, Extend
<1>2. /\ checkpoints \subseteq Checkpoint /\ sweepers \in [Workers -> WorkerDoc]
      /\ work.found \in SUBSET StampIds /\ work.last \in StampIds \cup {Genesis}
  BY DEF ChainTypeOK, WorkerDoc
<1>3. work.found # {} /\ \A id \in work.found : id > work.last
  BY <1>1 DEF OrderInv, WorkInv
<1>4. Max(work.found) \in work.found
  BY <1>2, <1>3, MaxOfIds
<1>5. \A cp \in checkpoints : cp.to <= work.last
  BY <1>1, ExtendFollows
<1>6. /\ new.from = work.last /\ new.to = Max(work.found) /\ new.prev = work.prev
      /\ new.hash = work.prev \cup work.found
  OBVIOUS
<1>7. new.from < new.to
  BY <1>3, <1>4, <1>6
<1>8. HeadRead(new.from, new.prev)
  BY <1>1 DEF OrderInv, WorkInv
<1>9. \A cp \in checkpoints : cp.to \in Int /\ cp.from \in Int /\ cp.from < cp.to
  BY <1>2, IdsAreNaturals DEF Checkpoint, Genesis, OrderInv, ChainIsLinear
<1>10. new.from \in Int /\ new.to \in Int
  BY <1>2, <1>4, IdsAreNaturals DEF Genesis
<1> HIDE DEF new
<1>11. ChainIsLinear'
  <2> SUFFICES ASSUME NEW cp \in checkpoints'
               PROVE  /\ cp.from < cp.to
                      /\ cp.from = Genesis => cp.prev = {}
                      /\ cp.from # Genesis => \E c \in checkpoints' : c.to = cp.from /\ c.hash = cp.prev
                      /\ \A c \in checkpoints' \ {cp} : c.to <= cp.from \/ cp.to <= c.from
    BY DEF ChainIsLinear
  <2>1. CASE cp = new
    <3>1. \A c \in checkpoints' \ {cp} : c.to <= cp.from
      BY <1>1, <1>5, <1>6, <2>1
    <3>2. cp.from = Genesis => cp.prev = {}
      BY <1>8, <1>9, <2>1, IdsAreNaturals, <1>2 DEF HeadRead, Genesis, Checkpoint
    <3>3. cp.from # Genesis => \E c \in checkpoints' : c.to = cp.from /\ c.hash = cp.prev
      BY <1>1, <1>8, <2>1 DEF HeadRead
    <3> QED
      BY <1>7, <2>1, <3>1, <3>2, <3>3
  <2>2. CASE cp \in checkpoints
    <3>1. \A c \in checkpoints \ {cp} : c.to <= cp.from \/ cp.to <= c.from
      BY <2>2 DEF OrderInv, ChainIsLinear
    <3>2. cp.to <= new.from
      BY <1>5, <1>6, <2>2
    <3>3. /\ cp.from < cp.to
          /\ cp.from = Genesis => cp.prev = {}
          /\ cp.from # Genesis => \E c \in checkpoints : c.to = cp.from /\ c.hash = cp.prev
      BY <2>2 DEF OrderInv, ChainIsLinear
    <3> QED
      BY <1>1, <3>1, <3>2, <3>3
  <2> QED
    BY <1>1, <2>1, <2>2
<1>12. AnchorsAreCheckpoints'
  BY <1>1 DEF OrderInv, AnchorsAreCheckpoints
<1>13. Rooted'
  <2>1. CASE checkpoints = {}
    <3>1. new.from = Genesis
      BY <1>8, <2>1 DEF HeadRead
    <3> QED
      BY <1>1, <3>1 DEF Rooted
  <2>2. CASE checkpoints # {}
    BY <1>1, <2>2 DEF OrderInv, Rooted
  <2> QED
    BY <2>1, <2>2
<1>14. Extended'
  <2>1. \A c \in checkpoints' : c.to <= new.to
    BY <1>1, <1>5, <1>6, <1>7, <1>9, <1>10
  <2>2. ASSUME NEW cp \in checkpoints
        PROVE  (\A c \in checkpoints' : c.to <= cp.to) \/ \E c \in checkpoints' : c.from = cp.to
    <3>1. CASE \E c \in checkpoints : c.from = cp.to
      BY <1>1, <3>1
    <3>2. CASE \A c \in checkpoints : c.to <= cp.to
      <4>1. CASE new.from = Genesis
        BY <1>5, <1>6, <1>2, <4>1, IdsAreNaturals DEF Genesis, Checkpoint
      <4>2. CASE \E c \in checkpoints : c.to = new.from
        <5>1. new.from = cp.to
          BY <1>5, <1>6, <1>9, <1>10, <3>2, <4>2
        <5> QED
          BY <1>1, <5>1
      <4> QED
        BY <1>8, <4>1, <4>2 DEF HeadRead
    <3> QED
      BY <3>1, <3>2 DEF OrderInv, Extended
  <2> QED
    BY <1>1, <2>1, <2>2 DEF Extended
<1>15. ASSUME NEW v \in Workers
       PROVE  WorkInv(v)'
  <2>1. CASE v = w
    <3>1. /\ sweepers'[v].pc = "publish" /\ sweepers'[v].found = work.found /\ sweepers'[v].prev = work.prev
      BY <1>1, <1>2, <2>1 DEF WorkerDoc
    <3>2. new \in checkpoints' /\ new.to = Max(work.found) /\ new.hash = work.prev \cup work.found
      BY <1>1, <1>6
    <3> QED
      BY <3>1, <3>2 DEF WorkInv
  <2>2. CASE v # w
    <3>1. sweepers'[v] = sweepers[v] /\ checkpoints \subseteq checkpoints'
      BY <1>1, <1>2, <2>2
    <3>2. WorkInv(v)
      BY DEF OrderInv
    <3> QED
      BY <3>1, <3>2 DEF WorkInv, HeadRead
  <2> QED
    BY <2>1, <2>2
<1> QED
  BY <1>11, <1>12, <1>13, <1>14, <1>15 DEF OrderInv

LEMMA PublishKeeps ==
    ASSUME ChainTypeOK, OrderInv, NEW w \in Workers, Publish(w)
    PROVE  OrderInv'
<1>1. \E cp \in checkpoints : /\ cp.to = Max(sweepers[w].found)
                               /\ cp.hash = sweepers[w].prev \cup sweepers[w].found
  BY DEF Publish, OrderInv, WorkInv
<1> DEFINE new == [to |-> Max(sweepers[w].found), hash |-> sweepers[w].prev \cup sweepers[w].found]
<1>2. UNCHANGED checkpoints /\ anchored' \subseteq anchored \cup {new}
  BY DEF Publish
<1>3. \E cp \in checkpoints : cp.to = new.to /\ cp.hash = new.hash
  BY <1>1
<1>4. AnchorsAreCheckpoints
  BY DEF OrderInv
<1> HIDE DEF new
<1>5. AnchorsAreCheckpoints'
  BY <1>2, <1>3, <1>4 DEF AnchorsAreCheckpoints
<1> QED
  BY <1>5, IdleKeeps DEF Publish

LEMMA OrderStep == ChainTypeOK /\ OrderInv /\ [ChainNext]_chainVars => OrderInv'
<1> SUFFICES ASSUME ChainTypeOK, OrderInv, [ChainNext]_chainVars
             PROVE  OrderInv'
  OBVIOUS
<1>1. CASE UNCHANGED <<checkpoints, sweepers, anchored>>
  BY <1>1 DEF OrderInv, ChainIsLinear, AnchorsAreCheckpoints, Rooted, Extended, WorkInv, HeadRead
<1>2. CASE \E b \in Papers :
             \/ \E route \in Routes : BeginCast(b, route)
             \/ StampVote(b) \/ DateBulkVote(b) \/ StampBulkVote(b)
             \/ CommitCast(b) \/ RetryCast(b) \/ AbortCast(b)
  BY <1>1, <1>2
  DEF BeginCast, StampVote, DateBulkVote, StampBulkVote, CommitCast, RetryCast, AbortCast
<1>3. ASSUME NEW w \in Workers, WorkerStep(w) \/ SweeperDies(w)
      PROVE  OrderInv'
  <2>1. CASE ReadHead(w)
    BY <2>1, ReadHeadKeeps
  <2>2. CASE FoldEvents(w)
    BY <2>2, FoldKeeps
  <2>3. CASE InsertCheckpoint(w) /\ ~Taken(w)
    BY <2>3, ExtendKeeps
  <2>4. CASE InsertCheckpoint(w) /\ Taken(w)
    <3>1. AnchorsAreCheckpoints'
      BY <2>4 DEF InsertCheckpoint, GiveUp, OrderInv, AnchorsAreCheckpoints
    <3> QED
      BY <2>4, <3>1, IdleKeeps DEF InsertCheckpoint, GiveUp
  <2>5. CASE Publish(w)
    BY <2>5, PublishKeeps
  <2>6. CASE SweeperDies(w)
    <3>1. AnchorsAreCheckpoints'
      BY <2>6 DEF SweeperDies, OrderInv, AnchorsAreCheckpoints
    <3> QED
      BY <2>6, <3>1, IdleKeeps DEF SweeperDies
  <2> QED
    BY <1>3, <2>1, <2>2, <2>3, <2>4, <2>5, <2>6 DEF WorkerStep
<1>4. CASE ClockTicks \/ UNCHANGED chainVars
  BY <1>1, <1>4 DEF ClockTicks, chainVars
<1> QED
  BY <1>2, <1>3, <1>4 DEF ChainNext

(* One chain, and every anchor part of it (create_audit_checkpoint,           *)
(* _publish_checkpoint_externally): the two unique indexes are enough, the    *)
(* hash chain needs no lock.                                                  *)
THEOREM ChainAlwaysOrdered == ChainSpec => []ChainOrdered
<1>1. OrderInv => ChainOrdered
  BY DEF OrderInv, ChainOrdered
<1> QED
  BY <1>1, OrderInit, OrderStep, ChainTypeCorrect, PTL DEF ChainSpec

-----------------------------------------------------------------------------
(* Buckets: multiples of BucketLength, so that a later one begins at least a  *)
(* whole bucket later.                                                        *)

LEMMA BucketParts ==
    ASSUME NEW t \in Nat
    PROVE  \E q \in Nat : BucketStart(t) = q * BucketLength /\ q * BucketLength <= t /\ t < q * BucketLength + BucketLength
<1>1. BucketLength \in Nat /\ BucketLength > 0
  BY AuditAssumption
<1>2. t \div BucketLength \in Nat /\ t = BucketLength * (t \div BucketLength) + (t % BucketLength) /\ t % BucketLength \in 0 .. BucketLength - 1
  BY <1>1
<1>3. BucketStart(t) = BucketLength * (t \div BucketLength)
  BY <1>1, <1>2 DEF BucketStart
<1> QED
  BY <1>1, <1>2, <1>3

LEMMA TimesMono ==
    ASSUME NEW n \in Nat, NEW a \in Int, NEW b \in Int
    PROVE  /\ a <= b => a * n <= b * n
           /\ a < b => a * n + n <= b * n
<1>1. ASSUME a <= b PROVE a * n <= b * n
  BY <1>1
<1>2. ASSUME a < b PROVE a * n + n <= b * n
  <2>1. (a + 1) * n <= b * n
    BY <1>2
  <2>2. (a + 1) * n = a * n + n
    OBVIOUS
  <2> QED
    BY <2>1, <2>2
<1> QED
  BY <1>1, <1>2

LEMMA BucketOrder ==
    ASSUME NEW s \in Nat, NEW t \in Nat
    PROVE  /\ s <= t => BucketStart(s) <= BucketStart(t)
           /\ BucketStart(s) < BucketStart(t) => BucketStart(s) + BucketLength <= BucketStart(t)
<1>1. BucketLength \in Nat /\ BucketLength > 0
  BY AuditAssumption
<1>2. PICK p \in Nat : BucketStart(s) = p * BucketLength /\ p * BucketLength <= s /\ s < p * BucketLength + BucketLength
  BY BucketParts
<1>3. PICK q \in Nat : BucketStart(t) = q * BucketLength /\ q * BucketLength <= t /\ t < q * BucketLength + BucketLength
  BY BucketParts
<1>4. /\ p * BucketLength \in Nat /\ q * BucketLength \in Nat
      /\ p <= q => p * BucketLength <= q * BucketLength
      /\ q <= p => q * BucketLength <= p * BucketLength
      /\ p < q => p * BucketLength + BucketLength <= q * BucketLength
      /\ q < p => q * BucketLength + BucketLength <= p * BucketLength
  BY <1>1, TimesMono
<1> QED
  BY <1>1, <1>2, <1>3, <1>4

-----------------------------------------------------------------------------
(* Ballots that come by /vote are never passed over. *)

(* Every id handed out so far that a sweep can fold is below it, and every id *)
(* that can still be committed is not.                                        *)
SealId == (SealedBefore + BucketLength) * Randoms

(* An id carries the bucket of the time stored beside it. *)
Dated(id, cast_at) == /\ (cast_at + BucketLength) * Randoms <= id
                      /\ id < (cast_at + BucketLength) * Randoms + Randoms

EventsDated == \A e \in voteEvents : Dated(e.id, e.cast_at)

CastDated(b) ==
    /\ casts[b].pc # "dated"
    /\ casts[b].pc \in {"begun", "stamped"} => casts[b].route = "vote" /\ casts[b].begun <= wallClock
    /\ casts[b].pc = "stamped" => /\ Dated(casts[b].id, casts[b].cast_at)
                                  /\ BucketStart(casts[b].begun) <= casts[b].cast_at

(* A fold holds exactly the events between its head and its last id. *)
FoldWhole(w) ==
    sweepers[w].pc = "folded" =>
        /\ \A id \in sweepers[w].found : id < SealId /\ \E e \in voteEvents : e.id = id
        /\ \A e \in voteEvents :
              sweepers[w].last < e.id /\ e.id <= Max(sweepers[w].found) => e.id \in sweepers[w].found

Between(low, high) == {e.id : e \in {f \in voteEvents : f.id > low /\ f.id <= high}}

(* So does every checkpoint, beyond what it follows, and all of it is sealed. *)
CheckpointsWhole ==
    \A cp \in checkpoints : cp.to < SealId /\ cp.hash = cp.prev \cup Between(cp.from, cp.to)

SealInv ==
    /\ EventsDated
    /\ \A b \in Papers : CastDated(b)
    /\ \A w \in Workers : FoldWhole(w)
    /\ CheckpointsWhole
    /\ NoBallotSkipped

LEMMA AuditNumbers == /\ BucketLength \in Nat /\ BucketLength >= 1 /\ Randoms \in Nat /\ Randoms >= 1
                      /\ Grace \in Nat /\ TxnLifetime \in Nat /\ TxnLifetime <= Grace
BY AuditAssumption

(* The buckets the seal and an event's time begin are compared as times. *)
LEMMA EarlierBuckets ==
    ASSUME ChainTypeOK
    PROVE  /\ SealedBefore \in Nat
           /\ \A e \in voteEvents : e.cast_at \in Nat /\ e.id \in Nat
           /\ \A e \in voteEvents : e.cast_at < SealedBefore => e.cast_at + BucketLength <= SealedBefore
<1>1. wallClock \in Nat /\ Grace \in Nat
  BY AuditNumbers DEF ChainTypeOK
<1> DEFINE t == IF wallClock >= Grace THEN wallClock - Grace ELSE 0
<1>2. t \in Nat /\ SealedBefore = BucketStart(t)
  BY <1>1 DEF SealedBefore
<1>3. \A e \in voteEvents : e.id \in Nat /\ \E s \in Nat : e.cast_at = BucketStart(s)
  BY IdsAreNaturals DEF ChainTypeOK, EventDoc
<1>4. \A s \in Nat : BucketStart(s) \in Nat
  BY BucketStartType
<1> HIDE DEF t
<1>5. \A s \in Nat : BucketStart(s) < BucketStart(t) => BucketStart(s) + BucketLength <= BucketStart(t)
  BY <1>2, BucketOrder
<1> QED
  BY <1>2, <1>3, <1>4, <1>5

LEMMA SealType ==
    ASSUME ChainTypeOK
    PROVE  SealId \in Nat
BY EarlierBuckets, AuditNumbers DEF SealId

(* What is sealed has ids below the seal. *)
LEMMA SealedIds ==
    ASSUME ChainTypeOK, EventsDated, NEW e \in voteEvents, e.cast_at < SealedBefore
    PROVE  e.id < SealId
<1>1. e.cast_at \in Nat /\ SealedBefore \in Nat /\ e.cast_at + BucketLength <= SealedBefore /\ e.id \in Nat
  BY EarlierBuckets
<1>2. e.id < (e.cast_at + BucketLength) * Randoms + Randoms
  BY DEF EventsDated, Dated
<1>3. e.cast_at + BucketLength < SealedBefore + BucketLength
  BY <1>1, AuditNumbers
<1> DEFINE a == e.cast_at + BucketLength
           z == SealedBefore + BucketLength
<1>4. a \in Int /\ z \in Int /\ Randoms \in Nat
  BY <1>1, AuditNumbers
<1>5. a * Randoms + Randoms <= z * Randoms
  <2> HIDE DEF a, z
  <2>1. a < z => a * Randoms + Randoms <= z * Randoms
    BY <1>4, TimesMono
  <2> QED
    BY <1>3, <2>1 DEF a, z
<1>6. a * Randoms \in Int /\ z * Randoms \in Int
  BY <1>4
<1> QED
  BY <1>1, <1>2, <1>4, <1>5, <1>6 DEF SealId

(* Of two ids the lower was cast in no later a bucket. *)
LEMMA IdsFollowTime ==
    ASSUME ChainTypeOK, EventsDated, NEW e \in voteEvents, NEW f \in voteEvents, e.id <= f.id
    PROVE  e.cast_at <= f.cast_at
<1>1. e.cast_at \in Nat /\ f.cast_at \in Nat /\ e.id \in Nat /\ f.id \in Nat
  BY EarlierBuckets
<1> DEFINE a == e.cast_at + BucketLength
           z == f.cast_at + BucketLength
<1>2. a \in Int /\ z \in Int /\ Randoms \in Nat /\ BucketLength \in Nat
  BY <1>1, AuditNumbers
<1>3. a * Randoms <= e.id /\ f.id < z * Randoms + Randoms
  BY DEF EventsDated, Dated
<1>4. z < a => z * Randoms + Randoms <= a * Randoms
  <2> HIDE DEF a, z
  <2> QED
    BY <1>2, TimesMono
<1>5. a * Randoms \in Int /\ z * Randoms \in Int
  BY <1>2
<1>6. ~(z < a)
  <2> HIDE DEF a, z
  <2> QED
    BY <1>1, <1>2, <1>3, <1>4, <1>5
<1> QED
  BY <1>1, <1>2, <1>6

(* The time whose bucket the seal is at. *)
LastSure(time) == IF time >= Grace THEN time - Grace ELSE 0

LEMMA SureMoves ==
    ASSUME NEW c \in Nat, NEW d \in Nat, c <= d
    PROVE  LastSure(c) \in Nat /\ LastSure(d) \in Nat /\ LastSure(c) <= LastSure(d)
BY AuditNumbers DEF LastSure

(* The seal only moves on. *)
LEMMA SealMoves ==
    ASSUME ChainTypeOK, ChainTypeOK', wallClock <= wallClock'
    PROVE  SealId <= SealId' /\ SealId \in Nat /\ SealId' \in Nat
<1>1. wallClock \in Nat /\ wallClock' \in Nat
  BY DEF ChainTypeOK
<1> DEFINE t == LastSure(wallClock)
           u == LastSure(wallClock')
<1>2. t \in Nat /\ u \in Nat /\ t <= u
  BY <1>1, SureMoves
<1>3. SealedBefore = BucketStart(t) /\ SealedBefore' = BucketStart(u)
  BY DEF SealedBefore, BucketStart, LastSure
<1> HIDE DEF t, u
<1>4. BucketStart(t) <= BucketStart(u) /\ BucketStart(t) \in Nat /\ BucketStart(u) \in Nat
  BY <1>2, BucketOrder, BucketStartType
<1> DEFINE a == BucketStart(t) + BucketLength
           z == BucketStart(u) + BucketLength
<1>5. a \in Nat /\ z \in Nat /\ a <= z /\ Randoms \in Nat
  BY <1>4, AuditNumbers
<1>6. SealId = a * Randoms /\ SealId' = z * Randoms
  BY <1>3 DEF SealId
<1> HIDE DEF a, z
<1> QED
  BY <1>5, <1>6, TimesMono

(* A ballot that can still be committed has an id the seal has not reached. *)
LEMMA LateIdsAreSafe ==
    ASSUME ChainTypeOK, NEW b \in Papers, CastDated(b), casts[b].pc = "stamped",
           wallClock - casts[b].begun <= TxnLifetime
    PROVE  SealId <= casts[b].id
<1> DEFINE t == IF wallClock >= Grace THEN wallClock - Grace ELSE 0
<1>1. /\ wallClock \in Nat /\ casts[b].begun \in Nat /\ casts[b].id \in Nat
      /\ \E s \in Nat : casts[b].cast_at = BucketStart(s)
  BY IdsAreNaturals DEF ChainTypeOK, CastDoc
<1>2. t \in Nat /\ t <= casts[b].begun /\ SealedBefore = BucketStart(t)
  BY <1>1, AuditNumbers DEF SealedBefore
<1> HIDE DEF t
<1>3. BucketStart(t) <= BucketStart(casts[b].begun)
  BY <1>1, <1>2, BucketOrder
<1>4. BucketStart(casts[b].begun) <= casts[b].cast_at /\ (casts[b].cast_at + BucketLength) * Randoms <= casts[b].id
  BY DEF CastDated, Dated
<1>5. BucketStart(t) \in Nat /\ casts[b].cast_at \in Nat /\ BucketStart(casts[b].begun) \in Nat
  BY <1>1, <1>2, BucketStartType
<1> DEFINE a == SealedBefore + BucketLength
           z == casts[b].cast_at + BucketLength
<1>6. a \in Int /\ z \in Int /\ a <= z /\ Randoms \in Nat
  BY <1>2, <1>3, <1>4, <1>5, AuditNumbers
<1>7. a * Randoms <= z * Randoms
  <2> HIDE DEF a, z
  <2> QED
    BY <1>6, TimesMono
<1>8. a * Randoms \in Int /\ z * Randoms \in Int
  BY <1>6
<1> QED
  BY <1>1, <1>4, <1>7, <1>8 DEF SealId

LEMMA SealInit == ChainInit => SealInv
BY DEF ChainInit, SealInv, EventsDated, CastDated, FoldWhole, CheckpointsWhole, NoBallotSkipped,
       IdleCast, IdleWorker

(* What the sweeps rest on survives a step that commits nothing and ends no fold. *)
LEMMA SealOnly ==
    ASSUME ChainTypeOK, ChainTypeOK', SealInv, wallClock <= wallClock',
           UNCHANGED <<voteEvents, checkpoints>>
    PROVE  /\ EventsDated' /\ CheckpointsWhole' /\ NoBallotSkipped'
           /\ \A w \in Workers : sweepers'[w] = sweepers[w] => FoldWhole(w)'
<1>1. SealId \in Nat /\ SealId' \in Nat /\ SealId <= SealId'
  BY SealMoves
<1>2. \A id \in StampIds : id \in Nat
  BY IdsAreNaturals
<1>3. EventsDated' /\ NoBallotSkipped'
  BY DEF SealInv, EventsDated, NoBallotSkipped, Covered
<1>4. CheckpointsWhole'
  BY <1>1, <1>2 DEF SealInv, CheckpointsWhole, Between, ChainTypeOK, Checkpoint
<1>5. ASSUME NEW w \in Workers, sweepers'[w] = sweepers[w]
      PROVE  FoldWhole(w)'
  BY <1>1, <1>2, <1>5 DEF SealInv, FoldWhole, ChainTypeOK, WorkerDoc
<1> QED
  BY <1>3, <1>4, <1>5

(* The ballots' transactions. *)

LEMMA StampDated ==
    ASSUME NEW t \in Nat, NEW id \in Stamps(t)
    PROVE  Dated(id, BucketStart(t))
<1>1. PICK k \in 0 .. Randoms - 1 : id = (BucketStart(t) + BucketLength) * Randoms + k
  BY DEF Stamps
<1>2. (BucketStart(t) + BucketLength) * Randoms \in Int
  BY BucketStartType, AuditNumbers
<1> QED
  BY <1>1, <1>2, AuditNumbers DEF Dated

LEMMA CastsStayDated ==
    ASSUME OneReading', ChainTypeOK, SealInv, NEW b \in Papers,
           \/ \E route \in Routes : BeginCast(b, route)
           \/ StampVote(b) \/ DateBulkVote(b) \/ StampBulkVote(b)
           \/ CommitCast(b) \/ RetryCast(b) \/ AbortCast(b)
    PROVE  \A c \in Papers : CastDated(c)'
<1>1. /\ casts \in [Papers -> CastDoc] /\ CastDated(b) /\ wallClock \in Nat /\ casts[b].begun \in Nat
      /\ \A c \in Papers : CastDated(c)
  BY DEF ChainTypeOK, SealInv, CastDoc
<1>2. /\ UNCHANGED wallClock
      /\ \A c \in Papers \ {b} : casts'[c] = casts[c]
  BY <1>1 DEF BeginCast, StampVote, DateBulkVote, StampBulkVote, CommitCast, RetryCast, AbortCast
<1>3. SUFFICES CastDated(b)'
  BY <1>1, <1>2 DEF CastDated
<1>4. CASE \E route \in Routes : BeginCast(b, route)
  <2>1. PICK route \in Routes : BeginCast(b, route)
    BY <1>4
  <2>2. casts'[b].pc = "begun" /\ casts'[b].route = "vote" /\ casts'[b].begun = wallClock
    BY <1>1, <2>1 DEF BeginCast, CastDoc, OneReading
  <2> QED
    BY <1>1, <1>2, <2>2 DEF CastDated
<1>5. CASE StampVote(b)
  <2>1. PICK id \in Stamps(wallClock) :
            casts' = [casts EXCEPT ![b].pc = "stamped", ![b].cast_at = BucketStart(wallClock), ![b].id = id]
    BY <1>5 DEF StampVote
  <2>2. /\ casts'[b].pc = "stamped" /\ casts'[b].cast_at = BucketStart(wallClock) /\ casts'[b].id = id
        /\ casts'[b].begun = casts[b].begun /\ casts'[b].route = casts[b].route
    BY <1>1, <2>1 DEF CastDoc
  <2>3. Dated(id, BucketStart(wallClock))
    BY <1>1, StampDated
  <2>4. casts[b].route = "vote" /\ casts[b].begun <= wallClock
    BY <1>1, <1>5 DEF StampVote, CastDated
  <2>5. BucketStart(casts[b].begun) <= BucketStart(wallClock)
    BY <1>1, <2>4, BucketOrder
  <2>6. Dated(casts'[b].id, casts'[b].cast_at)
    BY <2>2, <2>3
  <2>7. BucketStart(casts'[b].begun) <= casts'[b].cast_at
    BY <2>2, <2>5
  <2> QED
    BY <1>2, <2>2, <2>4, <2>6, <2>7 DEF CastDated, Dated, BucketStart
<1>6. CASE DateBulkVote(b) \/ StampBulkVote(b)
  BY <1>1, <1>6 DEF DateBulkVote, StampBulkVote, CastDated
<1>7. CASE CommitCast(b) \/ AbortCast(b)
  <2>1. casts'[b].pc = "done"
    BY <1>1, <1>7 DEF CommitCast, AbortCast, CastDoc
  <2> QED
    BY <2>1 DEF CastDated
<1>8. CASE RetryCast(b)
  <2>1. casts'[b].pc = "begun" /\ casts'[b].route = casts[b].route /\ casts'[b].begun = wallClock
    BY <1>1, <1>8 DEF RetryCast, CastDoc
  <2>2. casts[b].route = "vote"
    BY <1>1, <1>8 DEF RetryCast, CastDated
  <2> QED
    BY <1>1, <1>2, <2>1, <2>2 DEF CastDated
<1> QED
  BY <1>4, <1>5, <1>6, <1>7, <1>8

(* A ballot that lands lands beyond everything that is sealed. *)
LEMMA CommitKeeps ==
    ASSUME ChainTypeOK, FoundSome, SealInv, NEW b \in Papers, CommitCast(b)
    PROVE  EventsDated' /\ CheckpointsWhole' /\ NoBallotSkipped' /\ \A w \in Workers : FoldWhole(w)'
<1> DEFINE e == [id |-> casts[b].id, cast_at |-> casts[b].cast_at]
<1>1. voteEvents' = voteEvents \cup {e} /\ UNCHANGED <<checkpoints, sweepers, wallClock>> /\ casts[b].pc = "stamped"
  BY DEF CommitCast
<1>2. CastDated(b) /\ SealId <= casts[b].id /\ casts[b].id \in Nat /\ SealId \in Nat
  BY LateIdsAreSafe, SealType, IdsAreNaturals DEF SealInv, CommitCast, ChainTypeOK, CastDoc
<1>3. Dated(e.id, e.cast_at) /\ e.id = casts[b].id
  BY <1>1, <1>2 DEF CastDated
<1>4. SealId <= e.id /\ e.id \in Nat
  BY <1>2
<1>5. SealId' = SealId
  BY <1>1 DEF SealId, SealedBefore, BucketStart
<1> HIDE DEF e
<1>6. EventsDated'
  BY <1>1, <1>3 DEF SealInv, EventsDated, Dated
<1>7. \A cp \in checkpoints : cp.to < e.id /\ cp.to \in Nat
  BY <1>2, <1>4, IdsAreNaturals DEF SealInv, CheckpointsWhole, ChainTypeOK, Checkpoint
<1>8. NoBallotSkipped'
  BY <1>1, <1>4, <1>7 DEF SealInv, NoBallotSkipped, Covered
<1>9. CheckpointsWhole'
  <2>1. \A cp \in checkpoints : Between(cp.from, cp.to)' = Between(cp.from, cp.to)
    BY <1>1, <1>4, <1>7 DEF Between
  <2>2. \A cp \in checkpoints : cp.to < SealId'
    BY <1>5 DEF SealInv, CheckpointsWhole
  <2>3. \A cp \in checkpoints : cp.hash = cp.prev \cup Between(cp.from, cp.to)
    BY DEF SealInv, CheckpointsWhole
  <2> QED
    BY <1>1, <2>1, <2>2, <2>3 DEF CheckpointsWhole, Between
<1>10. ASSUME NEW w \in Workers, sweepers[w].pc = "folded"
       PROVE  FoldWhole(w)'
  <2> DEFINE found == sweepers[w].found
  <2>1. FoldWhole(w) /\ found \in SUBSET StampIds
    BY DEF SealInv, ChainTypeOK, WorkerDoc
  <2>2. \A id \in found : id < SealId /\ \E f \in voteEvents : f.id = id
    BY <1>10, <2>1 DEF FoldWhole
  <2>3. Max(found) \in found
    BY <1>10, <2>1, MaxOfIds DEF FoundSome
  <2>4. Max(found) < e.id
    BY <1>2, <1>4, <2>1, <2>2, <2>3, IdsAreNaturals
  <2>5. \A f \in voteEvents : sweepers[w].last < f.id /\ f.id <= Max(found) => f.id \in found
    BY <1>10, <2>1 DEF FoldWhole
  <2>6. \A f \in voteEvents' : sweepers[w].last < f.id /\ f.id <= Max(found) => f.id \in found
    BY <1>1, <1>4, <2>1, <2>3, <2>4, <2>5, IdsAreNaturals
  <2>7. \A id \in found : id < SealId' /\ \E f \in voteEvents' : f.id = id
    BY <1>1, <1>5, <2>2
  <2> QED
    BY <1>1, <2>6, <2>7 DEF FoldWhole
<1>11. ASSUME NEW w \in Workers, sweepers[w].pc # "folded"
       PROVE  FoldWhole(w)'
  BY <1>1, <1>11 DEF FoldWhole
<1> QED
  BY <1>6, <1>8, <1>9, <1>10, <1>11

(* The sweeps. *)

LEMMA FoldIsWhole ==
    ASSUME ChainTypeOK, SealInv, NEW w \in Workers, FoldEvents(w)
    PROVE  FoldWhole(w)'
<1> DEFINE found == {e.id : e \in {f \in voteEvents : Foldable(f, sweepers[w].last)}}
<1>1. UNCHANGED <<voteEvents, wallClock>> /\ sweepers \in [Workers -> WorkerDoc]
  BY DEF FoldEvents, ChainTypeOK
<1>2. found \in SUBSET StampIds
  BY DEF ChainTypeOK, EventDoc
<1>3. CASE found = {}
  BY <1>1, <1>3 DEF FoldEvents, IdleWorker, FoldWhole
<1>4. CASE found # {}
  <2>1. sweepers'[w].found = found /\ sweepers'[w].last = sweepers[w].last
    BY <1>1, <1>4 DEF FoldEvents, WorkerDoc
  <2>2. EventsDated
    BY DEF SealInv
  <2>3. \A id \in found : \E e \in voteEvents : e.id = id /\ e.cast_at < SealedBefore
    BY DEF Foldable
  <2>4. \A id \in found : id < SealId
    BY <2>2, <2>3, SealedIds
  <2>5. Max(found) \in found
    BY <1>2, <1>4, MaxOfIds
  <2>6. ASSUME NEW e \in voteEvents, sweepers[w].last < e.id, e.id <= Max(found)
        PROVE  e.id \in found
    <3>1. PICK f \in voteEvents : f.id = Max(found) /\ f.cast_at < SealedBefore
      BY <2>3, <2>5
    <3>2. e.cast_at <= f.cast_at
      BY <2>2, <2>6, <3>1, IdsFollowTime
    <3>3. e.cast_at < SealedBefore /\ e.id > sweepers[w].last
      <4>1. e.cast_at \in Nat /\ f.cast_at \in Nat /\ SealedBefore \in Nat /\ e.id \in Nat
        BY EarlierBuckets
      <4>2. sweepers[w].last \in Int
        BY <1>1, IdsAreNaturals DEF WorkerDoc, Genesis
      <4> QED
        BY <2>6, <3>1, <3>2, <4>1, <4>2
    <3> QED
      BY <3>3 DEF Foldable
  <2>7. SealId' = SealId
    BY <1>1 DEF SealId, SealedBefore, BucketStart
  <2> HIDE DEF found
  <2>8. \A id \in found : id < SealId' /\ \E e \in voteEvents' : e.id = id
    BY <1>1, <2>3, <2>4, <2>7
  <2>9. \A e \in voteEvents' : sweepers[w].last < e.id /\ e.id <= Max(found) => e.id \in found
    BY <1>1, <2>6
  <2> QED
    BY <2>1, <2>8, <2>9 DEF FoldWhole
<1> QED
  BY <1>3, <1>4

(* A checkpoint that gets in covers every event up to its last id. *)
LEMMA CheckpointKeeps ==
    ASSUME ChainTypeOK, OrderInv, SealInv, NEW w \in Workers, InsertCheckpoint(w), ~Taken(w)
    PROVE  CheckpointsWhole' /\ NoBallotSkipped' /\ \A v \in Workers : FoldWhole(v)'
<1> DEFINE work == sweepers[w]
           new == [from |-> work.last, to |-> Max(work.found), count |-> Cardinality(work.found),
                   prev |-> work.prev, hash |-> work.prev \cup work.found]
<1>1. /\ checkpoints' = checkpoints \cup {new} /\ UNCHANGED <<voteEvents, wallClock>> /\ work.pc = "folded"
      /\ sweepers' = [sweepers EXCEPT ![w].pc = "publish"]
  BY DEF InsertCheckpoint, Extend
<1>2. /\ sweepers \in [Workers -> WorkerDoc]
      /\ work.found \in SUBSET StampIds /\ work.last \in StampIds \cup {Genesis}
  BY DEF ChainTypeOK, WorkerDoc
<1>3. work.found # {} /\ (\A id \in work.found : id > work.last) /\ HeadRead(work.last, work.prev)
  BY <1>1 DEF OrderInv, WorkInv
<1>4. Max(work.found) \in work.found /\ \A id \in work.found : id <= Max(work.found)
  BY <1>2, <1>3, MaxOfIds
<1>5. /\ \A id \in work.found : id < SealId /\ \E e \in voteEvents : e.id = id
      /\ \A e \in voteEvents : work.last < e.id /\ e.id <= Max(work.found) => e.id \in work.found
  BY <1>1 DEF SealInv, FoldWhole
<1>6. work.found = Between(work.last, Max(work.found))
  <2>1. \A id \in work.found : id \in Between(work.last, Max(work.found))
    BY <1>3, <1>4, <1>5 DEF Between
  <2>2. \A e \in voteEvents : e.id \in Nat
    BY EarlierBuckets
  <2>3. Max(work.found) \in Nat /\ work.last \in Int
    BY <1>2, <1>4, IdsAreNaturals DEF Genesis
  <2>4. \A id \in Between(work.last, Max(work.found)) : id \in work.found
    BY <1>5, <2>2, <2>3 DEF Between
  <2> QED
    BY <2>1, <2>4
<1>7. /\ new.from = work.last /\ new.to = Max(work.found) /\ new.prev = work.prev
      /\ new.hash = work.prev \cup work.found
  OBVIOUS
<1>8. SealId' = SealId
  BY <1>1 DEF SealId, SealedBefore, BucketStart
<1>9. new.to < SealId /\ new.hash = new.prev \cup Between(new.from, new.to)
  BY <1>4, <1>5, <1>6, <1>7
<1> HIDE DEF new
<1>10. CheckpointsWhole'
  BY <1>1, <1>8, <1>9 DEF SealInv, CheckpointsWhole, Between
<1>11. NoBallotSkipped'
  <2> SUFFICES ASSUME NEW e \in voteEvents, NEW cp \in checkpoints', e.id <= cp.to
               PROVE  \E c \in checkpoints' : e.id \in c.hash
    BY <1>1 DEF NoBallotSkipped, Covered
  <2>1. e.id \in Nat
    BY EarlierBuckets
  <2>2. (\E c \in checkpoints : e.id <= c.to) => \E c \in checkpoints : e.id \in c.hash
    BY DEF SealInv, NoBallotSkipped, Covered
  <2>3. CASE cp \in checkpoints
    BY <1>1, <2>2, <2>3
  <2>4. CASE cp = new
    <3>1. CASE e.id > work.last
      <4>1. work.last < e.id
        BY <1>2, <2>1, <3>1, IdsAreNaturals DEF Genesis
      <4>2. e.id \in work.found
        BY <1>5, <1>7, <2>4, <4>1
      <4> QED
        BY <1>1, <1>7, <4>2
    <3>2. CASE ~(e.id > work.last)
      <4>1. e.id <= work.last
        BY <1>2, <2>1, <3>2, IdsAreNaturals DEF Genesis
      <4>2. PICK c \in checkpoints : c.to = work.last
        BY <1>3, <2>1, <4>1 DEF HeadRead, Genesis
      <4> QED
        BY <1>1, <2>2, <4>1, <4>2
    <3> QED
      BY <3>1, <3>2
  <2> QED
    BY <1>1, <2>3, <2>4
<1>12. ASSUME NEW v \in Workers
       PROVE  FoldWhole(v)'
  <2>1. CASE v = w
    <3>1. sweepers'[v].pc = "publish"
      BY <1>1, <1>2, <2>1 DEF WorkerDoc
    <3> QED
      BY <3>1 DEF FoldWhole
  <2>2. CASE v # w
    <3>1. sweepers'[v] = sweepers[v] /\ FoldWhole(v)
      BY <1>1, <1>2, <2>2 DEF SealInv
    <3> QED
      BY <1>1, <1>8, <3>1 DEF FoldWhole
  <2> QED
    BY <2>1, <2>2
<1> QED
  BY <1>10, <1>11, <1>12

LEMMA SealStep ==
    ASSUME OneReading', ChainTypeOK, ChainTypeOK', FoundSome, OrderInv, SealInv, [ChainNext]_chainVars
    PROVE  SealInv'
<1>1. \A b \in Papers : CastDated(b)
  BY DEF SealInv
<1>2. /\ wallClock \in Nat /\ casts \in [Papers -> CastDoc] /\ sweepers \in [Workers -> WorkerDoc]
      /\ \A b \in Papers : casts[b].begun \in Nat
  BY DEF ChainTypeOK, CastDoc
<1>3. ASSUME NEW b \in Papers,
             \/ \E route \in Routes : BeginCast(b, route)
             \/ StampVote(b) \/ DateBulkVote(b) \/ StampBulkVote(b) \/ RetryCast(b) \/ AbortCast(b)
      PROVE  SealInv'
  <2>1. UNCHANGED <<wallClock, voteEvents, checkpoints, sweepers>>
    BY <1>3 DEF BeginCast, StampVote, DateBulkVote, StampBulkVote, RetryCast, AbortCast
  <2>2. \A c \in Papers : CastDated(c)'
    BY <1>3, CastsStayDated
  <2>3. wallClock <= wallClock'
    BY <1>2, <2>1
  <2> QED
    BY <2>1, <2>2, <2>3, SealOnly DEF SealInv
<1>4. ASSUME NEW b \in Papers, CommitCast(b)
      PROVE  SealInv'
  <2>1. \A c \in Papers : CastDated(c)'
    BY <1>4, CastsStayDated
  <2> QED
    BY <1>4, <2>1, CommitKeeps DEF SealInv
<1>5. ASSUME NEW w \in Workers, WorkerStep(w) \/ SweeperDies(w)
      PROVE  SealInv'
  <2>1. UNCHANGED <<wallClock, casts, voteEvents>>
    BY <1>5 DEF WorkerStep, ReadHead, FoldEvents, InsertCheckpoint, Publish, SweeperDies
  <2>2. \A b \in Papers : CastDated(b)'
    BY <1>1, <2>1 DEF CastDated
  <2>3. EventsDated' /\ wallClock <= wallClock'
    BY <1>2, <2>1 DEF SealInv, EventsDated
  <2>4. CASE InsertCheckpoint(w) /\ ~Taken(w)
    BY <2>2, <2>3, <2>4, CheckpointKeeps DEF SealInv
  <2>5. CASE ~(InsertCheckpoint(w) /\ ~Taken(w))
    <3>1. UNCHANGED checkpoints
      BY <1>5, <2>5 DEF WorkerStep, ReadHead, FoldEvents, InsertCheckpoint, GiveUp, Publish, SweeperDies
    <3>2. \A v \in Workers \ {w} : sweepers'[v] = sweepers[v]
      BY <1>2, <1>5 DEF WorkerStep, ReadHead, FoldEvents, InsertCheckpoint, GiveUp, Extend, Publish, SweeperDies
    <3>3. FoldEvents(w) \/ sweepers'[w].pc # "folded"
      BY <1>2, <1>5, <2>5
      DEF WorkerStep, ReadHead, InsertCheckpoint, GiveUp, Publish, SweeperDies, IdleWorker
    <3>4. FoldWhole(w)'
      BY <3>3, FoldIsWhole DEF FoldWhole
    <3> QED
      BY <2>1, <2>2, <2>3, <3>1, <3>2, <3>4, SealOnly DEF SealInv
  <2> QED
    BY <2>4, <2>5
<1>6. CASE ClockTicks
  <2>1. UNCHANGED <<casts, voteEvents, checkpoints, sweepers>> /\ wallClock' = wallClock + 1
    BY <1>6 DEF ClockTicks
  <2>2. \A b \in Papers : CastDated(b)'
    BY <1>1, <1>2, <2>1 DEF CastDated
  <2> QED
    BY <1>2, <2>1, <2>2, SealOnly DEF SealInv
<1>7. CASE UNCHANGED chainVars
  BY <1>1, <1>2, <1>7, SealOnly DEF chainVars, SealInv, CastDated
<1> QED
  BY <1>3, <1>4, <1>5, <1>6, <1>7 DEF ChainNext

(* What the verifier recomputes along a chain that does not fork is what was stored. *)
LEMMA WholeChainVerifies ==
    ASSUME ChainTypeOK, ChainIsLinear, CheckpointsWhole
    PROVE  ChainVerifies
<1> SUFFICES ASSUME NEW cp \in checkpoints
             PROVE  Recomputed(cp) = cp.hash
  BY DEF ChainVerifies
<1>1. \A c \in checkpoints : c.to \in Nat /\ c.from \in Int /\ c.from < c.to
  BY IdsAreNaturals DEF ChainTypeOK, Checkpoint, Genesis, ChainIsLinear
<1>2. \A c, d \in checkpoints : c # d => d.to <= c.from \/ c.to <= d.from
  BY DEF ChainIsLinear
<1>3. cp.hash = cp.prev \cup Between(cp.from, cp.to)
  BY DEF CheckpointsWhole
<1>4. CASE cp.from = Genesis
  <2>1. Before(cp) = {}
    BY <1>1, <1>2, <1>4 DEF Before, Genesis
  <2>2. cp.prev = {}
    BY <1>4 DEF ChainIsLinear
  <2> QED
    BY <1>3, <2>1, <2>2 DEF Recomputed, Between
<1>5. CASE cp.from # Genesis
  <2>1. PICK c \in checkpoints : c.to = cp.from /\ c.hash = cp.prev
    BY <1>5 DEF ChainIsLinear
  <2>2. c \in Before(cp)
    BY <1>1, <2>1 DEF Before
  <2>3. ASSUME NEW d \in Before(cp)
        PROVE  d.to <= c.to /\ (d # c => d.to < c.to)
    BY <1>1, <1>2, <2>1, <2>3 DEF Before
  <2>4. \A d \in Before(cp) : (\A x \in Before(cp) : x.to <= d.to) => d = c
    BY <1>1, <2>1, <2>2, <2>3 DEF Before
  <2>5. (CHOOSE d \in Before(cp) : \A x \in Before(cp) : x.to <= d.to) = c
    BY <2>2, <2>3, <2>4
  <2> QED
    BY <1>3, <2>1, <2>2, <2>5 DEF Recomputed, Between
<1> QED
  BY <1>4, <1>5

(* A ballot takes its route when it is begun, and keeps it. *)
BegunOnce == \A b \in Papers : casts[b].pc = "idle" => casts[b].route = "vote"

LEMMA RoutesKept ==
    ASSUME ChainTypeOK, BegunOnce, [ChainNext]_chainVars
    PROVE  BegunOnce' /\ (OneReading' => OneReading)
<1>1. casts \in [Papers -> CastDoc]
  BY DEF ChainTypeOK
<1>2. ASSUME NEW b \in Papers,
             \/ \E route \in Routes : BeginCast(b, route)
             \/ StampVote(b) \/ DateBulkVote(b) \/ StampBulkVote(b)
             \/ CommitCast(b) \/ RetryCast(b) \/ AbortCast(b)
      PROVE  BegunOnce' /\ (OneReading' => OneReading)
  <2>1. /\ casts'[b].pc # "idle"
        /\ casts[b].pc = "idle" \/ casts'[b].route = casts[b].route
    <3>1. CASE \E route \in Routes : BeginCast(b, route)
      BY <1>1, <3>1 DEF BeginCast, CastDoc
    <3>2. CASE StampVote(b)
      BY <1>1, <3>2 DEF StampVote, CastDoc
    <3>3. CASE DateBulkVote(b) \/ StampBulkVote(b)
      BY <1>1, <3>3 DEF DateBulkVote, StampBulkVote, CastDoc
    <3>4. CASE CommitCast(b) \/ RetryCast(b) \/ AbortCast(b)
      BY <1>1, <3>4 DEF CommitCast, RetryCast, AbortCast, CastDoc
    <3> QED
      BY <1>2, <3>1, <3>2, <3>3, <3>4
  <2>2. \A c \in Papers \ {b} : casts'[c] = casts[c]
    BY <1>1, <1>2
    DEF BeginCast, StampVote, DateBulkVote, StampBulkVote, CommitCast, RetryCast, AbortCast
  <2>3. BegunOnce'
    BY <2>1, <2>2 DEF BegunOnce
  <2>4. ASSUME OneReading' PROVE OneReading
    BY <2>1, <2>2, <2>4 DEF BegunOnce, OneReading
  <2> QED
    BY <2>3, <2>4
<1>3. ASSUME UNCHANGED casts
      PROVE  BegunOnce' /\ (OneReading' => OneReading)
  BY <1>3 DEF BegunOnce, OneReading
<1>4. ASSUME NEW w \in Workers, WorkerStep(w) \/ SweeperDies(w)
      PROVE  UNCHANGED casts
  BY <1>4 DEF WorkerStep, ReadHead, FoldEvents, InsertCheckpoint, Publish, SweeperDies
<1>5. ASSUME ClockTicks \/ UNCHANGED chainVars PROVE UNCHANGED casts
  BY <1>5 DEF ClockTicks, chainVars
<1> QED
  BY <1>2, <1>3, <1>4, <1>5 DEF ChainNext

(* The figures of the integrity report. *)

CountInv == IsFiniteSet(voteEvents) /\ IsFiniteSet(Tallied) /\ CountsAddUp

(* An id lies in the bucket of its event's time, so no two events share one.  *)
LEMMA OneEventPerId ==
    ASSUME ChainTypeOK, EventsDated, NEW e \in voteEvents, NEW f \in voteEvents, e.id = f.id
    PROVE  e = f
<1>1. e.cast_at \in Nat /\ f.cast_at \in Nat /\ e.id \in Nat /\ f.id \in Nat
  BY EarlierBuckets
<1>2. e.cast_at <= f.cast_at /\ f.cast_at <= e.cast_at
  <2>1. e.id <= f.id /\ f.id <= e.id
    BY <1>1
  <2> QED
    BY <2>1, IdsFollowTime
<1>3. e.cast_at = f.cast_at
  BY <1>1, <1>2
<1> QED
  BY <1>3 DEF ChainTypeOK, EventDoc

LEMMA CountInit == ChainInit => CountInv
<1> SUFFICES ASSUME ChainInit PROVE CountInv
  OBVIOUS
<1>1. voteEvents = {} /\ Tallied = {} /\ Uncheckpointed = {}
  BY DEF ChainInit, Tallied, Uncheckpointed
<1> QED
  BY <1>1, FS_EmptySet DEF CountInv, CountsAddUp

LEMMA CountsStay ==
    ASSUME CountInv, UNCHANGED <<voteEvents, checkpoints>>
    PROVE  CountInv'
BY DEF CountInv, CountsAddUp, Tallied, Uncheckpointed

(* A ballot that commits is one more of those still to be covered. *)
LEMMA CommitCounts ==
    ASSUME ChainTypeOK, SealInv, CountInv, NEW b \in Papers, CommitCast(b)
    PROVE  CountInv'
<1> DEFINE e == [id |-> casts[b].id, cast_at |-> casts[b].cast_at]
<1>1. voteEvents' = voteEvents \cup {e} /\ UNCHANGED checkpoints /\ casts[b].pc = "stamped"
  BY DEF CommitCast
<1>2. SealId <= e.id /\ e.id \in Nat /\ SealId \in Nat
  BY LateIdsAreSafe, SealType, IdsAreNaturals DEF SealInv, CommitCast, ChainTypeOK, CastDoc
<1> HIDE DEF e
<1>3. \A cp \in checkpoints : e.id > cp.to
  BY <1>2, IdsAreNaturals DEF SealInv, CheckpointsWhole, ChainTypeOK, Checkpoint
<1>4. Tallied' = Tallied /\ Uncheckpointed' = Uncheckpointed \cup {e}
  BY <1>1, <1>3 DEF Tallied, Uncheckpointed
<1>5. IsFiniteSet(Uncheckpointed) /\ Uncheckpointed \subseteq voteEvents
  BY FS_Subset DEF CountInv, Uncheckpointed
<1>6. e \in Uncheckpointed <=> e \in voteEvents
  BY <1>3 DEF Uncheckpointed
<1>7. /\ IsFiniteSet(voteEvents')
      /\ Cardinality(voteEvents') = IF e \in voteEvents THEN Cardinality(voteEvents) ELSE Cardinality(voteEvents) + 1
  BY <1>1, FS_AddElement DEF CountInv
<1>8. Cardinality(Uncheckpointed')
        = IF e \in Uncheckpointed THEN Cardinality(Uncheckpointed) ELSE Cardinality(Uncheckpointed) + 1
  BY <1>4, <1>5, FS_AddElement
<1>9. Cardinality(Tallied) \in Nat /\ Cardinality(Uncheckpointed) \in Nat /\ Cardinality(voteEvents) \in Nat
  BY <1>5, FS_CardinalityType DEF CountInv
<1>10. CountsAddUp'
  BY <1>4, <1>6, <1>7, <1>8, <1>9 DEF CountInv, CountsAddUp
<1> QED
  BY <1>4, <1>7, <1>10 DEF CountInv

(* A checkpoint counts the events it takes from those still to be covered. *)
LEMMA CheckpointCounts ==
    ASSUME ChainTypeOK, OrderInv, SealInv, CountInv, NEW w \in Workers, InsertCheckpoint(w), ~Taken(w)
    PROVE  CountInv'
<1> DEFINE work == sweepers[w]
           new == [from |-> work.last, to |-> Max(work.found), count |-> Cardinality(work.found),
                   prev |-> work.prev, hash |-> work.prev \cup work.found]
           taken == {e \in voteEvents : e.id \in work.found}
           n == Cardinality(work.found)
<1>1. checkpoints' = checkpoints \cup {new} /\ UNCHANGED voteEvents /\ work.pc = "folded"
  BY DEF InsertCheckpoint, Extend
<1>2. work.found \in SUBSET StampIds /\ work.last \in StampIds \cup {Genesis}
  BY DEF ChainTypeOK, WorkerDoc
<1>3. work.found # {} /\ \A id \in work.found : id > work.last
  BY <1>1 DEF OrderInv, WorkInv
<1>4. Max(work.found) \in work.found /\ \A id \in work.found : id <= Max(work.found)
  BY <1>2, <1>3, MaxOfIds
<1>5. /\ \A id \in work.found : \E e \in voteEvents : e.id = id
      /\ \A e \in voteEvents : work.last < e.id /\ e.id <= Max(work.found) => e.id \in work.found
  BY <1>1 DEF SealInv, FoldWhole
<1>6. \A cp \in checkpoints : cp.to <= work.last
  BY <1>1, ExtendFollows
<1>7. /\ \A cp \in checkpoints : cp.to \in Nat /\ cp.from \in Int
      /\ \A e \in voteEvents : e.id \in Nat
      /\ Max(work.found) \in Nat /\ work.last \in Int /\ \A id \in work.found : id \in Nat
  BY <1>2, <1>4, IdsAreNaturals DEF ChainTypeOK, Checkpoint, EventDoc, Genesis
<1>8. taken \subseteq Uncheckpointed
  BY <1>3, <1>6, <1>7 DEF Uncheckpointed
<1>9. new.to = Max(work.found) /\ new.from = work.last /\ new.count = n
  OBVIOUS
<1>10. new \notin checkpoints
  <2>1. new.to > work.last
    BY <1>3, <1>4, <1>7, <1>9
  <2> QED
    BY <1>6, <1>7, <1>9, <2>1
<1> HIDE DEF new
<1>11. Uncheckpointed' = Uncheckpointed \ taken
  <2>1. Uncheckpointed' = {e \in Uncheckpointed : e.id > new.to}
    BY <1>1 DEF Uncheckpointed
  <2>2. ASSUME NEW e \in Uncheckpointed PROVE e.id > new.to <=> e \notin taken
    <3>1. e \in voteEvents /\ e.id \in Nat /\ \A cp \in checkpoints : e.id > cp.to
      BY <1>7 DEF Uncheckpointed
    <3>2. work.last < e.id
      <4>1. HeadRead(work.last, work.prev)
        BY <1>1 DEF OrderInv, WorkInv
      <4> QED
        BY <3>1, <4>1 DEF HeadRead, Genesis
    <3> QED
      BY <1>4, <1>5, <1>7, <1>9, <3>1, <3>2
  <2> QED
    BY <2>1, <2>2
<1>12. IsFiniteSet(Uncheckpointed) /\ IsFiniteSet(taken) /\ IsFiniteSet(voteEvents)
  BY FS_Subset DEF CountInv, Uncheckpointed
<1>13. IsFiniteSet(work.found) /\ Cardinality(taken) = n
  <2> DEFINE f == [e \in taken |-> e.id]
  <2>1. \A d, e \in taken : d.id = e.id => d = e
    BY OneEventPerId DEF SealInv
  <2>2. \A id \in work.found : \E e \in taken : e.id = id
    BY <1>5
  <2>3. f \in Bijection(taken, work.found)
    BY <2>1, <2>2 DEF Bijection, Injection, Surjection, IsInjective
  <2>4. ExistsBijection(taken, work.found)
    BY <2>3 DEF ExistsBijection
  <2> QED
    BY <1>12, <2>4, FS_Bijection
<1>14. n \in Nat
  BY <1>13, FS_CardinalityType
<1> HIDE DEF n, taken
<1>15. IsFiniteSet({new} \X (1 .. n)) /\ Cardinality({new} \X (1 .. n)) = n
  <2>1. IsFiniteSet({new}) /\ Cardinality({new}) = 1
    BY FS_Singleton
  <2>2. IsFiniteSet(1 .. n) /\ Cardinality(1 .. n) = n
    BY <1>14, FS_Interval
  <2>3. IsFiniteSet({new} \X (1 .. n)) /\ Cardinality({new} \X (1 .. n)) = Cardinality({new}) * Cardinality(1 .. n)
    BY <2>1, <2>2, FS_Product
  <2>4. Cardinality({new}) * Cardinality(1 .. n) = 1 * n
    BY <2>1, <2>2
  <2>5. 1 * n = n
    BY <1>14
  <2> QED
    BY <2>3, <2>4, <2>5
<1>16. Tallied' = Tallied \cup ({new} \X (1 .. n))
  BY <1>1, <1>9 DEF Tallied
<1>17. Tallied \cap ({new} \X (1 .. n)) = {}
  <2>1. ASSUME NEW x \in Tallied, x \in {new} \X (1 .. n) PROVE FALSE
    <3>1. PICK cp \in checkpoints : x \in {cp} \X (1 .. cp.count)
      BY DEF Tallied
    <3>2. x[1] = cp /\ x[1] = new
      BY <2>1, <3>1
    <3> QED
      BY <1>10, <3>2
  <2> QED
    BY <2>1
<1>18. IsFiniteSet(Tallied') /\ Cardinality(Tallied') = Cardinality(Tallied) + n
  <2>1. IsFiniteSet(Tallied) /\ Cardinality({}) = 0 /\ Cardinality(Tallied) \in Nat
    BY FS_EmptySet, FS_CardinalityType DEF CountInv
  <2>2. /\ IsFiniteSet(Tallied \cup ({new} \X (1 .. n)))
        /\ Cardinality(Tallied \cup ({new} \X (1 .. n)))
             = Cardinality(Tallied) + Cardinality({new} \X (1 .. n)) - Cardinality(Tallied \cap ({new} \X (1 .. n)))
    BY <1>15, <2>1, FS_Union
  <2>3. Cardinality(Tallied \cap ({new} \X (1 .. n))) = 0
    BY <1>17, <2>1
  <2>4. Cardinality(Tallied') = Cardinality(Tallied) + n - 0
    BY <1>15, <1>16, <2>2, <2>3
  <2> QED
    BY <1>14, <1>16, <2>1, <2>2, <2>4
<1>19. Cardinality(Uncheckpointed') = Cardinality(Uncheckpointed) - n
  <2>1. Uncheckpointed \cap taken = taken
    BY <1>8
  <2> QED
    BY <1>11, <1>12, <1>13, <2>1, FS_Difference
<1>20. Cardinality(Tallied) \in Nat /\ Cardinality(Uncheckpointed) \in Nat /\ Cardinality(voteEvents) \in Nat
  BY <1>12, FS_CardinalityType DEF CountInv
<1>21. CountsAddUp'
  BY <1>1, <1>14, <1>18, <1>19, <1>20 DEF CountInv, CountsAddUp
<1> QED
  BY <1>1, <1>12, <1>18, <1>21 DEF CountInv

LEMMA CountStep ==
    ASSUME ChainTypeOK, OrderInv, SealInv, CountInv, [ChainNext]_chainVars
    PROVE  CountInv'
<1>1. ASSUME NEW b \in Papers,
             \/ \E route \in Routes : BeginCast(b, route)
             \/ StampVote(b) \/ DateBulkVote(b) \/ StampBulkVote(b) \/ RetryCast(b) \/ AbortCast(b)
      PROVE  CountInv'
  <2>1. UNCHANGED <<voteEvents, checkpoints>>
    BY <1>1 DEF BeginCast, StampVote, DateBulkVote, StampBulkVote, RetryCast, AbortCast
  <2> QED
    BY <2>1, CountsStay
<1>2. ASSUME NEW b \in Papers, CommitCast(b) PROVE CountInv'
  BY <1>2, CommitCounts
<1>3. ASSUME NEW w \in Workers, WorkerStep(w) \/ SweeperDies(w) PROVE CountInv'
  <2>1. CASE InsertCheckpoint(w) /\ ~Taken(w)
    BY <2>1, CheckpointCounts
  <2>2. CASE ~(InsertCheckpoint(w) /\ ~Taken(w))
    <3>1. UNCHANGED <<voteEvents, checkpoints>>
      BY <1>3, <2>2 DEF WorkerStep, ReadHead, FoldEvents, InsertCheckpoint, GiveUp, Publish, SweeperDies
    <3> QED
      BY <3>1, CountsStay
  <2> QED
    BY <2>1, <2>2
<1>4. CASE ClockTicks \/ UNCHANGED chainVars
  <2>1. UNCHANGED <<voteEvents, checkpoints>>
    BY <1>4 DEF ClockTicks, chainVars
  <2> QED
    BY <2>1, CountsStay
<1> QED
  BY <1>1, <1>2, <1>3, <1>4 DEF ChainNext

(* As long as ballots come by /vote, which draws the id and the time of an    *)
(* event from one reading of the clock, the audit finds nothing: no ballot    *)
(* lands behind a checkpoint, every checkpoint comes out as stored, and the   *)
(* figures of the report agree: because the grace is longer than a            *)
(* transaction can live (CHECKPOINT_SEAL_GRACE_SECONDS).                      *)
THEOREM NothingToReport == ChainSpec => []ChainSound
<1> DEFINE Sealed == BegunOnce /\ (OneReading => SealInv /\ CountInv)
<1>1. ChainTypeOK /\ OrderInv /\ Sealed => ChainSound
  BY WholeChainVerifies DEF OrderInv, SealInv, CountInv, ChainSound
<1>2. ChainInit => Sealed
  BY SealInit, CountInit DEF ChainInit, BegunOnce, IdleCast
<1>3. /\ ChainTypeOK /\ ChainTypeOK' /\ FoundSome /\ OrderInv /\ Sealed /\ [ChainNext]_chainVars
      => Sealed'
  BY RoutesKept, SealStep, CountStep
<1> QED
  BY <1>1, <1>2, <1>3, OrderInit, OrderStep, ChainTypeCorrect, PTL DEF ChainSpec

=============================================================================
