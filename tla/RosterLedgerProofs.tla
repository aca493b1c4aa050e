-------------------------- MODULE RosterLedgerProofs --------------------------
(* The ledger verifies, its anchors stand, and no entry is dropped before     *)
(* Tries others were added, for any number of writers and of tries.           *)
EXTENDS RosterLedger, TLAPS

(* A head that a writer or an anchor holds is an entry of the ledger, or the  *)
(* start of the empty ledger.                                                 *)
Known(h) == h = Empty \/ \E e \in ledger : h = [seq |-> e.seq, hash |-> Hash(e)]

(* Each lost race of a writer is an entry added since its previous reading:   *)
(* its losses never exceed the number of the highest entry it knows of.       *)
LossesPaid(w) ==
    /\ writer[w].at = "insert" => writer[w].lost <= writer[w].head.seq
    /\ writer[w].at \in {"read", "dropped"} /\ writer[w].lost > 0 =>
           \E e \in ledger : e.seq >= writer[w].lost
    /\ writer[w].at = "dropped" => writer[w].lost = Tries
    /\ writer[w].at \in {"read", "insert"} => writer[w].lost < Tries

LedgerInv ==
    /\ LedgerTypeOK
    /\ LedgerVerifies
    /\ \A w \in Writers : Known(writer[w].head) /\ LossesPaid(w)
    /\ \A a \in Anchors : anchor[a].at \in {"put", "mark"} =>
           \E e \in ledger : anchor[a].head = [seq |-> e.seq, hash |-> Hash(e)]
    /\ AnchorsStand

(* A hash is one of the values an entry may carry as its predecessor's.       *)
LEMMA HashType == ASSUME NEW e \in Entry PROVE Hash(e) \in Hashes
BY DEF Hash, Hashes, Entry

LEMMA LedgerInitially == LedgerInit => LedgerInv
BY LedgerAssumption DEF LedgerInit, LedgerInv, LedgerTypeOK, LedgerVerifies, AnchorsStand, Known,
      LossesPaid, Empty, HeadOf, Hashes

(* What is said of the ledger alone needs no more than the ledger.            *)
LEMMA SameLedger ==
    ASSUME LedgerVerifies, UNCHANGED ledger PROVE LedgerVerifies'
BY DEF LedgerVerifies

(* An anchor touches no writer.                                               *)
LEMMA SameWriters ==
    ASSUME \A w \in Writers : Known(writer[w].head) /\ LossesPaid(w), UNCHANGED <<ledger, writer>>
    PROVE  (\A w \in Writers : Known(writer[w].head) /\ LossesPaid(w))'
BY DEF Known, LossesPaid

(* The reading of the head: the writer knows an entry at least as high as     *)
(* every other, hence as high as its losses.                                  *)
LEMMA ReadHeadKeeps ==
    ASSUME LedgerInv, NEW w \in Writers, ReadHead(w) PROVE LedgerInv'
<1>1. PICK h \in {Empty} \cup {[seq |-> e.seq, hash |-> Hash(e)] : e \in ledger} :
         IsHead(h) /\ writer' = [writer EXCEPT ![w].at = "insert", ![w].head = h]
  BY DEF ReadHead
<1>2. h \in HeadOf /\ Known(h)
  BY HashType DEF LedgerInv, LedgerTypeOK, Known, HeadOf, Empty, Hashes, Entry
<1>3. writer[w].lost \in Nat /\ writer[w].lost < Tries /\ writer[w].at = "read"
  BY DEF ReadHead, LedgerInv, LedgerTypeOK, LossesPaid
<1>4. writer[w].lost <= h.seq
  <2>1. CASE writer[w].lost = 0
    BY <1>2, <2>1 DEF HeadOf
  <2>2. CASE writer[w].lost > 0
    <3>1. PICK e \in ledger : e.seq >= writer[w].lost
      BY <1>3, <2>2 DEF LedgerInv, LossesPaid
    <3>2. h.seq >= e.seq
      BY <1>1, <3>1 DEF IsHead
    <3>3. h.seq \in Nat /\ e.seq \in Nat
      BY <1>2 DEF HeadOf, LedgerInv, LedgerTypeOK, Entry
    <3> QED BY <1>3, <3>1, <3>2, <3>3
  <2> QED BY <1>3, <2>1, <2>2
<1>5. UNCHANGED <<ledger, anchor, published, marker>>
  BY DEF ReadHead
<1>6. LedgerTypeOK'
  BY <1>1, <1>2, <1>5 DEF LedgerInv, LedgerTypeOK
<1>7. \A v \in Writers : (Known(writer[v].head) /\ LossesPaid(v))'
  BY <1>1, <1>2, <1>3, <1>4, <1>5 DEF LedgerInv, LedgerTypeOK, Known, LossesPaid
<1> QED BY <1>5, <1>6, <1>7 DEF LedgerInv, LedgerVerifies, AnchorsStand

(* The insertion: the number after the writer's head is free, so the head it  *)
(* read is the entry just before it.                                          *)
LEMMA InsertKeeps ==
    ASSUME LedgerInv, NEW w \in Writers, Insert(w) PROVE LedgerInv'
<1> DEFINE new == [seq |-> writer[w].head.seq + 1, event |-> w, prev |-> writer[w].head.hash]
<1>1. ledger' = ledger \cup {new} /\ writer' = [writer EXCEPT ![w].at = "appended"]
      /\ Free(writer[w].head.seq + 1) /\ UNCHANGED <<anchor, published, marker>>
  BY DEF Insert
<1>2. new \in Entry
  BY DEF LedgerInv, LedgerTypeOK, HeadOf, Entry
<1>3. LedgerTypeOK'
  BY <1>1, <1>2 DEF LedgerInv, LedgerTypeOK
<1>4. LedgerVerifies'
  <2>1. \A e \in ledger : e.seq # new.seq
    BY <1>1 DEF Free
  <2>2. \A e, f \in ledger' : e.seq = f.seq => e = f
    BY <1>1, <2>1 DEF LedgerInv, LedgerVerifies
  <2>3. \A e \in ledger : IF e.seq = 1 THEN e.prev = Genesis
                          ELSE \E f \in ledger' : f.seq = e.seq - 1 /\ e.prev = Hash(f)
    BY <1>1 DEF LedgerInv, LedgerVerifies
  <2>4. IF new.seq = 1 THEN new.prev = Genesis
        ELSE \E f \in ledger' : f.seq = new.seq - 1 /\ new.prev = Hash(f)
    <3>1. CASE writer[w].head = Empty
      BY <3>1 DEF Empty
    <3>2. CASE \E e \in ledger : writer[w].head = [seq |-> e.seq, hash |-> Hash(e)]
      <4>1. PICK e \in ledger : writer[w].head = [seq |-> e.seq, hash |-> Hash(e)]
        BY <3>2
      <4>2. e.seq \in Nat \ {0}
        BY DEF LedgerInv, LedgerTypeOK, Entry
      <4>3. new.seq = e.seq + 1 /\ new.prev = Hash(e)
        BY <4>1
      <4> QED BY <1>1, <4>1, <4>2, <4>3
    <3> QED BY <3>1, <3>2 DEF LedgerInv, Known
  <2> QED BY <1>1, <2>2, <2>3, <2>4 DEF LedgerVerifies
<1>5. \A v \in Writers : (Known(writer[v].head) /\ LossesPaid(v))'
  BY <1>1 DEF LedgerInv, LedgerTypeOK, Known, LossesPaid
<1>6. AnchorsStand' /\ (\A a \in Anchors : anchor[a].at \in {"put", "mark"} =>
           \E e \in ledger : anchor[a].head = [seq |-> e.seq, hash |-> Hash(e)])'
  BY <1>1 DEF LedgerInv, AnchorsStand, Hash
<1> QED BY <1>3, <1>4, <1>5, <1>6 DEF LedgerInv

(* A lost race: the number after the head is taken, by an entry higher than   *)
(* every loss so far.                                                         *)
LEMMA LostRaceKeeps ==
    ASSUME LedgerInv, NEW w \in Writers, LostRace(w) PROVE LedgerInv'
<1> USE LedgerAssumption
<1>1. /\ writer' = [writer EXCEPT ![w].at = NextTry(writer[w].lost), ![w].lost = @ + 1]
      /\ writer[w].at = "insert" /\ UNCHANGED <<ledger, anchor, published, marker>>
  BY DEF LostRace
<1>2. writer[w].lost \in Nat /\ writer[w].lost < Tries /\ writer[w].lost <= writer[w].head.seq
      /\ writer[w].head.seq \in Nat
  BY <1>1 DEF LedgerInv, LedgerTypeOK, LossesPaid, HeadOf
<1>3. PICK e \in ledger : e.seq = writer[w].head.seq + 1
  BY DEF LostRace, Free
<1>4. e.seq >= writer[w].lost + 1
  BY <1>2, <1>3
<1>5. LedgerTypeOK'
  BY <1>1, <1>2 DEF LedgerInv, LedgerTypeOK, NextTry
<1>6. LossesPaid(w)'
  BY <1>1, <1>2, <1>3, <1>4 DEF LedgerInv, LedgerTypeOK, LossesPaid, NextTry
<1>7. \A v \in Writers : (Known(writer[v].head) /\ LossesPaid(v))'
  BY <1>1, <1>6 DEF LedgerInv, LedgerTypeOK, Known, LossesPaid
<1> QED BY <1>1, <1>5, <1>7 DEF LedgerInv, LedgerVerifies, AnchorsStand

LEMMA StoreFailsKeeps ==
    ASSUME LedgerInv, NEW w \in Writers, StoreFails(w) PROVE LedgerInv'
<1>1. writer' = [writer EXCEPT ![w].at = "error"] /\ UNCHANGED <<ledger, anchor, published, marker>>
  BY DEF StoreFails
<1>2. LedgerTypeOK'
  BY <1>1 DEF LedgerInv, LedgerTypeOK
<1>3. \A v \in Writers : (Known(writer[v].head) /\ LossesPaid(v))'
  BY <1>1 DEF LedgerInv, LedgerTypeOK, Known, LossesPaid
<1> QED BY <1>1, <1>2, <1>3, SameLedger DEF LedgerInv, AnchorsStand

(* An anchor publishes the head it read, which stays in the ledger.           *)
LEMMA AnchorKeeps ==
    ASSUME LedgerInv, NEW a \in Anchors, AnchorRead(a) \/ AnchorPut(a) \/ AnchorMark(a)
    PROVE  LedgerInv'
<1>1. CASE AnchorRead(a)
  <2>1. PICK e \in ledger : anchor' = [anchor EXCEPT ![a] = [at |-> IF marker >= e.seq THEN "ended" ELSE "put",
                                                  head |-> [seq |-> e.seq, hash |-> Hash(e)]]]
    BY <1>1 DEF AnchorRead
  <2>2. [seq |-> e.seq, hash |-> Hash(e)] \in HeadOf
    BY HashType DEF LedgerInv, LedgerTypeOK, HeadOf, Entry
  <2>3. UNCHANGED <<ledger, writer, published, marker>>
    BY <1>1 DEF AnchorRead
  <2> QED BY <2>1, <2>2, <2>3 DEF LedgerInv, LedgerTypeOK, LedgerVerifies, AnchorsStand, Known, LossesPaid
<1>2. CASE AnchorPut(a)
  <2>1. UNCHANGED <<ledger, writer, marker>>
    BY <1>2 DEF AnchorPut
  <2>2. CASE published' = published \cup {anchor[a].head} /\ anchor' = [anchor EXCEPT ![a].at = "mark"]
    <3>1. PICK e \in ledger : anchor[a].head = [seq |-> e.seq, hash |-> Hash(e)]
      BY <1>2 DEF AnchorPut, LedgerInv
    <3>2. LedgerTypeOK'
      BY <2>1, <2>2 DEF LedgerInv, LedgerTypeOK
    <3>3. AnchorsStand'
      BY <2>1, <2>2, <3>1 DEF LedgerInv, AnchorsStand
    <3>4. (\A b \in Anchors : anchor[b].at \in {"put", "mark"} =>
             \E f \in ledger : anchor[b].head = [seq |-> f.seq, hash |-> Hash(f)])'
      BY <2>1, <2>2, <3>1 DEF LedgerInv, LedgerTypeOK
    <3> QED BY <2>1, <3>2, <3>3, <3>4, SameLedger, SameWriters DEF LedgerInv
  <2>3. CASE anchor' = [anchor EXCEPT ![a].at = "ended"] /\ UNCHANGED published
    <3>1. LedgerTypeOK'
      BY <2>1, <2>3 DEF LedgerInv, LedgerTypeOK
    <3>2. (\A b \in Anchors : anchor[b].at \in {"put", "mark"} =>
             \E f \in ledger : anchor[b].head = [seq |-> f.seq, hash |-> Hash(f)])'
      BY <2>1, <2>3 DEF LedgerInv, LedgerTypeOK
    <3> QED BY <2>1, <2>3, <3>1, <3>2, SameLedger, SameWriters DEF LedgerInv, AnchorsStand
  <2> QED BY <1>2, <2>2, <2>3 DEF AnchorPut
<1>3. CASE AnchorMark(a)
  <2>1. /\ marker' = anchor[a].head.seq /\ anchor' = [anchor EXCEPT ![a].at = "ended"]
        /\ UNCHANGED <<ledger, writer, published>>
    BY <1>3 DEF AnchorMark
  <2>2. LedgerTypeOK'
    BY <2>1 DEF LedgerInv, LedgerTypeOK, HeadOf
  <2>3. (\A b \in Anchors : anchor[b].at \in {"put", "mark"} =>
           \E f \in ledger : anchor[b].head = [seq |-> f.seq, hash |-> Hash(f)])'
    BY <2>1 DEF LedgerInv, LedgerTypeOK
  <2> QED BY <2>1, <2>2, <2>3, SameLedger, SameWriters DEF LedgerInv, AnchorsStand
<1> QED BY <1>1, <1>2, <1>3

LEMMA LedgerInductive == LedgerInv /\ [LedgerNext]_ledgerVars => LedgerInv'
<1> SUFFICES ASSUME LedgerInv, [LedgerNext]_ledgerVars PROVE LedgerInv'
  OBVIOUS
<1>1. CASE LedgerNext
  BY <1>1, ReadHeadKeeps, InsertKeeps, LostRaceKeeps, StoreFailsKeeps, AnchorKeeps DEF LedgerNext
<1>2. CASE UNCHANGED ledgerVars
  BY <1>2 DEF ledgerVars, LedgerInv, LedgerTypeOK, LedgerVerifies, AnchorsStand, Known, LossesPaid
<1> QED BY <1>1, <1>2

LEMMA LedgerAlways == LedgerSpec => []LedgerInv
<1>1. LedgerInit => LedgerInv
  BY LedgerInitially
<1>2. LedgerInv /\ [LedgerNext]_ledgerVars => LedgerInv'
  BY LedgerInductive
<1> QED BY <1>1, <1>2, PTL DEF LedgerSpec

(* verify_roster_ledger finds nothing wrong with a ledger that any number of  *)
(* writers appended to at once.                                               *)
THEOREM LedgerAlwaysVerifies == LedgerSpec => []LedgerVerifies
<1>1. LedgerInv => LedgerVerifies
  BY DEF LedgerInv
<1> QED BY <1>1, LedgerAlways, PTL

(* No published anchor is ever contradicted by the ledger.                    *)
THEOREM AnchorsAlwaysStand == LedgerSpec => []AnchorsStand
<1>1. LedgerInv => AnchorsStand
  BY DEF LedgerInv
<1> QED BY <1>1, LedgerAlways, PTL

(* An entry dropped for lost races had Tries others added before it.          *)
THEOREM NoEntryDroppedUnraced == LedgerSpec => []DroppedOnlyAfterRaces
<1>1. LedgerInv => DroppedOnlyAfterRaces
  BY LedgerAssumption DEF LedgerInv, DroppedOnlyAfterRaces, LossesPaid
<1> QED BY <1>1, LedgerAlways, PTL

(* All three, for any number of writers and anchors and any bound of tries.   *)
THEOREM LedgerAlwaysSound == LedgerSpec => []LedgerSound
<1>1. LedgerVerifies /\ AnchorsStand /\ DroppedOnlyAfterRaces => LedgerSound
  BY DEF LedgerSound
<1> QED BY <1>1, LedgerAlwaysVerifies, AnchorsAlwaysStand, NoEntryDroppedUnraced, PTL
=============================================================================
