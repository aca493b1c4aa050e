----------------------------- MODULE RosterLedger -----------------------------
(* The tamper-evident roster ledger: append_ledger adds an entry by reading   *)
(* the head and inserting the next number, which the unique index on          *)
(* (org_id, seq) grants to one writer; anchor_roster_ledger publishes the     *)
(* head outside the database.                                                 *)
EXTENDS Naturals

CONSTANTS Writers,      \* operations that append one entry each
          Anchors,      \* calls of anchor_roster_ledger
          Tries,        \* how often append_ledger tries (6 in the source)
          Genesis       \* the hash before the first entry

ASSUME LedgerAssumption == Tries \in Nat \ {0} /\ Genesis \notin Nat \X Writers

VARIABLES ledger,       \* the collection roster_ledger
          writer,       \* the local variables of append_ledger
          anchor,       \* the local variables of anchor_roster_ledger
          published,    \* the anchors in the object store
          marker        \* settings.roster_ledger_anchor: the last number anchored

ledgerVars == <<ledger, writer, anchor, published, marker>>

(* The SHA-256 over an entry: different for different entries.                *)
Hash(e) == <<e.seq, e.event>>

Hashes == (Nat \X Writers) \cup {Genesis}
Entry  == [seq : Nat \ {0}, event : Writers, prev : Hashes]
Empty  == [seq |-> 0, hash |-> Genesis]
HeadOf == [seq : Nat, hash : Hashes]

(* The entry with the highest number, or the start of an empty ledger.        *)
IsHead(h) ==
    \/ ledger = {} /\ h = Empty
    \/ \E e \in ledger : /\ h = [seq |-> e.seq, hash |-> Hash(e)]
                         /\ \A f \in ledger : f.seq <= e.seq

LedgerInit == /\ ledger = {}
              /\ writer = [w \in Writers |-> [at |-> "read", head |-> Empty, lost |-> 0]]
              /\ anchor = [a \in Anchors |-> [at |-> "read", head |-> Empty]]
              /\ published = {}
              /\ marker = 0

ReadHead(w) ==
    /\ writer[w].at = "read"
    /\ \E h \in {Empty} \cup {[seq |-> e.seq, hash |-> Hash(e)] : e \in ledger} :
         IsHead(h) /\ writer' = [writer EXCEPT ![w].at = "insert", ![w].head = h]
    /\ UNCHANGED <<ledger, anchor, published, marker>>

(* Mutant: the collection has no unique index.                                *)
FreeAlways(seq) == TRUE

Free(seq) == \A e \in ledger : e.seq # seq

(* Mutant: an upsert by number in place of the insert.                        *)
InsertOver(w) ==
    /\ writer[w].at = "insert"
    /\ LET n == writer[w].head.seq + 1
       IN ledger' = {e \in ledger : e.seq # n} \cup {[seq |-> n, event |-> w, prev |-> writer[w].head.hash]}
    /\ writer' = [writer EXCEPT ![w].at = "appended"]
    /\ UNCHANGED <<anchor, published, marker>>

Insert(w) ==
    /\ writer[w].at = "insert"
    /\ Free(writer[w].head.seq + 1)
    /\ ledger' = ledger \cup {[seq |-> writer[w].head.seq + 1, event |-> w, prev |-> writer[w].head.hash]}
    /\ writer' = [writer EXCEPT ![w].at = "appended"]
    /\ UNCHANGED <<anchor, published, marker>>

(* Mutant: the writer gives up one attempt early.                             *)
NextTryEarly(lost) == IF lost + 2 >= Tries THEN "dropped" ELSE "read"

(* Mutant: the loop has no end.                                               *)
NextTryAlways(lost) == "read"

(* A lost race is tried again from the head, Tries times in all; after that   *)
(* the entry is dropped with a line in the server's log.                      *)
NextTry(lost) == IF lost + 1 >= Tries THEN "dropped" ELSE "read"

LostRace(w) ==
    /\ writer[w].at = "insert"
    /\ ~Free(writer[w].head.seq + 1)
    /\ writer' = [writer EXCEPT ![w].at = NextTry(writer[w].lost), ![w].lost = @ + 1]
    /\ UNCHANGED <<ledger, anchor, published, marker>>

(* Any other error drops the entry at once.                                   *)
StoreFails(w) ==
    /\ writer[w].at = "insert"
    /\ writer' = [writer EXCEPT ![w].at = "error"]
    /\ UNCHANGED <<ledger, anchor, published, marker>>

AnchorRead(a) ==
    /\ anchor[a].at = "read"
    /\ \E e \in ledger :
         /\ \A f \in ledger : f.seq <= e.seq
         /\ anchor' = [anchor EXCEPT ![a] = [at |-> IF marker >= e.seq THEN "ended" ELSE "put",
                                             head |-> [seq |-> e.seq, hash |-> Hash(e)]]]
    /\ UNCHANGED <<ledger, writer, published, marker>>

AnchorPut(a) ==
    /\ anchor[a].at = "put"
    /\ \/ /\ published' = published \cup {anchor[a].head}
          /\ anchor' = [anchor EXCEPT ![a].at = "mark"]
       \/ anchor' = [anchor EXCEPT ![a].at = "ended"] /\ UNCHANGED published
    /\ UNCHANGED <<ledger, writer, marker>>

AnchorMark(a) ==
    /\ anchor[a].at = "mark"
    /\ marker' = anchor[a].head.seq
    /\ anchor' = [anchor EXCEPT ![a].at = "ended"]
    /\ UNCHANGED <<ledger, writer, published>>

LedgerNext ==
    \/ \E w \in Writers : ReadHead(w) \/ Insert(w) \/ LostRace(w) \/ StoreFails(w)
    \/ \E a \in Anchors : AnchorRead(a) \/ AnchorPut(a) \/ AnchorMark(a)

LedgerSpec == LedgerInit /\ [][LedgerNext]_ledgerVars

-----------------------------------------------------------------------------
(* The types of the variables.                                                *)
LedgerTypeOK ==
    /\ ledger \subseteq Entry
    /\ writer \in [Writers -> [at : {"read", "insert", "appended", "dropped", "error"},
                               head : HeadOf, lost : 0 .. Tries]]
    /\ anchor \in [Anchors -> [at : {"read", "put", "mark", "ended"}, head : HeadOf]]
    /\ published \subseteq HeadOf /\ marker \in Nat

(* What verify_roster_ledger checks, whatever writers append at once: the     *)
(* numbers are distinct and leave no gap, and each entry carries the hash of  *)
(* the one before it (main.py:4529).                                          *)
LedgerVerifies ==
    /\ \A e, f \in ledger : e.seq = f.seq => e = f
    /\ \A e \in ledger : IF e.seq = 1 THEN e.prev = Genesis
                         ELSE \E f \in ledger : f.seq = e.seq - 1 /\ e.prev = Hash(f)

(* Every published anchor names an entry that is still in the ledger with the *)
(* hash it was published with (anchor_roster_ledger, main.py:4544).           *)
AnchorsStand == \A h \in published : \E e \in ledger : e.seq = h.seq /\ Hash(e) = h.hash

(* An entry is dropped for lost races only when that many other entries were  *)
(* added: a writer that nobody overtakes never loses its entry (main.py:4507).*)
DroppedOnlyAfterRaces ==
    \A w \in Writers : writer[w].at = "dropped" => \E e \in ledger : e.seq >= Tries

(* The ledger verifies, every anchor stands, and no entry is dropped but for  *)
(* races that were lost: what the trust report says of the roster.            *)
LedgerSound == LedgerVerifies /\ AnchorsStand /\ DroppedOnlyAfterRaces
=============================================================================
