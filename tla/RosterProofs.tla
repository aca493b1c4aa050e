------------------------------ MODULE RosterProofs ------------------------------
(***************************************************************************)
(* Theorems about what the election office keeps: the numbered lists of    *)
(* candidates, the requests to change the roster, and corrections of what  *)
(* is known of a voter.                                                    *)
(***************************************************************************)
EXTENDS RosterChanges, CandidateList, ContactChanges, FiniteSetTheorems, WellFoundedInduction, TLAPS

(* The local variables of an issuer: whoever is about to number a list has    *)
(* candidates to put on it, and whoever is about to insert it a number.       *)
IssuerDoc == [at : Places, latest : Slates \cup {"none"}, saw : 0 .. Edits,
              text : Slates \cup {"none"}, seq : 0 .. MaxLists]

Prepared(i, r) ==
    /\ r.at \in {"number", "insert"} => r.text \in Slates
    /\ r.at = "insert" => r.seq \in 1 .. MaxLists
    /\ r.at = "state" => i \in Sweepers
    /\ r.at = "read" /\ i \in Managers => r.text \in Slates

ListTyped == /\ ListTypeOK
             /\ issuer \in [Issuers -> IssuerDoc]
             /\ \A i \in Issuers : Prepared(i, issuer[i])

(* The highest number is a number in use, or 0.                               *)
LEMMA HighestInRange ==
    ASSUME ListTyped
    PROVE  Highest \in 0 .. MaxLists
<1> DEFINE S == {l.seq : l \in lists}
           Above(k) == k \in Nat /\ \A n \in S : n <= k
<1>1. MaxLists \in Nat /\ S \subseteq 1 .. MaxLists
  BY ListAssumption DEF ListTyped, ListTypeOK, ListDoc
<1>2. CASE lists = {}
  BY <1>1, <1>2 DEF Highest
<1>3. CASE lists # {}
  <2>1. {k \in Nat : \A n \in S : n <= k} # {}
    BY <1>1
  <2>2. PICK k \in Nat : /\ \A n \in S : n <= k
                         /\ \A m \in Nat : (\A n \in S : n <= m) => k <= m
    <3> DEFINE B == {k \in Nat : \A n \in S : n <= k}
    <3>1. PICK k \in B : \A m \in B : ~(<<m, k>> \in OpToRel(<, Nat))
      <4>1. IsWellFoundedOn(OpToRel(<, Nat), Nat) /\ B \subseteq Nat /\ B # {}
        BY <2>1, NatLessThanWellFounded
      <4> QED
        BY <4>1, WFMin
    <3>2. \A m \in B : ~(m < k)
      BY <3>1 DEF OpToRel
    <3> QED
      BY <3>2
  <2>3. k \in S
    <3>1. SUFFICES ASSUME k \notin S PROVE FALSE
      OBVIOUS
    <3>2. \A n \in S : n < k
      BY <1>1, <2>2, <3>1
    <3>3. PICK n \in S : TRUE
      BY <1>3
    <3>4. k - 1 \in Nat /\ \A m \in S : m <= k - 1
      BY <1>1, <2>2, <3>2, <3>3
    <3> QED
      BY <2>2, <3>4
  <2>4. \A l \in lists : l.seq <= k
    BY <2>2
  <2> HIDE DEF S
  <2>5. Highest = CHOOSE n \in S : \A l \in lists : l.seq <= n
    BY <1>3 DEF Highest, S
  <2>6. Highest \in S
    BY <2>3, <2>4, <2>5
  <2> QED
    BY <1>1, <2>6
<1> QED
  BY <1>2, <1>3

NumberedOnce == \A l, m \in lists : l.seq = m.seq => l = m

(* Two current lists mean that one of them has yet to supersede the others:   *)
(* whoever inserted last.                                                     *)
Superseding(l, m) ==
    \E i \in Issuers : issuer[i].at = "supersede" /\ issuer[i].seq \in {l.seq, m.seq}

SomeoneSupersedes ==
    \A l, m \in lists : l.current /\ m.current /\ l # m => Superseding(l, m)

ListInv == ListTyped /\ NumberedOnce /\ SomeoneSupersedes

(* A step that leaves the lists, and moves an issuer that is not about to     *)
(* supersede.                                                                 *)
LEMMA ListQuiet ==
    ASSUME ListInv, UNCHANGED lists, NEW i \in Issuers, NEW r \in IssuerDoc, Prepared(i, r),
           Move(i, r), issuer[i].at # "supersede"
    PROVE  /\ issuer' \in [Issuers -> IssuerDoc]
           /\ \A j \in Issuers : Prepared(j, issuer'[j]) /\ issuer'[j].at \in Places
                                  /\ issuer'[j].seq \in 0 .. MaxLists
           /\ NumberedOnce' /\ SomeoneSupersedes'
<1>1. issuer \in [Issuers -> IssuerDoc] /\ \A j \in Issuers : Prepared(j, issuer[j])
  BY DEF ListInv, ListTyped
<1>2. issuer' \in [Issuers -> IssuerDoc] /\ \A j \in Issuers : Prepared(j, issuer'[j])
  BY <1>1 DEF Move
<1>3. ASSUME NEW l \in lists, NEW m \in lists, Superseding(l, m)
      PROVE  Superseding(l, m)'
  <2>1. PICK j \in Issuers : issuer[j].at = "supersede" /\ issuer[j].seq \in {l.seq, m.seq}
    BY <1>3 DEF Superseding
  <2>2. issuer'[j] = issuer[j]
    BY <1>1, <2>1 DEF Move
  <2> QED
    BY <2>1, <2>2 DEF Superseding
<1> QED
  BY <1>2, <1>3 DEF ListInv, NumberedOnce, SomeoneSupersedes, IssuerDoc

LEMMA ListStep ==
    ASSUME ListInv, [ListNext]_listVars
    PROVE  ListInv'
<1>1. /\ issuer \in [Issuers -> IssuerDoc] /\ \A i \in Issuers : Prepared(i, issuer[i])
      /\ ListTypeOK /\ Issuers = Sweepers \cup Managers /\ Sweepers \cap Managers = {}
      /\ "none" \notin Slates /\ Edits \in Nat /\ MaxLists \in Nat
  BY ListAssumption DEF ListInv, ListTyped, Issuers
<1>2. /\ AtRest \in IssuerDoc /\ \A i \in Issuers : Prepared(i, AtRest)
      /\ \A i \in Issuers : issuer[i] \in IssuerDoc
  BY <1>1 DEF AtRest, IssuerDoc, Places, Prepared
<1>3. ASSUME UNCHANGED <<lists, issuer>>, ListTypeOK'
      PROVE  ListInv'
  BY <1>3 DEF ListInv, ListTyped, NumberedOnce, SomeoneSupersedes, Superseding, Prepared
<1>4. ASSUME NEW i \in Issuers,
             \/ SweepLatest(i) \/ SweepState(i) \/ SweepRead(i) \/ TakeNumber(i) \/ ClearMark(i)
             \/ IssueNow(i) \/ IssueNowLatest(i)
      PROVE  ListInv'
  <2>1. /\ UNCHANGED <<lists, slate, vettingOver, editor, edits>> /\ issuer[i].at # "supersede"
        /\ dirtyAt' \in 0 .. Edits /\ quiet' \in BOOLEAN /\ wiped' \in BOOLEAN
    <3>0. dirtyAt \in 0 .. Edits /\ quiet \in BOOLEAN /\ wiped \in BOOLEAN /\ AtRest.at = "rest"
      BY <1>1 DEF ListTypeOK, AtRest
    <3>1. CASE SweepLatest(i)
      BY <3>0, <3>1 DEF SweepLatest
    <3>2. CASE SweepState(i)
      BY <3>0, <3>2 DEF SweepState
    <3>3. CASE SweepRead(i)
      BY <3>0, <3>3 DEF SweepRead
    <3>4. CASE TakeNumber(i)
      BY <3>0, <3>4 DEF TakeNumber
    <3>5. CASE ClearMark(i)
      <4>1. UNCHANGED <<lists, slate, vettingOver, editor, edits>> /\ issuer[i].at # "supersede"
        BY <3>5 DEF ClearMark
      <4>2. CASE Clears(i)
        <5>1. dirtyAt' = 0 /\ quiet' = FALSE
              /\ wiped' = (wiped \/ (i \in Managers /\ dirtyAt \notin {0, issuer[i].saw}))
          BY <3>5, <4>2 DEF ClearMark
        <5>2. dirtyAt' \in 0 .. Edits
          BY <1>1, <5>1
        <5>3. quiet' \in BOOLEAN
          BY <5>1
        <5>4. wiped' \in BOOLEAN
          BY <5>1
        <5> QED
          BY <4>1, <5>2, <5>3, <5>4
      <4>3. CASE ~Clears(i)
        BY <3>0, <3>5, <4>1, <4>3 DEF ClearMark
      <4> QED
        BY <4>2, <4>3
    <3>6. CASE IssueNow(i)
      BY <3>0, <3>6 DEF IssueNow
    <3>7. CASE IssueNowLatest(i)
      BY <3>0, <3>7 DEF IssueNowLatest
    <3> QED
      BY <1>4, <3>1, <3>2, <3>3, <3>4, <3>5, <3>6, <3>7
  <2>3. ASSUME NEW r \in IssuerDoc, Prepared(i, r), Move(i, r)
        PROVE  ListInv'
    BY <1>1, <2>1, <2>3, ListQuiet DEF ListInv, ListTyped, ListTypeOK, Prepared
  <2>4. LatestTexts \subseteq Slates \cup {"none"}
    BY <1>1 DEF LatestTexts, ListTypeOK, ListDoc
  <2>5. dirtyAt \in 0 .. Edits /\ slate \in Slates \cup {"none"}
    BY <1>1 DEF ListTypeOK
  <2>6. CASE SweepLatest(i)
    <3>1. PICK text \in LatestTexts : Move(i, [AtRest EXCEPT !.at = "state", !.latest = text])
      BY <2>6 DEF SweepLatest
    <3> DEFINE r == [AtRest EXCEPT !.at = "state", !.latest = text]
    <3>2. r \in IssuerDoc /\ r.at = "state"
      BY <1>2, <2>4 DEF AtRest, IssuerDoc, Places
    <3>3. i \in Sweepers
      BY <2>6 DEF SweepLatest
    <3> HIDE DEF r
    <3>4. Prepared(i, r)
      BY <3>2, <3>3 DEF Prepared
    <3>5. Move(i, r)
      BY <3>1 DEF r
    <3> QED
      BY <2>3, <3>2, <3>4, <3>5
  <2>7. CASE SweepState(i)
    <3> DEFINE r == [issuer[i] EXCEPT !.at = "read", !.saw = dirtyAt]
    <3>1. r \in IssuerDoc /\ r.at = "read"
      BY <1>2, <2>5 DEF IssuerDoc, Places
    <3>2. i \notin Managers
      BY <1>1, <2>7 DEF SweepState, Prepared
    <3>3. Move(i, r) \/ Move(i, AtRest)
      BY <2>7 DEF SweepState
    <3> HIDE DEF r
    <3>4. Prepared(i, r)
      BY <3>1, <3>2 DEF Prepared
    <3> QED
      BY <1>2, <2>3, <3>1, <3>3, <3>4
  <2>8. CASE SweepRead(i)
    <3> DEFINE r == [issuer[i] EXCEPT !.at = "clear"]
               n == [issuer[i] EXCEPT !.at = "number", !.text = slate]
    <3>1. r \in IssuerDoc /\ r.at = "clear" /\ n \in IssuerDoc /\ n.at = "number" /\ n.text = slate
      BY <1>2, <2>5 DEF IssuerDoc, Places
    <3>2. Move(i, AtRest) \/ Move(i, r) \/ (slate # "none" /\ Move(i, n))
      BY <2>8 DEF SweepRead
    <3> HIDE DEF r, n
    <3>3. Prepared(i, r) /\ (slate # "none" => Prepared(i, n))
      BY <2>5, <3>1 DEF Prepared
    <3> QED
      BY <1>2, <2>3, <3>1, <3>2, <3>3
  <2>9. CASE TakeNumber(i)
    <3> DEFINE h == Highest
               r == [issuer[i] EXCEPT !.at = "insert", !.seq = h + 1]
    <3>1. h \in 0 .. MaxLists /\ h < MaxLists /\ Move(i, r) /\ issuer[i].at = "number"
      BY <2>9, HighestInRange DEF TakeNumber, ListInv
    <3> HIDE DEF h
    <3>2. h + 1 \in 1 .. MaxLists
      BY <1>1, <3>1
    <3>3. r \in IssuerDoc /\ r.at = "insert" /\ r.seq = h + 1 /\ r.text = issuer[i].text
      <4>1. issuer[i] \in IssuerDoc /\ h + 1 \in 0 .. MaxLists
        BY <1>1, <1>2, <3>1, <3>2
      <4> DEFINE n == h + 1
      <4> HIDE DEF n
      <4>2. n \in 0 .. MaxLists /\ r = [issuer[i] EXCEPT !.at = "insert", !.seq = n]
        BY <4>1 DEF n
      <4>3. r \in IssuerDoc /\ r.at = "insert" /\ r.seq = n /\ r.text = issuer[i].text
        BY <4>1, <4>2 DEF IssuerDoc, Places
      <4> QED
        BY <4>3 DEF n
    <3>4. issuer[i].text \in Slates
      BY <1>1, <3>1 DEF Prepared
    <3> HIDE DEF r
    <3>5. Prepared(i, r)
      BY <3>2, <3>3, <3>4 DEF Prepared
    <3> QED
      BY <2>3, <3>1, <3>3, <3>5
  <2>10. CASE ClearMark(i)
    BY <1>2, <2>3, <2>10 DEF ClearMark
  <2>11. CASE IssueNow(i)
    <3> DEFINE r == [AtRest EXCEPT !.at = "read", !.text = slate, !.saw = dirtyAt]
    <3>1. r \in IssuerDoc /\ r.at = "read" /\ r.text = slate
      BY <1>2, <2>5 DEF AtRest, IssuerDoc, Places
    <3>2. Move(i, r) /\ slate # "none"
      BY <2>11 DEF IssueNow
    <3> HIDE DEF r
    <3>3. Prepared(i, r)
      BY <2>5, <3>1, <3>2 DEF Prepared
    <3> QED
      BY <2>3, <3>1, <3>2, <3>3
  <2>12. CASE IssueNowLatest(i)
    <3> DEFINE r == [issuer[i] EXCEPT !.at = "number"]
    <3>1. r \in IssuerDoc /\ r.at = "number" /\ r.text = issuer[i].text
      BY <1>2 DEF IssuerDoc, Places
    <3>2. Move(i, r) \/ Move(i, AtRest)
      BY <2>12 DEF IssueNowLatest
    <3>3. issuer[i].text \in Slates
      BY <1>1, <2>12 DEF IssueNowLatest, Prepared
    <3> HIDE DEF r
    <3>4. Prepared(i, r)
      BY <3>1, <3>3 DEF Prepared
    <3> QED
      BY <1>2, <2>3, <3>1, <3>2, <3>4
  <2> QED
    BY <1>4, <2>6, <2>7, <2>8, <2>9, <2>10, <2>11, <2>12
<1>5. ASSUME NEW i \in Issuers, InsertList(i)
      PROVE  ListInv'
  <2>1. UNCHANGED <<slate, vettingOver, editor, edits, dirtyAt, quiet, wiped>> /\ issuer[i].at = "insert"
    BY <1>5 DEF InsertList
  <2>2. CASE ~NumberFree(issuer[i].seq)
    <3>1. UNCHANGED lists /\ Move(i, AtRest)
      BY <1>5, <2>2 DEF InsertList
    <3> QED
      BY <1>1, <1>2, <2>1, <3>1, ListQuiet DEF ListInv, ListTyped, ListTypeOK, Prepared
  <2>3. CASE NumberFree(issuer[i].seq)
    <3> DEFINE new == [seq |-> issuer[i].seq, text |-> issuer[i].text, current |-> TRUE]
               r == [issuer[i] EXCEPT !.at = "supersede"]
    <3>1. lists' = lists \cup {new} /\ issuer' = [issuer EXCEPT ![i] = r]
      BY <1>5, <2>3 DEF InsertList, Move
    <3>2. r \in IssuerDoc /\ r.at = "supersede" /\ r.seq = issuer[i].seq
      BY <1>2 DEF IssuerDoc, Places
    <3>3. new \in ListDoc /\ new.seq = issuer[i].seq /\ \A l \in lists : l.seq # new.seq
      BY <1>1, <2>1, <2>3 DEF NumberFree, ListDoc, Prepared
    <3> HIDE DEF new, r
    <3>4. issuer'[i] = r /\ \A j \in Issuers \ {i} : issuer'[j] = issuer[j]
      BY <1>1, <3>1
    <3>5. issuer' \in [Issuers -> IssuerDoc] /\ \A j \in Issuers : Prepared(j, issuer'[j])
      BY <1>1, <3>1, <3>2 DEF Prepared
    <3>6. ListTyped'
      BY <1>1, <2>1, <3>1, <3>3, <3>5 DEF ListTyped, ListTypeOK, IssuerDoc, Prepared
    <3>7. NumberedOnce'
      BY <3>1, <3>3 DEF ListInv, NumberedOnce
    <3>8. ASSUME NEW l \in lists', NEW m \in lists', l.current, m.current, l # m
          PROVE  Superseding(l, m)'
      <4>1. CASE l = new \/ m = new
        BY <3>2, <3>3, <3>4, <4>1 DEF Superseding
      <4>2. CASE l # new /\ m # new
        <5>1. PICK j \in Issuers : issuer[j].at = "supersede" /\ issuer[j].seq \in {l.seq, m.seq}
          BY <3>1, <3>8, <4>2 DEF ListInv, SomeoneSupersedes, Superseding
        <5>2. issuer'[j] = issuer[j]
          BY <2>1, <3>4, <5>1
        <5> QED
          BY <5>1, <5>2 DEF Superseding
      <4> QED
        BY <4>1, <4>2
    <3> QED
      BY <3>6, <3>7, <3>8 DEF ListInv, SomeoneSupersedes
  <2> QED
    BY <2>2, <2>3
<1>6. ASSUME NEW i \in Issuers, SupersedeOthers(i)
      PROVE  ListInv'
  <2> DEFINE After(l) == [l EXCEPT !.current = l.current /\ ~Supersedes(i, l)]
             r == [issuer[i] EXCEPT !.at = "clear"]
  <2>1. /\ lists' = {After(l) : l \in lists} /\ issuer' = [issuer EXCEPT ![i] = r]
        /\ UNCHANGED <<slate, vettingOver, editor, edits, dirtyAt, quiet, wiped>>
    BY <1>6 DEF SupersedeOthers, Move
  <2>2. r \in IssuerDoc /\ r.at = "clear"
    BY <1>2 DEF IssuerDoc, Places
  <2>3. \A l \in lists : /\ After(l).seq = l.seq /\ After(l) \in ListDoc
                         /\ After(l).current => l.seq = issuer[i].seq
    BY <1>1 DEF ListTypeOK, ListDoc, Supersedes
  <2> HIDE DEF After, r
  <2>4. issuer' \in [Issuers -> IssuerDoc] /\ \A j \in Issuers : Prepared(j, issuer'[j])
    BY <1>1, <2>1, <2>2 DEF Prepared
  <2>5. ListTyped'
    BY <1>1, <2>1, <2>3, <2>4 DEF ListTyped, ListTypeOK, IssuerDoc, Prepared
  <2>6. NumberedOnce'
    BY <2>1, <2>3 DEF ListInv, NumberedOnce
  <2>7. \A l, m \in lists' : l.current /\ m.current => l = m
    BY <2>1, <2>3 DEF ListInv, NumberedOnce
  <2> QED
    BY <2>5, <2>6, <2>7 DEF ListInv, SomeoneSupersedes
<1>7. CASE QuietPasses \/ VettingEnds
  BY <1>1, <1>3, <1>7 DEF QuietPasses, VettingEnds, ListTypeOK
<1>8. ASSUME NEW e \in Editors, ChangeSlate(e) \/ MarkDirty(e)
      PROVE  ListInv'
  <2>1. CASE ChangeSlate(e)
    <3>1. UNCHANGED <<lists, issuer, vettingOver, dirtyAt, quiet, wiped>>
      BY <2>1 DEF ChangeSlate
    <3>2. slate' \in Slates \cup {"none"} /\ editor' \in [Editors -> BOOLEAN]
      BY <1>1, <2>1 DEF ChangeSlate, ListTypeOK
    <3>3. edits' \in 0 .. Edits
      BY <1>1, <2>1 DEF ChangeSlate, ListTypeOK
    <3> QED
      BY <1>1, <1>3, <3>1, <3>2, <3>3 DEF ListTypeOK
  <2>2. CASE MarkDirty(e)
    BY <1>1, <1>3, <2>2 DEF MarkDirty, ListTypeOK, Stamp
  <2> QED
    BY <1>8, <2>1, <2>2
<1>9. CASE UNCHANGED listVars
  BY <1>1, <1>3, <1>9 DEF listVars, ListTypeOK
<1> QED
  BY <1>4, <1>5, <1>6, <1>7, <1>8, <1>9 DEF ListNext, SweepStep

(* However many sweeps of however many workers and administrators issue the   *)
(* list at once (candidate_list.issue): the numbers of the lists are distinct *)
(* and, once they are done, no two lists are current.                         *)
THEOREM ListsAlwaysOrdered == ListSpec => [](ListTypeOK /\ ListsOrdered)
<1>1. ListInit => ListInv
  <2> SUFFICES ASSUME ListInit PROVE ListInv
    OBVIOUS
  <2>1. AtRest \in IssuerDoc /\ AtRest.at = "rest" /\ AtRest.seq = 0
    BY ListAssumption DEF AtRest, IssuerDoc, Places
  <2>2. \A i \in Issuers : issuer[i] = AtRest
    BY DEF ListInit
  <2>3. issuer \in [Issuers -> IssuerDoc]
    BY <2>1 DEF ListInit
  <2>4. ListTypeOK
    <3>1. 0 \in 0 .. Edits /\ 0 \in 0 .. MaxLists
      BY ListAssumption
    <3>2. /\ slate = "none" /\ vettingOver = FALSE /\ editor \in [Editors -> BOOLEAN]
          /\ edits = 0 /\ dirtyAt = 0 /\ quiet = FALSE /\ lists = {} /\ wiped = FALSE
      BY DEF ListInit
    <3>3. \A i \in Issuers : issuer[i].at \in Places /\ issuer[i].seq \in 0 .. MaxLists
      BY <2>1, <2>2, <3>1 DEF Places
    <3> QED
      BY <3>1, <3>2, <3>3 DEF ListTypeOK
  <2>5. \A i \in Issuers : Prepared(i, issuer[i])
    BY <2>1, <2>2 DEF Prepared
  <2>6. lists = {}
    BY DEF ListInit
  <2> QED
    BY <2>3, <2>4, <2>5, <2>6 DEF ListInv, ListTyped, NumberedOnce, SomeoneSupersedes
<1>2. ListInv /\ [ListNext]_listVars => ListInv'
  BY ListStep
<1>3. ListInv => ListTypeOK /\ ListsOrdered
  <2> SUFFICES ASSUME ListInv PROVE ListTypeOK /\ ListsOrdered
    OBVIOUS
  <2>1. NumbersDistinct
    BY DEF ListInv, NumberedOnce, NumbersDistinct
  <2>2. ASSUME AllRest, NEW l \in lists, NEW m \in lists, l.current, m.current
        PROVE  l = m
    <3>1. \A i \in Issuers : issuer[i].at # "supersede"
      BY <2>2 DEF AllRest, AtRest
    <3> QED
      BY <2>2, <3>1 DEF ListInv, SomeoneSupersedes, Superseding
  <2> QED
    BY <2>1, <2>2 DEF ListInv, ListTyped, ListsOrdered, OneCurrentList
<1> QED
  BY <1>1, <1>2, <1>3, PTL DEF ListSpec

-----------------------------------------------------------------------------
(* The roster.  A row that is not on it carries nothing, so an upsert cannot  *)
(* bring a vote back or lose one; and a request that a desk carries out was   *)
(* decided, has not been applied, and is carried out by that desk alone.      *)
NothingOffRoster == \A v \in Voters : roster[v].voted => roster[v].on

CarriesOut(d, f) == desks[d].at \in {"execute", "found"} /\ desks[d].form = f

Unapplied == {"unused", "pending", "expired_at_freeze"} \cup Rejected

FormHeld(f) ==
    /\ forms[f].applied <= 1
    /\ forms[f].status \in Unapplied => forms[f].applied = 0
    /\ \A d \in Desks : CarriesOut(d, f) => /\ forms[f].applied = 0
                                            /\ forms[f].status \notin Unapplied
                                            /\ \A e \in Desks : CarriesOut(e, f) => e = d

RosterInv == RosterTypeOK /\ NothingOffRoster /\ \A f \in Forms : FormHeld(f)

FormCall  == [at : {"admitted", "looked"}, op : FormOps, form : Forms]
VoterCall == [at : {"admitted", "looked"}, op : VoterOps, voter : Voters]
Carrying  == [at : {"execute", "found"}, op : FormOps \cup {"ask_add"}, form : Forms]
Comparing == [at : {"admitted"}, op : {"import"}, file : SUBSET Voters]
Importing == [at : {"write", "sweep"}, op : {"import"}, file : SUBSET Voters, gone : SUBSET Voters]

(* What a desk holds follows from where it is.                                *)
LEMMA DeskShape ==
    ASSUME NEW w \in DeskOf
    PROVE  /\ w.at \in {"execute", "found"} => w \in Carrying
           /\ w.at = "looked" => w \in FormCall \cup VoterCall
           /\ w.at = "admitted" => w \in FormCall \cup VoterCall \cup Comparing
           /\ w.at \in {"write", "sweep"} => w \in Importing
<1>1. w \in {Vacant} \cup FormCall \cup VoterCall \cup Carrying \cup Comparing \cup Importing
  BY DEF DeskOf, FormCall, VoterCall, Carrying, Comparing, Importing
<1>2. CASE w = Vacant
  BY <1>2 DEF Vacant
<1>3. CASE w \in FormCall
  BY <1>3 DEF FormCall
<1>4. CASE w \in VoterCall
  BY <1>4 DEF VoterCall
<1>5. CASE w \in Carrying
  BY <1>5 DEF Carrying
<1>6. CASE w \in Comparing
  BY <1>6 DEF Comparing
<1>7. CASE w \in Importing
  BY <1>7 DEF Importing
<1> QED
  BY <1>1, <1>2, <1>3, <1>4, <1>5, <1>6, <1>7

LEMMA DeskTypes ==
    DeskOf = {Vacant} \cup FormCall \cup VoterCall \cup Carrying \cup Comparing \cup Importing
BY DEF DeskOf, FormCall, VoterCall, Carrying, Comparing, Importing

(* A desk at the counter that takes a new place which is not the carrying out *)
(* of a request.                                                              *)
LEMMA DeskMoves ==
    ASSUME RosterInv, NEW d \in Desks, NEW w \in DeskOf, w.at \notin {"execute", "found"},
           desks' = [desks EXCEPT ![d] = w]
    PROVE  /\ desks' \in [Desks -> DeskOf] /\ desks'[d] = w
           /\ \A e \in Desks : desks'[e].at \in {"execute", "found"} => e # d /\ desks'[e] = desks[e]
BY DEF RosterInv, RosterTypeOK

(* A desk that begins to carry out a request, or goes on with it.             *)
LEMMA DeskCarries ==
    ASSUME RosterInv, NEW d \in Desks, NEW w \in Carrying, desks' = [desks EXCEPT ![d] = w]
    PROVE  /\ desks' \in [Desks -> DeskOf] /\ desks'[d] = w
           /\ \A e \in Desks \ {d} : desks'[e] = desks[e]
BY DeskTypes DEF RosterInv, RosterTypeOK

(* What a step leaves of the roster: nobody who stays loses the mark, and     *)
(* nobody who voted goes but by a removal.                                    *)
RowsKept == \A v \in Voters : roster[v].voted => roster'[v].voted /\ roster'[v].on

(* A step that leaves forms alone and lets no desk begin to carry out.        *)
LEMMA FormsHeldOn ==
    ASSUME RosterInv, forms' = forms,
           \A e \in Desks : desks'[e].at \in {"execute", "found"} => desks'[e] = desks[e]
    PROVE  \A f \in Forms : FormHeld(f)'
<1> SUFFICES ASSUME NEW f \in Forms PROVE FormHeld(f)'
  OBVIOUS
<1>1. FormHeld(f) /\ \A e \in Desks : CarriesOut(e, f)' => CarriesOut(e, f)
  BY DEF RosterInv, CarriesOut
<1> QED
  BY <1>1 DEF FormHeld

LEMMA VacantDesk == Vacant \in DeskOf /\ Vacant.at = "idle"
BY DEF DeskOf, Vacant

(* Vocabulary of the step: what the next state adds to RosterInv.             *)
LEMMA DeskOnly ==
    ASSUME RosterInv, UNCHANGED <<phase, moved, forms, roster>>, NEW d \in Desks, NEW w \in DeskOf,
           w.at \notin {"execute", "found"}, desks' = [desks EXCEPT ![d] = w]
    PROVE  RosterInv' /\ RowsKept
<1>1. desks' \in [Desks -> DeskOf]
      /\ \A e \in Desks : desks'[e].at \in {"execute", "found"} => desks'[e] = desks[e]
  BY DeskMoves
<1>2. \A f \in Forms : FormHeld(f)'
  BY <1>1, FormsHeldOn
<1> QED
  BY <1>1, <1>2 DEF RosterInv, RosterTypeOK, NothingOffRoster, RowsKept

(* The three properties of a step.                                            *)
DecisionsKept ==
    \A f \in Forms :
         forms'[f].status # forms[f].status =>
            \/ forms[f].status \in {"unused", "pending"}
            \/ forms'[f].status = "cancelled"
            \/ /\ forms[f].status = "expired_at_freeze"
               /\ forms'[f].status \in {"force_approved", "force_denied"}

Stays == \A v \in Voters : roster[v].voted /\ roster'[v].on => roster'[v].voted

Spares ==
    \A v \in Voters : roster[v].voted /\ ~roster'[v].on =>
       \E d \in Desks : desks[d].at \in {"looked", "execute"} /\ desks'[d] = Vacant

RosterGoal == RosterInv' /\ DecisionsKept /\ Stays /\ Spares

(* A step of a desk that touches neither the roster nor a request.            *)
LEMMA QuietDesk ==
    ASSUME RosterInv, UNCHANGED <<phase, moved, forms, roster>>, NEW d \in Desks, NEW w \in DeskOf,
           w.at \notin {"execute", "found"}, desks' = [desks EXCEPT ![d] = w]
    PROVE  RosterGoal
<1>1. RosterInv' /\ RowsKept
  BY DeskOnly
<1> QED
  BY <1>1 DEF RosterGoal, DecisionsKept, Stays, Spares, RowsKept

(* A step that changes rows, and of the desks leaves or puts at rest.         *)
LEMMA RowStep ==
    ASSUME RosterInv, UNCHANGED <<phase, moved, forms>>, roster' \in [Voters -> RowOf],
           NothingOffRoster', desks' \in [Desks -> DeskOf],
           \A e \in Desks : desks'[e].at \in {"execute", "found"} => desks'[e] = desks[e],
           Stays, Spares
    PROVE  RosterGoal
<1>1. \A f \in Forms : FormHeld(f)'
  BY FormsHeldOn
<1> QED
  BY <1>1 DEF RosterInv, RosterTypeOK, RosterGoal, DecisionsKept

(* A step that rewrites one request; nobody begins to carry out another.      *)
LEMMA FormStep ==
    ASSUME RosterInv, UNCHANGED <<phase, moved>>, NEW f \in Forms, NEW x \in FormOf,
           forms' = [forms EXCEPT ![f] = x], FormHeld(f)',
           roster' \in [Voters -> RowOf], NothingOffRoster', desks' \in [Desks -> DeskOf],
           \A e \in Desks, g \in Forms : g # f /\ CarriesOut(e, g)' => CarriesOut(e, g),
           \/ x.status = forms[f].status
           \/ forms[f].status \in {"unused", "pending"}
           \/ x.status = "cancelled"
           \/ forms[f].status = "expired_at_freeze" /\ x.status \in {"force_approved", "force_denied"},
           Stays, Spares
    PROVE  RosterGoal
<1>1. /\ forms' \in [Forms -> FormOf] /\ forms'[f] = x
      /\ \A g \in Forms : g # f => forms'[g] = forms[g]
  BY DEF RosterInv, RosterTypeOK
<1>2. ASSUME NEW g \in Forms, g # f PROVE FormHeld(g)'
  <2>1. FormHeld(g) /\ forms'[g] = forms[g] /\ \A e \in Desks : CarriesOut(e, g)' => CarriesOut(e, g)
    BY <1>1, <1>2 DEF RosterInv
  <2> QED
    BY <2>1 DEF FormHeld
<1>3. \A g \in Forms : FormHeld(g)'
  BY <1>2
<1>4. DecisionsKept
  BY <1>1 DEF DecisionsKept
<1> QED
  BY <1>1, <1>3, <1>4 DEF RosterInv, RosterTypeOK, RosterGoal

LEMMA UpsertedRow ==
    ASSUME NEW row \in RowOf, row.voted => row.on
    PROVE  /\ Upserted(row) \in RowOf /\ Upserted(row).on
           /\ row.voted => Upserted(row).voted
BY DEF Upserted, RowOf, NewRow

LEMMA NoRowIsOff == NoRow \in RowOf /\ ~NoRow.on /\ ~NoRow.voted
BY DEF NoRow, RowOf

-----------------------------------------------------------------------------
(* Steps that are not a desk's.                                               *)
LEMMA OutsideStep ==
    ASSUME RosterInv, RosterAssumption,
           PhaseMove \/ TurnedAway \/ (\E v \in Voters : VoterVotes(v) \/ VoterShielded(v))
    PROVE  RosterGoal
<1>1. /\ roster \in [Voters -> RowOf] /\ forms \in [Forms -> FormOf] /\ desks \in [Desks -> DeskOf]
      /\ phase \in {"pre_freeze", "voting_frozen", "closed"} /\ moved \in 0 .. Moves /\ Moves \in Nat
      /\ \A v \in Voters : roster[v].voted => roster[v].on
  BY DEF RosterInv, RosterTypeOK, NothingOffRoster, RosterAssumption
<1>2. CASE PhaseMove
  <2>1. UNCHANGED <<roster, forms, desks>> /\ moved' \in 0 .. Moves
    BY <1>1, <1>2 DEF PhaseMove
  <2>2. phase' \in {"pre_freeze", "voting_frozen", "closed"}
    BY <1>2 DEF PhaseMove
  <2>3. \A f \in Forms : FormHeld(f)'
    BY <2>1, FormsHeldOn
  <2> QED
    BY <2>1, <2>2, <2>3 DEF RosterGoal, RosterInv, RosterTypeOK, NothingOffRoster, DecisionsKept, Stays, Spares
<1>3. CASE TurnedAway
  <2>1. UNCHANGED <<phase, moved, roster, desks>>
    BY <1>3 DEF TurnedAway
  <2>2. ASSUME NEW f \in Forms
        PROVE  /\ forms'[f] \in FormOf /\ FormHeld(f)'
               /\ forms'[f].status # forms[f].status => forms[f].status = "pending"
    <3>1. FormHeld(f) /\ forms[f] \in FormOf
      BY <1>1 DEF RosterInv
    <3>2. CASE forms[f].status = "pending"
      <4>1. forms'[f] = [forms[f] EXCEPT !.status = "expired_at_freeze"]
        BY <1>3, <3>2 DEF TurnedAway
      <4>2. forms'[f] \in FormOf /\ forms'[f].status = "expired_at_freeze"
            /\ forms'[f].applied = forms[f].applied
        BY <3>1, <4>1 DEF FormOf, FormStatus
      <4>3. \A d \in Desks : ~CarriesOut(d, f) /\ ~CarriesOut(d, f)'
        BY <2>1, <3>1, <3>2 DEF FormHeld, Unapplied, CarriesOut
      <4> QED
        BY <3>1, <3>2, <4>2, <4>3 DEF FormHeld, Unapplied
    <3>3. CASE forms[f].status # "pending"
      <4>1. forms'[f] = forms[f]
        BY <1>3, <3>3 DEF TurnedAway
      <4> QED
        BY <2>1, <3>1, <4>1 DEF FormHeld, CarriesOut
    <3> QED
      BY <3>2, <3>3
  <2>3. forms' \in [Forms -> FormOf]
    <3>1. forms' = [f \in Forms |-> forms'[f]]
      BY <1>3 DEF TurnedAway
    <3> QED
      BY <2>2, <3>1
  <2> QED
    BY <2>1, <2>2, <2>3 DEF RosterGoal, RosterInv, RosterTypeOK, NothingOffRoster, DecisionsKept, Stays, Spares
<1>4. ASSUME NEW v \in Voters, VoterVotes(v) \/ VoterShielded(v)
      PROVE  RosterGoal
  <2>1. UNCHANGED <<phase, moved, forms, desks>> /\ roster[v].on
    BY <1>4 DEF VoterVotes, VoterShielded
  <2>2. PICK x \in RowOf : /\ roster' = [roster EXCEPT ![v] = x]
                           /\ x.on /\ (roster[v].voted => x.voted)
    <3>1. CASE VoterVotes(v)
      <4> DEFINE y == [roster[v] EXCEPT !.voted = TRUE]
      <4>1. roster' = [roster EXCEPT ![v] = y]
        BY <3>1 DEF VoterVotes
      <4>2. y \in RowOf /\ y.on = roster[v].on /\ y.voted
        BY <1>1 DEF RowOf
      <4> HIDE DEF y
      <4> QED
        BY <2>1, <4>1, <4>2
    <3>2. CASE VoterShielded(v)
      <4> DEFINE y == [roster[v] EXCEPT !.shielded = TRUE]
      <4>1. roster' = [roster EXCEPT ![v] = y]
        BY <3>2 DEF VoterShielded
      <4>2. y \in RowOf /\ y.on = roster[v].on /\ y.voted = roster[v].voted
        BY <1>1 DEF RowOf
      <4> HIDE DEF y
      <4> QED
        BY <2>1, <4>1, <4>2
    <3> QED
      BY <1>4, <3>1, <3>2
  <2>3. roster' \in [Voters -> RowOf] /\ roster'[v] = x /\ \A u \in Voters \ {v} : roster'[u] = roster[u]
    BY <1>1, <2>2
  <2>4. NothingOffRoster' /\ Stays /\ Spares
    BY <1>1, <2>2, <2>3 DEF NothingOffRoster, Stays, Spares
  <2> QED
    BY <1>1, <2>1, <2>3, <2>4, RowStep
<1> QED
  BY <1>2, <1>3, <1>4

-----------------------------------------------------------------------------
(* The steps of a desk that only read.                                        *)
LEMMA ReadingStep ==
    ASSUME RosterInv, NEW d \in Desks,
           (\E call \in Calls : Admit(d, call)) \/ LookUp(d) \/ Compare(d)
    PROVE  RosterGoal
<1>0. desks \in [Desks -> DeskOf] /\ desks[d] \in DeskOf
  BY DEF RosterInv, RosterTypeOK
<1>1. ASSUME NEW call \in Calls, Admit(d, call) PROVE RosterGoal
  <2>1. call \in FormCall \cup VoterCall \cup Comparing /\ call.at = "admitted"
    <3>1. CASE call \in [at : {"admitted"}, op : FormOps, form : {f \in Forms : forms[f].status # "unused"}]
      BY <3>1 DEF FormCall
    <3>2. CASE call \in [at : {"admitted"}, op : VoterOps, voter : Voters]
      BY <3>2 DEF VoterCall
    <3>3. CASE call \in [at : {"admitted"}, op : {"import"}, file : SUBSET Voters]
      BY <3>3 DEF Comparing
    <3> QED
      BY <1>1, <3>1, <3>2, <3>3 DEF Calls
  <2>2. call \in DeskOf
    BY <2>1, DeskTypes
  <2> QED
    BY <1>1, <2>1, <2>2, QuietDesk DEF Admit
<1>2. CASE LookUp(d)
  <2>1. UNCHANGED <<phase, moved, forms, roster>> /\ desks[d].at = "admitted" /\ desks[d].op # "import"
    BY <1>2 DEF LookUp
  <2>2. CASE desks' = [desks EXCEPT ![d] = Vacant]
    BY <2>1, <2>2, VacantDesk, QuietDesk
  <2>3. CASE GoOn(d, "looked")
    <3> DEFINE w == [desks[d] EXCEPT !.at = "looked"]
    <3>1. desks[d] \in FormCall \cup VoterCall
      BY <1>0, <2>1, DeskShape DEF Comparing
    <3>2. w \in FormCall \cup VoterCall /\ w.at = "looked"
      <4>1. CASE desks[d] \in FormCall
        BY <4>1 DEF FormCall
      <4>2. CASE desks[d] \in VoterCall
        BY <4>2 DEF VoterCall
      <4> QED
        BY <3>1, <4>1, <4>2
    <3>3. desks' = [desks EXCEPT ![d] = w]
      BY <2>3 DEF GoOn
    <3> HIDE DEF w
    <3>4. w \in DeskOf
      BY <3>2, DeskTypes
    <3> QED
      BY <2>1, <3>2, <3>3, <3>4, QuietDesk
  <2> QED
    BY <1>2, <2>2, <2>3 DEF LookUp, Leave
<1>3. CASE Compare(d)
  <2>1. UNCHANGED <<phase, moved, forms, roster>> /\ desks[d].at = "admitted" /\ desks[d].op = "import"
    BY <1>3 DEF Compare
  <2>2. desks[d] \in Comparing
    BY <1>0, <2>1, DeskShape DEF FormCall, VoterCall, FormOps, VoterOps
  <2> DEFINE new  == {v \in desks[d].file : ~roster[v].on}
             gone == {v \in Voters \ desks[d].file : roster[v].on /\ ~Protected(roster[v])}
             w    == [at |-> "write", op |-> "import", file |-> new, gone |-> gone]
  <2>3. new \subseteq Voters /\ gone \subseteq Voters
    BY <2>2 DEF Comparing
  <2>4. desks' = [desks EXCEPT ![d] = w]
    BY <1>3 DEF Compare
  <2> HIDE DEF new, gone
  <2>5. w \in Importing /\ w.at = "write"
    BY <2>3 DEF Importing
  <2> HIDE DEF w
  <2>6. w \in DeskOf
    BY <2>5, DeskTypes
  <2> QED
    BY <2>1, <2>4, <2>5, <2>6, QuietDesk
<1> QED
  BY <1>1, <1>2, <1>3

(* The steps of a desk that write the roster past the requests.               *)
LEMMA DirectStep ==
    ASSUME RosterInv, NEW d \in Desks, Direct(d) \/ ImportNew(d) \/ ImportGone(d)
    PROVE  RosterGoal
<1>0. /\ desks \in [Desks -> DeskOf] /\ desks[d] \in DeskOf /\ roster \in [Voters -> RowOf]
      /\ \A v \in Voters : roster[v] \in RowOf /\ (roster[v].voted => roster[v].on)
  BY DEF RosterInv, RosterTypeOK, NothingOffRoster
<1>1. CASE Direct(d)
  <2>1. UNCHANGED <<phase, moved, forms>> /\ desks[d].at = "looked" /\ desks[d].op \in {"add", "remove"}
        /\ desks' = [desks EXCEPT ![d] = Vacant]
    BY <1>1 DEF Direct, Leave
  <2>2. desks[d] \in VoterCall
    BY <1>0, <2>1, DeskShape DEF FormCall, FormOps
  <2> DEFINE v == desks[d].voter
             x == IF desks[d].op = "add" THEN Upserted(roster[v]) ELSE NoRow
  <2>3. v \in Voters
    BY <2>2 DEF VoterCall
  <2>4. roster' = [roster EXCEPT ![v] = x]
    BY <1>1 DEF Direct
  <2>5. x \in RowOf /\ (x.voted => x.on) /\ (roster[v].voted /\ x.on => x.voted)
    BY <1>0, <2>3, UpsertedRow, NoRowIsOff
  <2> HIDE DEF v, x
  <2>6. roster' \in [Voters -> RowOf] /\ roster'[v] = x /\ \A u \in Voters \ {v} : roster'[u] = roster[u]
    BY <1>0, <2>3, <2>4, <2>5
  <2>7. /\ desks' \in [Desks -> DeskOf] /\ desks'[d] = Vacant
        /\ \A e \in Desks : desks'[e].at \in {"execute", "found"} => desks'[e] = desks[e]
    BY <2>1, VacantDesk, DeskMoves
  <2>8. NothingOffRoster' /\ Stays /\ Spares
    BY <1>0, <2>1, <2>5, <2>6, <2>7 DEF NothingOffRoster, Stays, Spares
  <2> QED
    BY <2>1, <2>6, <2>7, <2>8, RowStep
<1>2. CASE ImportNew(d)
  <2>1. UNCHANGED <<phase, moved, forms>> /\ desks[d].at = "write" /\ GoOn(d, "sweep")
    BY <1>2 DEF ImportNew
  <2>2. desks[d] \in Importing
    BY <1>0, <2>1, DeskShape
  <2> DEFINE w == [desks[d] EXCEPT !.at = "sweep"]
  <2>3. w \in Importing /\ w.at = "sweep" /\ desks' = [desks EXCEPT ![d] = w]
    BY <2>1, <2>2 DEF Importing, GoOn
  <2> HIDE DEF w
  <2>4. w \in DeskOf
    BY <2>3, DeskTypes
  <2>5. /\ desks' \in [Desks -> DeskOf]
        /\ \A e \in Desks : desks'[e].at \in {"execute", "found"} => desks'[e] = desks[e]
    BY <2>3, <2>4, DeskMoves
  <2>6. /\ roster' = [v \in Voters |-> IF v \in desks[d].file THEN Upserted(roster[v]) ELSE roster[v]]
        /\ \A v \in Voters : roster'[v] \in {roster[v], Upserted(roster[v])}
    BY <1>2 DEF ImportNew
  <2>7. \A v \in Voters : roster'[v] \in RowOf /\ (roster'[v].voted => roster'[v].on)
                          /\ (roster[v].voted => roster'[v].voted)
    BY <1>0, <2>6, UpsertedRow
  <2>8. roster' \in [Voters -> RowOf]
    <3>1. roster' = [v \in Voters |-> roster'[v]]
      BY <2>6
    <3> QED
      BY <2>7, <3>1
  <2>9. NothingOffRoster' /\ Stays /\ Spares
    BY <2>7 DEF NothingOffRoster, Stays, Spares
  <2> QED
    BY <2>1, <2>5, <2>8, <2>9, RowStep
<1>3. CASE ImportGone(d)
  <2>1. UNCHANGED <<phase, moved, forms>> /\ desks' = [desks EXCEPT ![d] = Vacant]
    BY <1>3 DEF ImportGone, Leave
  <2>2. /\ desks' \in [Desks -> DeskOf]
        /\ \A e \in Desks : desks'[e].at \in {"execute", "found"} => desks'[e] = desks[e]
    BY <2>1, VacantDesk, DeskMoves
  <2>3. /\ roster' = [v \in Voters |->
                        IF v \in desks[d].gone /\ Removable(roster[v]) THEN NoRow ELSE roster[v]]
        /\ \A v \in Voters : roster'[v] = roster[v] \/ (roster'[v] = NoRow /\ ~roster[v].voted)
    BY <1>3 DEF ImportGone, Removable
  <2>4. \A v \in Voters : roster'[v] \in RowOf /\ (roster'[v].voted => roster'[v].on)
                          /\ (roster[v].voted => roster'[v].voted)
    BY <1>0, <2>3, NoRowIsOff
  <2>5. roster' \in [Voters -> RowOf]
    <3>1. roster' = [v \in Voters |-> roster'[v]]
      BY <2>3
    <3> QED
      BY <2>4, <3>1
  <2>6. NothingOffRoster' /\ Stays /\ Spares
    BY <2>4 DEF NothingOffRoster, Stays, Spares
  <2> QED
    BY <2>1, <2>2, <2>5, <2>6, RowStep
<1> QED
  BY <1>1, <1>2, <1>3

(* The steps of a desk that ask for a change or decide on one.                *)
LEMMA AskingStep ==
    ASSUME RosterInv, NEW d \in Desks, Ask(d)
    PROVE  RosterGoal
<1> DEFINE kind    == IF desks[d].op = "ask_add" THEN "add" ELSE "remove"
           through == Bypass /\ kind = "add"
<1>0. /\ desks \in [Desks -> DeskOf] /\ desks[d] \in DeskOf /\ roster \in [Voters -> RowOf]
      /\ forms \in [Forms -> FormOf] /\ UNCHANGED <<phase, moved, roster>>
      /\ desks[d].at = "looked" /\ desks[d].op \in {"ask_add", "ask_remove"}
      /\ NothingOffRoster' /\ Stays /\ Spares /\ kind \in {"add", "remove"}
  BY DEF RosterInv, RosterTypeOK, NothingOffRoster, Stays, Spares, Ask
<1>1. desks[d] \in VoterCall /\ desks[d].voter \in Voters
  BY <1>0, DeskShape DEF FormCall, FormOps, VoterCall
<1>2. PICK f \in Forms :
        /\ forms[f].status = "unused"
        /\ forms' = [forms EXCEPT ![f].status = IF through THEN "approved" ELSE "pending",
                                  ![f].kind = kind, ![f].voter = desks[d].voter]
        /\ IF through
           THEN desks' = [desks EXCEPT ![d] = [at |-> "execute", op |-> "ask_add", form |-> f]]
           ELSE Leave(d)
  BY DEF Ask
<1> DEFINE x == [forms[f] EXCEPT !.status = IF through THEN "approved" ELSE "pending",
                                 !.kind = kind, !.voter = desks[d].voter]
<1>3. forms' = [forms EXCEPT ![f] = x]
  BY <1>0, <1>2
<1>4. FormHeld(f) /\ forms[f] \in FormOf /\ forms[f].applied = 0
      /\ \A e \in Desks : ~CarriesOut(e, f)
  BY <1>0, <1>2 DEF RosterInv, FormHeld, Unapplied
<1>5. x \in FormOf /\ x.applied = 0 /\ x.status = IF through THEN "approved" ELSE "pending"
  BY <1>0, <1>1, <1>4 DEF FormOf, FormStatus, Granted
<1> HIDE DEF x, kind
<1>6. forms'[f] = x
  BY <1>0, <1>3
<1>7. CASE ~through
  <2>1. /\ desks' \in [Desks -> DeskOf]
        /\ \A e \in Desks : desks'[e].at \in {"execute", "found"} => desks'[e] = desks[e]
    BY <1>2, <1>7, VacantDesk, DeskMoves DEF Leave
  <2>2. \A e \in Desks, g \in Forms : CarriesOut(e, g)' => CarriesOut(e, g)
    BY <2>1 DEF CarriesOut
  <2>3. FormHeld(f)'
    BY <1>4, <1>5, <1>6, <1>7, <2>2 DEF FormHeld, Unapplied
  <2> QED
    BY <1>0, <1>2, <1>3, <1>5, <2>1, <2>2, <2>3, FormStep
<1>8. CASE through
  <2> DEFINE w == [at |-> "execute", op |-> "ask_add", form |-> f]
  <2>1. w \in Carrying /\ w.form = f /\ desks' = [desks EXCEPT ![d] = w]
    BY <1>2, <1>8 DEF Carrying
  <2> HIDE DEF w
  <2>2. desks' \in [Desks -> DeskOf] /\ desks'[d] = w /\ \A e \in Desks \ {d} : desks'[e] = desks[e]
    BY <2>1, DeskCarries
  <2>3. \A e \in Desks, g \in Forms : g # f /\ CarriesOut(e, g)' => CarriesOut(e, g)
    BY <2>1, <2>2 DEF CarriesOut
  <2>4. \A e \in Desks : CarriesOut(e, f)' => e = d
    BY <1>4, <2>2 DEF CarriesOut
  <2>5. FormHeld(f)'
    BY <1>5, <1>6, <1>8, <2>4 DEF FormHeld, Unapplied, Rejected
  <2> QED
    BY <1>0, <1>2, <1>3, <1>5, <2>2, <2>3, <2>5, FormStep
<1> QED
  BY <1>7, <1>8

LEMMA DecidingStep ==
    ASSUME RosterInv, NEW d \in Desks, Claim(d) \/ CancelForm(d)
    PROVE  RosterGoal
<1>0. /\ desks \in [Desks -> DeskOf] /\ desks[d] \in DeskOf /\ roster \in [Voters -> RowOf]
      /\ forms \in [Forms -> FormOf] /\ UNCHANGED <<phase, moved, roster>>
      /\ desks[d].at = "looked" /\ desks[d].op \in FormOps
      /\ NothingOffRoster' /\ Stays /\ Spares
  BY DEF RosterInv, RosterTypeOK, NothingOffRoster, Stays, Spares, Claim, CancelForm, FormOps
<1>1. desks[d] \in FormCall
  BY <1>0, DeskShape DEF VoterCall, FormOps, VoterOps
<1>f. PICK f \in Forms : f = desks[d].form
  BY <1>1 DEF FormCall
<1>2. f \in Forms /\ forms[f] \in FormOf /\ FormHeld(f)
  BY <1>0 DEF RosterInv
<1>3. ASSUME desks' = [desks EXCEPT ![d] = Vacant]
      PROVE  /\ desks' \in [Desks -> DeskOf]
             /\ \A e \in Desks : desks'[e].at \in {"execute", "found"} => desks'[e] = desks[e]
             /\ \A e \in Desks, g \in Forms : CarriesOut(e, g)' => CarriesOut(e, g)
  <2>1. /\ desks' \in [Desks -> DeskOf]
        /\ \A e \in Desks : desks'[e].at \in {"execute", "found"} => desks'[e] = desks[e]
    BY <1>3, VacantDesk, DeskMoves
  <2> QED
    BY <2>1 DEF CarriesOut
<1>4. CASE CancelForm(d)
  <2> DEFINE x == [forms[f] EXCEPT !.status = "cancelled"]
  <2>1. forms' = [forms EXCEPT ![f] = x] /\ desks' = [desks EXCEPT ![d] = Vacant]
    BY <1>4, <1>f DEF CancelForm, Leave
  <2>2. x \in FormOf /\ x.status = "cancelled" /\ x.applied = forms[f].applied
    BY <1>2 DEF FormOf, FormStatus
  <2> HIDE DEF x
  <2>3. forms'[f] = x
    BY <1>0, <1>2, <2>1
  <2>4. FormHeld(f)'
    BY <1>2, <1>3, <2>1, <2>2, <2>3 DEF FormHeld, Unapplied, Rejected
  <2> QED
    BY <1>0, <1>2, <1>3, <2>1, <2>2, <2>4, FormStep
<1>5. CASE Claim(d) /\ ~Claimable(desks[d].op, forms[f].status)
  <2>1. desks' = [desks EXCEPT ![d] = Vacant] /\ UNCHANGED forms
    BY <1>5, <1>f DEF Claim, Leave
  <2> QED
    BY <1>0, <2>1, VacantDesk, QuietDesk
<1>6. CASE Claim(d) /\ Claimable(desks[d].op, forms[f].status)
  <2>1. PICK verdict \in Verdicts(desks[d].op) :
          /\ forms' = [forms EXCEPT ![f].status = verdict]
          /\ IF verdict \in Granted THEN GoOn(d, "execute") ELSE Leave(d)
    BY <1>6, <1>f DEF Claim
  <2> DEFINE x == [forms[f] EXCEPT !.status = verdict]
  <2>2. desks[d].op \in {"decide", "force_approve", "force_deny"}
    BY <1>0, <1>6 DEF Claim, FormOps
  <2>3. verdict \in Granted \cup Rejected
        /\ (desks[d].op # "decide" => verdict \in {"force_approved", "force_denied"})
    BY <2>1, <2>2 DEF Verdicts, Granted, Rejected
  <2>4. x \in FormOf /\ x.status = verdict /\ x.applied = forms[f].applied
    BY <1>2, <2>3 DEF FormOf, FormStatus
  <2>5. forms' = [forms EXCEPT ![f] = x]
    BY <2>1
  <2>6. forms[f].status \in Unapplied \ Rejected
    BY <1>2, <1>6, <2>2 DEF Claimable, FormOf, FormStatus, Unapplied, Granted, Rejected
  <2>7. forms[f].applied = 0 /\ \A e \in Desks : ~CarriesOut(e, f)
    BY <1>2, <2>6 DEF FormHeld
  <2>8. \/ forms[f].status \in {"unused", "pending"}
        \/ forms[f].status = "expired_at_freeze" /\ x.status \in {"force_approved", "force_denied"}
    <3>1. CASE desks[d].op = "decide"
      BY <1>6, <3>1 DEF Claimable
    <3>2. CASE desks[d].op # "decide"
      BY <2>3, <2>4, <2>6, <3>2 DEF Unapplied
    <3> QED
      BY <3>1, <3>2
  <2> HIDE DEF x
  <2>9. forms'[f] = x
    BY <1>0, <1>2, <2>5
  <2>10. CASE verdict \notin Granted
    <3>1. desks' = [desks EXCEPT ![d] = Vacant]
      BY <2>1, <2>10 DEF Leave
    <3>2. FormHeld(f)'
      BY <1>2, <1>3, <2>4, <2>7, <2>9, <3>1 DEF FormHeld
    <3> QED
      BY <1>0, <1>2, <1>3, <2>4, <2>5, <2>8, <3>1, <3>2, FormStep
  <2>11. CASE verdict \in Granted
    <3> DEFINE w == [desks[d] EXCEPT !.at = "execute"]
    <3>1. desks' = [desks EXCEPT ![d] = w]
      BY <2>1, <2>11 DEF GoOn
    <3>2. w \in Carrying /\ w.form = f
      BY <1>1, <1>f DEF Carrying, FormCall
    <3> HIDE DEF w
    <3>3. desks' \in [Desks -> DeskOf] /\ desks'[d] = w /\ \A e \in Desks \ {d} : desks'[e] = desks[e]
      BY <3>1, <3>2, DeskCarries
    <3>4. \A e \in Desks, g \in Forms : g # f /\ CarriesOut(e, g)' => CarriesOut(e, g)
      BY <3>2, <3>3 DEF CarriesOut
    <3>5. \A e \in Desks : CarriesOut(e, f)' => e = d
      BY <2>7, <3>3 DEF CarriesOut
    <3>6. FormHeld(f)'
      BY <2>4, <2>7, <2>9, <2>11, <3>5 DEF FormHeld, Unapplied, Granted, Rejected
    <3> QED
      BY <1>0, <1>2, <2>4, <2>5, <2>8, <3>3, <3>4, <3>6, FormStep
  <2> QED
    BY <2>10, <2>11
<1> QED
  BY <1>4, <1>5, <1>6

(* The steps of a desk that carry a request out.                              *)
LEMMA CarryingStep ==
    ASSUME RosterInv, NEW d \in Desks, Execute(d) \/ ExecuteAdd(d)
    PROVE  RosterGoal
<1>0. /\ desks \in [Desks -> DeskOf] /\ desks[d] \in DeskOf /\ roster \in [Voters -> RowOf]
      /\ forms \in [Forms -> FormOf] /\ UNCHANGED <<phase, moved>>
      /\ desks[d].at \in {"execute", "found"}
      /\ \A v \in Voters : roster[v] \in RowOf /\ (roster[v].voted => roster[v].on)
  BY DEF RosterInv, RosterTypeOK, NothingOffRoster, Execute, ExecuteAdd
<1>1. desks[d] \in Carrying
  BY <1>0, DeskShape
<1>f. PICK f \in Forms : f = desks[d].form
  BY <1>1 DEF Carrying
<1>2. CarriesOut(d, f) /\ forms[f] \in FormOf /\ FormHeld(f)
  BY <1>0, <1>f DEF RosterInv, CarriesOut
<1>3. forms[f].applied = 0 /\ forms[f].status \notin Unapplied
      /\ \A e \in Desks : CarriesOut(e, f) => e = d
  BY <1>2 DEF FormHeld
<1>v. PICK v \in Voters : v = forms[f].voter
  BY <1>2 DEF FormOf
(* The desk is done with the request: the roster has the change.              *)
<1>4. ASSUME forms' = Counted(f), desks' = [desks EXCEPT ![d] = Vacant], NEW row \in RowOf,
             roster' = [roster EXCEPT ![v] = row], row.voted => row.on,
             roster[v].voted /\ row.on => row.voted, row.on \/ desks[d].at = "execute"
      PROVE  RosterGoal
  <2> DEFINE x == [forms[f] EXCEPT !.applied = IF @ < 2 THEN @ + 1 ELSE @]
  <2>1. forms' = [forms EXCEPT ![f] = x]
    BY <1>4 DEF Counted
  <2>2. x \in FormOf /\ x.status = forms[f].status /\ x.applied = 1
    BY <1>2, <1>3 DEF FormOf
  <2> HIDE DEF x
  <2>3. forms'[f] = x
    BY <1>0, <2>1
  <2>4. /\ desks' \in [Desks -> DeskOf] /\ desks'[d] = Vacant
        /\ \A e \in Desks : desks'[e].at \in {"execute", "found"} => e # d /\ desks'[e] = desks[e]
    BY <1>4, VacantDesk, DeskMoves
  <2>5. \A e \in Desks, g \in Forms : CarriesOut(e, g)' => e # d /\ CarriesOut(e, g)
    BY <2>4 DEF CarriesOut
  <2>6. FormHeld(f)'
    BY <1>3, <2>2, <2>3, <2>5 DEF FormHeld
  <2>7. roster' \in [Voters -> RowOf] /\ roster'[v] = row /\ \A u \in Voters \ {v} : roster'[u] = roster[u]
    BY <1>0, <1>4
  <2>8. NothingOffRoster' /\ Stays /\ Spares
    BY <1>0, <1>4, <2>4, <2>7 DEF NothingOffRoster, Stays, Spares
  <2> QED
    BY <1>0, <2>1, <2>2, <2>4, <2>5, <2>6, <2>7, <2>8, FormStep
<1>5. CASE Execute(d) /\ forms[f].kind = "remove"
  <2>1. /\ forms' = Counted(f) /\ desks' = [desks EXCEPT ![d] = Vacant]
        /\ roster' = [roster EXCEPT ![v] = NoRow] /\ desks[d].at = "execute"
    BY <1>5, <1>f, <1>v DEF Execute, Leave
  <2> QED
    BY <1>4, <2>1, NoRowIsOff
<1>6. CASE Execute(d) /\ forms[f].kind # "remove"
  <2>1. /\ UNCHANGED <<roster, forms>> /\ desks[d].at = "execute"
        /\ Leave(d) \/ GoOn(d, "found")
    BY <1>6, <1>f DEF Execute
  <2>2. CASE Leave(d)
    BY <1>0, <2>1, <2>2, VacantDesk, QuietDesk DEF Leave
  <2>3. CASE GoOn(d, "found")
    <3> DEFINE w == [desks[d] EXCEPT !.at = "found"]
    <3>1. desks' = [desks EXCEPT ![d] = w]
      BY <2>3 DEF GoOn
    <3>2. w \in Carrying /\ w.form = f /\ w.at = "found"
      BY <1>1, <1>f DEF Carrying
    <3> HIDE DEF w
    <3>3. desks' \in [Desks -> DeskOf] /\ desks'[d] = w /\ \A e \in Desks \ {d} : desks'[e] = desks[e]
      BY <3>1, <3>2, DeskCarries
    <3>4. \A e \in Desks, g \in Forms : CarriesOut(e, g)' <=> CarriesOut(e, g)
      BY <1>0, <1>f, <3>2, <3>3 DEF CarriesOut
    <3>5. \A g \in Forms : FormHeld(g)'
      BY <2>1, <3>4 DEF RosterInv, FormHeld
    <3> QED
      BY <1>0, <2>1, <3>3, <3>5 DEF RosterInv, RosterTypeOK, NothingOffRoster, RosterGoal, DecisionsKept, Stays, Spares
  <2> QED
    BY <2>1, <2>2, <2>3
<1>7. CASE ExecuteAdd(d)
  <2>1. /\ forms' = Counted(f) /\ desks' = [desks EXCEPT ![d] = Vacant]
        /\ roster' = [roster EXCEPT ![v] = Upserted(roster[v])]
    BY <1>7, <1>f, <1>v DEF ExecuteAdd, Leave
  <2> QED
    BY <1>0, <1>4, <2>1, UpsertedRow
<1> QED
  BY <1>5, <1>6, <1>7

LEMMA RosterStep ==
    ASSUME RosterInv, RosterAssumption, [RosterNext]_rosterVars
    PROVE  RosterGoal
<1>1. CASE UNCHANGED rosterVars
  <2>1. \A f \in Forms : FormHeld(f)'
    BY <1>1, FormsHeldOn DEF rosterVars
  <2> QED
    BY <1>1, <2>1 DEF rosterVars, RosterInv, RosterTypeOK, NothingOffRoster, RosterGoal, DecisionsKept, Stays, Spares
<1>2. CASE PhaseMove \/ TurnedAway \/ (\E v \in Voters : VoterVotes(v) \/ VoterShielded(v))
  BY <1>2, OutsideStep
<1>3. ASSUME NEW d \in Desks,
             \/ (\E call \in Calls : Admit(d, call)) \/ LookUp(d) \/ Compare(d)
             \/ Direct(d) \/ ImportNew(d) \/ ImportGone(d)
             \/ Ask(d) \/ Claim(d) \/ CancelForm(d) \/ Execute(d) \/ ExecuteAdd(d)
      PROVE  RosterGoal
  BY <1>3, ReadingStep, DirectStep, AskingStep, DecidingStep, CarryingStep
<1> QED
  BY <1>1, <1>2, <1>3 DEF RosterNext

LEMMA RosterBegins == RosterAssumption /\ Voters # {} /\ RosterInit => RosterInv
<1> SUFFICES ASSUME RosterAssumption, Voters # {}, RosterInit PROVE RosterInv
  OBVIOUS
<1>1. NoForm \in FormOf /\ NoForm.applied = 0 /\ NoForm.status = "unused"
  BY DEF NoForm, FormOf, FormStatus
<1>2. NewRow \in RowOf /\ NewRow.on
  BY DEF NewRow, RowOf
<1>3. RosterTypeOK
  BY <1>1, <1>2, VacantDesk DEF RosterInit, RosterTypeOK, RosterAssumption
<1>4. \A d \in Desks, f \in Forms : ~CarriesOut(d, f)
  BY VacantDesk DEF RosterInit, CarriesOut
<1> QED
  BY <1>1, <1>2, <1>3, <1>4 DEF RosterInit, RosterInv, NothingOffRoster, FormHeld

(* A request to add or remove a voter changes the roster at most once,        *)
(* whatever controllers and superadmins decide at the same time, and not at   *)
(* all while it is pending, after it expired at the freeze, or when it was    *)
(* rejected (decide_student_change, force_student_change and                  *)
(* _execute_student_change).                                                  *)
THEOREM RequestsAppliedOnce ==
    ASSUME Voters # {}
    PROVE  RosterSpec => [](RosterTypeOK /\ AppliedOnce)
<1>1. RosterInit => RosterInv
  BY RosterBegins, RosterAssumption
<1>2. RosterInv /\ [RosterNext]_rosterVars => RosterInv'
  BY RosterStep, RosterAssumption DEF RosterGoal
<1>3. RosterInv => RosterTypeOK /\ AppliedOnce
  BY DEF RosterInv, FormHeld, AppliedOnce, Unapplied
<1> QED
  BY <1>1, <1>2, <1>3, PTL DEF RosterSpec

(* A decision is not replaced by another, no route of the roster takes the    *)
(* mark of having voted from a voter who stays, and an import removes nobody  *)
(* who has voted.                                                             *)
THEOREM RosterStepsSound ==
    ASSUME Voters # {}
    PROVE  RosterSpec => RosterSteps
<1>1. RosterInit => RosterInv
  BY RosterBegins, RosterAssumption
<1>2. RosterInv /\ [RosterNext]_rosterVars => RosterInv'
  BY RosterStep, RosterAssumption DEF RosterGoal
<1>3. RosterInv /\ [RosterNext]_rosterVars => [DecisionsKept]_rosterVars /\ [Stays]_rosterVars /\ [Spares]_rosterVars
  BY RosterStep, RosterAssumption DEF RosterGoal
<1>4. RosterSpec => [][DecisionsKept]_rosterVars /\ [][Stays]_rosterVars /\ [][Spares]_rosterVars
  BY <1>1, <1>2, <1>3, PTL DEF RosterSpec
<1> QED
  BY <1>4 DEF RosterSteps, DecisionsStand, VotersStayVoted, ImportSparesVoters, DecisionsKept, Stays, Spares

-----------------------------------------------------------------------------
(* Contact details (ContactChanges).                                           *)

FitEdits == [field : {"phone"}, old : Phones, new : Phones] \cup [field : {"number"}, old : RegNos, new : RegNos]

Afterwards == {"write", "recheck", "rollback", "follow", "audit", "reset"}

Begun == [at : {"request"}, who : People, edit : FitEdits]
Asked == [at : {"claim", "fetch"}, change : Changes]
Deciding == [at : Afterwards, op : {"decide"}, change : Changes, who : People, edit : FitEdits, seen : Doc]
Editing == [at : Afterwards, op : {"edit"}, who : People, edit : FitEdits, seen : Doc]
Undoing == [at : {"undo"}, who : People, edit : FitEdits, seen : Doc]
Sending == [at : {"send"}, number : RegNos, phone : Phones]
ClerkRecord == {Off} \cup Begun \cup Asked \cup Deciding \cup Editing \cup Undoing \cup Sending

ContactTypes ==
    /\ voter \in [People -> Doc]
    /\ change \in [Changes -> [status : {"unused"}]
              \cup [status : Decided \cup {"pending"}, who : People, edit : FitEdits, applied : 0 .. 2]]
    /\ trail \subseteq [who : People, edit : FitEdits]
    /\ code \in [RegNos -> Phones \cup {NoPhone}]
    /\ clerk \in [Clerks -> ClerkRecord]
    /\ \A k \in Clerks : clerk[k].at \in {"recheck", "rollback"} => clerk[k].edit.field = "number"

HasClaim(r, c) == r.at \in Afterwards \cup {"fetch"} /\ "change" \in DOMAIN r /\ r.change = c

RequestKept(c) ==
    /\ change[c].status = "pending" => change[c].applied = 0
    /\ change[c].status \in Decided /\ (\A k \in Clerks : ~HasClaim(clerk[k], c)) =>
          change[c].applied = IF change[c].status = "approved" THEN 1 ELSE 0
    /\ \A k \in Clerks : HasClaim(clerk[k], c) =>
          /\ change[c].status = "approved"
          /\ change[c].applied = IF clerk[k].at = "reset" THEN 1 ELSE 0
    /\ \A j, k \in Clerks : HasClaim(clerk[j], c) /\ HasClaim(clerk[k], c) => j = k

Settles(r, p, q) == r.at \in {"recheck", "rollback"} /\ r.who \in {p, q} /\ r.edit.new = voter[p].number

NumberKept(p, q) ==
    voter[p].number = voter[q].number =>
        voter[p].number \in restored \/ \E k \in Clerks : Settles(clerk[k], p, q)

Forgets(r, n) == r.at \in Afterwards \ {"write"} /\ n \in Forgotten(r.edit, r.seen)

CodeKept(p) ==
    \/ voter[p].number \in rewritten
    \/ code[voter[p].number] \in {NoPhone, voter[p].phone}
    \/ \E k \in Clerks : Forgets(clerk[k], voter[p].number)

ContactInv ==
    /\ ContactTypes
    /\ NoBlindEdit
    /\ \A c \in Changes : RequestKept(c)
    /\ \A p, q \in People : p # q => NumberKept(p, q)
    /\ \A p \in People : CodeKept(p)

LEMMA ContactInvInit == ContactInit => ContactInv
<1> SUFFICES ASSUME ContactInit PROVE ContactInv
  OBVIOUS
<1> DEFINE x == CHOOSE y \in Phones : TRUE
           w == [p \in People |-> [number |-> Own[p], phone |-> x, voted |-> FALSE]]
<1>1. x \in Phones
  BY ContactAssumption
<1>2. /\ voter = w /\ change = [c \in Changes |-> [status |-> "unused"]] /\ trail = {}
      /\ code = [n \in RegNos |-> NoPhone] /\ clerk = [k \in Clerks |-> Off]
      /\ lostBy = "nobody" /\ restored = {} /\ rewritten = {}
  BY DEF ContactInit
<1> HIDE DEF x
<1>3. \A p \in People : voter[p].number = Own[p] /\ Own[p] \in RegNos
  BY <1>2, ContactAssumption
<1>4. voter \in [People -> Doc]
  BY <1>1, <1>2, ContactAssumption DEF Doc
<1> HIDE DEF w
<1>5. Off \in ClerkRecord /\ Off.at = "off" /\ \A c \in Changes : ~HasClaim(Off, c)
  BY DEF ClerkRecord, Off, HasClaim, Afterwards
<1>6. ContactTypes
  BY <1>2, <1>4, <1>5 DEF ContactTypes
<1>7. ASSUME NEW c \in Changes PROVE RequestKept(c)
  BY <1>2, <1>5, <1>7 DEF RequestKept, Decided
<1>8. ASSUME NEW p \in People, NEW q \in People, p # q PROVE NumberKept(p, q)
  BY <1>3, <1>8, ContactAssumption DEF NumberKept
<1>9. ASSUME NEW p \in People PROVE CodeKept(p)
  BY <1>2, <1>3 DEF CodeKept
<1> QED
  BY <1>2, <1>6, <1>7, <1>8, <1>9 DEF ContactInv, NoBlindEdit

(* A handler's record, by where it stands.                                     *)
LEMMA ClerkShapes ==
    ASSUME NEW r \in ClerkRecord
    PROVE  /\ r.at = "off" => r = Off
           /\ r.at = "request" => r \in Begun
           /\ r.at \in {"claim", "fetch"} => r \in Asked
           /\ r.at \in Afterwards => r \in Deciding \/ r \in Editing
           /\ r.at = "undo" => r \in Undoing
           /\ r.at = "send" => r \in Sending
<1>1. Off.at = "off"
  BY DEF Off
<1>2. CASE r = Off
  BY <1>1, <1>2 DEF Afterwards
<1>3. CASE r \in Begun
  BY <1>3 DEF Afterwards, Begun
<1>4. CASE r \in Asked
  BY <1>4 DEF Afterwards, Asked
<1>5. CASE r \in Deciding
  BY <1>5 DEF Afterwards, Deciding
<1>6. CASE r \in Editing
  BY <1>6 DEF Afterwards, Editing
<1>7. CASE r \in Undoing
  BY <1>7 DEF Afterwards, Undoing
<1>8. CASE r \in Sending
  BY <1>8 DEF Afterwards, Sending
<1> QED
  BY <1>2, <1>3, <1>4, <1>5, <1>6, <1>7, <1>8 DEF ClerkRecord

(* Who has claimed a request is reading it or deciding it.                     *)
LEMMA ClaimShapes ==
    ASSUME NEW r \in ClerkRecord, NEW c \in Changes
    PROVE  /\ HasClaim(r, c) <=> /\ r.at = "fetch" \/ (r.at \in Afterwards /\ r \in Deciding)
                                 /\ r.change = c
           /\ r \in Editing => ~HasClaim(r, c)
<1>1. r \in Asked => DOMAIN r = {"at", "change"}
  BY DEF Asked
<1>2. r \in Deciding => DOMAIN r = {"at", "op", "change", "who", "edit", "seen"} /\ r.op = "decide"
  BY DEF Deciding
<1>3. r \in Editing => DOMAIN r = {"at", "op", "who", "edit", "seen"} /\ r.op = "edit"
  BY DEF Editing
<1>4. r \in Editing => "change" \notin DOMAIN r
  BY <1>3
<1> QED
  BY <1>1, <1>2, <1>3, <1>4, ClerkShapes DEF HasClaim, Afterwards

LEMMA ContactMoves ==
    ASSUME ContactTypes, NEW k \in Clerks, NEW d, clerk' = [clerk EXCEPT ![k] = d]
    PROVE  \A j \in Clerks : clerk'[j] = IF j = k THEN d ELSE clerk[j]
BY DEF ContactTypes

LEMMA RequestsStay ==
    ASSUME ContactInv, NEW k \in Clerks, NEW d \in ClerkRecord, clerk' = [clerk EXCEPT ![k] = d],
           UNCHANGED change,
           \A c \in Changes : HasClaim(d, c) <=> HasClaim(clerk[k], c),
           d.at = "reset" <=> clerk[k].at = "reset"
    PROVE  \A c \in Changes : RequestKept(c)'
<1>1. \A j \in Clerks : clerk'[j] = IF j = k THEN d ELSE clerk[j]
  BY ContactMoves DEF ContactInv
<1> QED
  BY <1>1 DEF ContactInv, RequestKept

LEMMA NumbersStay ==
    ASSUME ContactInv, NEW k \in Clerks, NEW d \in ClerkRecord, clerk' = [clerk EXCEPT ![k] = d],
           UNCHANGED voter, restored \subseteq restored',
           clerk[k].at \in {"recheck", "rollback"} =>
               d.at \in {"recheck", "rollback"} /\ d.who = clerk[k].who /\ d.edit = clerk[k].edit
    PROVE  \A p, q \in People : p # q => NumberKept(p, q)'
<1>1. \A j \in Clerks : clerk'[j] = IF j = k THEN d ELSE clerk[j]
  BY ContactMoves DEF ContactInv
<1>2. ASSUME NEW p \in People, NEW q \in People, NEW j \in Clerks, Settles(clerk[j], p, q)
      PROVE  Settles(clerk[j], p, q)'
  BY <1>1, <1>2 DEF Settles
<1> QED
  BY <1>2 DEF ContactInv, NumberKept

LEMMA CodesStay ==
    ASSUME ContactInv, NEW k \in Clerks, NEW d \in ClerkRecord, clerk' = [clerk EXCEPT ![k] = d],
           UNCHANGED <<voter, code>>, rewritten \subseteq rewritten',
           clerk[k].at \in Afterwards \ {"write"} =>
               d.at \in Afterwards \ {"write"} /\ d.edit = clerk[k].edit /\ d.seen = clerk[k].seen
    PROVE  \A p \in People : CodeKept(p)'
<1>1. \A j \in Clerks : clerk'[j] = IF j = k THEN d ELSE clerk[j]
  BY ContactMoves DEF ContactInv
<1>2. ASSUME NEW n, NEW j \in Clerks, Forgets(clerk[j], n)
      PROVE  Forgets(clerk'[j], n)
  BY <1>1, <1>2 DEF Forgets
<1> QED
  BY <1>2 DEF ContactInv, CodeKept

(* The steps that write neither the voters nor the requests.                   *)
LEMMA ReadingSteps ==
    ASSUME ContactInv, NEW k \in Clerks, NEW d \in ClerkRecord, clerk' = [clerk EXCEPT ![k] = d],
           UNCHANGED <<voter, change, trail, code, lostBy, restored, rewritten>>,
           d.at \in {"recheck", "rollback"} => d.edit.field = "number",
           \A c \in Changes : HasClaim(d, c) <=> HasClaim(clerk[k], c),
           d.at = "reset" <=> clerk[k].at = "reset",
           clerk[k].at \in {"recheck", "rollback"} =>
               d.at \in {"recheck", "rollback"} /\ d.who = clerk[k].who /\ d.edit = clerk[k].edit,
           clerk[k].at \in Afterwards \ {"write"} =>
               d.at \in Afterwards \ {"write"} /\ d.edit = clerk[k].edit /\ d.seen = clerk[k].seen
    PROVE  ContactInv'
<1>1. ContactTypes'
  BY ContactMoves DEF ContactInv, ContactTypes
<1>2. \A c \in Changes : RequestKept(c)'
  BY RequestsStay
<1>3. \A p, q \in People : p # q => NumberKept(p, q)'
  BY NumbersStay
<1>4. \A p \in People : CodeKept(p)'
  BY CodesStay
<1> QED
  BY <1>1, <1>2, <1>3, <1>4 DEF ContactInv, NoBlindEdit

LEMMA EditShapes ==
    ASSUME ContactInv, NEW p \in People, NEW field \in Fields, NEW new \in Value(field)
    PROVE  [field |-> field, old |-> voter[p][field], new |-> new] \in FitEdits
<1>1. voter[p] \in Doc
  BY DEF ContactInv, ContactTypes
<1>2. CASE field = "phone"
  BY <1>1, <1>2 DEF FitEdits, Doc, Value
<1>3. CASE field = "number"
  BY <1>1, <1>3 DEF FitEdits, Doc, Value
<1> QED
  BY <1>2, <1>3 DEF Fields

LEMMA RequestReadStep ==
    ASSUME ContactInv, NEW k \in Clerks, RequestRead(k)
    PROVE  ContactInv'
<1>1. PICK p \in People, field \in Fields : \E new \in Value(field) :
         Enter(k, [at |-> "request", who |-> p,
                   edit |-> [field |-> field, old |-> voter[p][field], new |-> new]])
  BY DEF RequestRead
<1>2. PICK new \in Value(field) :
         Enter(k, [at |-> "request", who |-> p,
                   edit |-> [field |-> field, old |-> voter[p][field], new |-> new]])
  BY <1>1
<1> DEFINE e == [field |-> field, old |-> voter[p][field], new |-> new]
           d == [at |-> "request", who |-> p, edit |-> e]
<1>3. e \in FitEdits
  BY EditShapes
<1> HIDE DEF e
<1>4. d \in Begun /\ d.at = "request"
  BY <1>3 DEF Begun
<1>5. clerk' = [clerk EXCEPT ![k] = d]
  BY <1>2 DEF Enter, e
<1>6. clerk[k].at = "off"
  BY DEF RequestRead, Off
<1> HIDE DEF d
<1>7. d \in ClerkRecord /\ \A c \in Changes : ~HasClaim(d, c) /\ ~HasClaim(clerk[k], c)
  BY <1>4, <1>6 DEF ClerkRecord, HasClaim, Afterwards
<1> QED
  BY <1>4, <1>5, <1>6, <1>7, ReadingSteps DEF RequestRead, Afterwards

LEMMA DecideReadStep ==
    ASSUME ContactInv, NEW k \in Clerks, NEW c \in Changes, DecideRead(k, c)
    PROVE  ContactInv'
<1> DEFINE d == [at |-> "claim", change |-> c]
<1>1. d \in Asked /\ d.at = "claim" /\ clerk' = [clerk EXCEPT ![k] = d] /\ clerk[k].at = "off"
  BY DEF DecideRead, Off, Enter, Asked
<1> HIDE DEF d
<1>2. d \in ClerkRecord /\ \A x \in Changes : ~HasClaim(d, x) /\ ~HasClaim(clerk[k], x)
  BY <1>1 DEF ClerkRecord, HasClaim, Afterwards
<1> QED
  BY <1>1, <1>2, ReadingSteps DEF DecideRead, Afterwards

LEMMA EditReadStep ==
    ASSUME ContactInv, NEW k \in Clerks, EditRead(k)
    PROVE  ContactInv'
<1>1. PICK p \in People, field \in Fields : \E new \in Value(field) :
         Enter(k, [at |-> "write", op |-> "edit", who |-> p,
                   edit |-> [field |-> field, old |-> voter[p][field], new |-> new], seen |-> voter[p]])
  BY DEF EditRead
<1>2. PICK new \in Value(field) :
         Enter(k, [at |-> "write", op |-> "edit", who |-> p,
                   edit |-> [field |-> field, old |-> voter[p][field], new |-> new], seen |-> voter[p]])
  BY <1>1
<1> DEFINE e == [field |-> field, old |-> voter[p][field], new |-> new]
           d == [at |-> "write", op |-> "edit", who |-> p, edit |-> e, seen |-> voter[p]]
<1>3. e \in FitEdits /\ voter[p] \in Doc
  BY EditShapes DEF ContactInv, ContactTypes
<1> HIDE DEF e
<1>4. d \in Editing /\ d.at = "write"
  BY <1>3 DEF Editing, Afterwards
<1>5. clerk' = [clerk EXCEPT ![k] = d]
  BY <1>2 DEF Enter, e
<1>6. clerk[k].at = "off"
  BY DEF EditRead, Off
<1> HIDE DEF d
<1>7. d \in ClerkRecord
  BY <1>4 DEF ClerkRecord
<1>8. \A c \in Changes : ~HasClaim(d, c) /\ ~HasClaim(clerk[k], c)
  BY <1>4, <1>6, <1>7, ClaimShapes DEF HasClaim, Afterwards
<1> QED
  BY <1>4, <1>5, <1>6, <1>7, <1>8, ReadingSteps DEF EditRead, Afterwards

LEMMA UndoReadStep ==
    ASSUME ContactInv, NEW k \in Clerks, UndoRead(k)
    PROVE  ContactInv'
<1>1. PICK t \in trail : Enter(k, [at |-> "undo", who |-> t.who, edit |-> t.edit, seen |-> voter[t.who]])
  BY DEF UndoRead
<1> DEFINE d == [at |-> "undo", who |-> t.who, edit |-> t.edit, seen |-> voter[t.who]]
<1>2. t.who \in People /\ t.edit \in FitEdits
  BY DEF ContactInv, ContactTypes
<1>3. voter[t.who] \in Doc
  BY <1>2 DEF ContactInv, ContactTypes
<1>4. d \in Undoing /\ d.at = "undo"
  BY <1>2, <1>3 DEF Undoing
<1>7. clerk[k].at = "off"
  BY DEF UndoRead, Off
<1>8. clerk' = [clerk EXCEPT ![k] = d]
  BY <1>1 DEF Enter
<1>5. clerk' = [clerk EXCEPT ![k] = d] /\ clerk[k].at = "off"
  BY <1>7, <1>8
<1> HIDE DEF d
<1>6. d \in ClerkRecord /\ \A c \in Changes : ~HasClaim(d, c) /\ ~HasClaim(clerk[k], c)
  BY <1>4, <1>5 DEF ClerkRecord, HasClaim, Afterwards
<1> QED
  BY <1>4, <1>5, <1>6, ReadingSteps DEF UndoRead, Afterwards

LEMMA SendReadStep ==
    ASSUME ContactInv, NEW k \in Clerks, SendRead(k)
    PROVE  ContactInv'
<1>1. PICK p \in People : Enter(k, [at |-> "send", number |-> voter[p].number, phone |-> voter[p].phone])
  BY DEF SendRead
<1> DEFINE d == [at |-> "send", number |-> voter[p].number, phone |-> voter[p].phone]
<1>2. voter[p] \in Doc
  BY DEF ContactInv, ContactTypes
<1>3. d \in Sending /\ d.at = "send"
  BY <1>2 DEF Sending, Doc
<1>6. clerk[k].at = "off"
  BY DEF SendRead, Off
<1>7. clerk' = [clerk EXCEPT ![k] = d]
  BY <1>1 DEF Enter
<1>4. clerk' = [clerk EXCEPT ![k] = d] /\ clerk[k].at = "off"
  BY <1>6, <1>7
<1> HIDE DEF d
<1>5. d \in ClerkRecord /\ \A c \in Changes : ~HasClaim(d, c) /\ ~HasClaim(clerk[k], c)
  BY <1>3, <1>4 DEF ClerkRecord, HasClaim, Afterwards
<1> QED
  BY <1>3, <1>4, <1>5, ReadingSteps DEF SendRead, Afterwards

(* Where a handler moves within its edit, its record keeps its shape.          *)
LEMMA StageMoves ==
    ASSUME ContactInv, NEW k \in Clerks, clerk[k].at \in Afterwards, NEW at \in Afterwards, Step(k, at)
    PROVE  \E d \in ClerkRecord :
              /\ clerk' = [clerk EXCEPT ![k] = d]
              /\ d.at = at /\ d.who = clerk[k].who /\ d.edit = clerk[k].edit /\ d.seen = clerk[k].seen
              /\ d \in Deciding <=> clerk[k] \in Deciding
              /\ d \in Editing <=> clerk[k] \in Editing
              /\ clerk[k] \in Deciding => d.change = clerk[k].change
              /\ \A c \in Changes : HasClaim(d, c) <=> HasClaim(clerk[k], c)
<1> DEFINE r == clerk[k]
           d == [r EXCEPT !.at = at]
<1>1. r \in ClerkRecord /\ clerk' = [clerk EXCEPT ![k] = d]
  BY DEF ContactInv, ContactTypes, Step
<1> HIDE DEF r
<1>2. r.at \in Afterwards
  BY DEF r
<1>3. r \in Deciding \/ r \in Editing
  BY <1>1, <1>2, ClerkShapes
<1>4. CASE r \in Deciding
  <2>1. d \in Deciding /\ d.at = at /\ d.who = r.who /\ d.edit = r.edit /\ d.seen = r.seen /\ d.change = r.change
        /\ d.op = "decide" /\ r.op = "decide"
    BY <1>4 DEF Deciding
  <2>2. r \notin Editing /\ d \notin Editing
    BY <2>1 DEF Editing
  <2> HIDE DEF d
  <2>3. d \in ClerkRecord
    BY <2>1 DEF ClerkRecord
  <2>4. \A c \in Changes : HasClaim(d, c) <=> HasClaim(r, c)
    BY <1>1, <1>2, <1>4, <2>1, <2>3, ClaimShapes
  <2> QED
    BY <1>1, <1>4, <2>1, <2>2, <2>3, <2>4 DEF r
<1>5. CASE r \in Editing
  <2>1. d \in Editing /\ d.at = at /\ d.who = r.who /\ d.edit = r.edit /\ d.seen = r.seen
        /\ d.op = "edit" /\ r.op = "edit"
    BY <1>5 DEF Editing
  <2>2. r \notin Deciding /\ d \notin Deciding
    BY <2>1 DEF Deciding
  <2> HIDE DEF d
  <2>3. d \in ClerkRecord
    BY <2>1 DEF ClerkRecord
  <2>4. \A c \in Changes : HasClaim(d, c) <=> HasClaim(r, c)
    BY <1>1, <1>2, <1>5, <2>1, <2>3, ClaimShapes
  <2> QED
    BY <1>1, <1>5, <2>1, <2>2, <2>3, <2>4 DEF r
<1> QED
  BY <1>3, <1>4, <1>5

(* A handler that has ended holds nothing.                                     *)
LEMMA NothingHeld ==
    /\ Off \in ClerkRecord /\ Off.at = "off"
    /\ \A c \in Changes : ~HasClaim(Off, c)
BY DEF ClerkRecord, Off, HasClaim, Afterwards

LEMMA RequestInsertStep ==
    ASSUME ContactInv, NEW k \in Clerks, RequestInsert(k)
    PROVE  ContactInv'
<1>1. clerk[k].at = "request" /\ clerk' = [clerk EXCEPT ![k] = Off]
      /\ UNCHANGED <<voter, filed, trail, code, direct, lostBy, restored, rewritten>>
  BY DEF RequestInsert, Finished
<1>2. clerk[k] \in Begun /\ \A c \in Changes : ~HasClaim(clerk[k], c)
  BY <1>1, ClerkShapes DEF ContactInv, ContactTypes, HasClaim, Afterwards
<1>3. CASE UNCHANGED change
  BY <1>1, <1>2, <1>3, NothingHeld, ReadingSteps DEF Afterwards
<1>4. CASE \E c \in Changes :
              /\ change[c].status = "unused"
              /\ change' = [change EXCEPT ![c] = [status |-> "pending", who |-> clerk[k].who,
                                                  edit |-> clerk[k].edit, applied |-> 0]]
  <2> DEFINE n == [status |-> "pending", who |-> clerk[k].who, edit |-> clerk[k].edit, applied |-> 0]
  <2>1. PICK c \in Changes : change[c].status = "unused" /\ change' = [change EXCEPT ![c] = n]
    BY <1>4
  <2>2. n \in [status : Decided \cup {"pending"}, who : People, edit : FitEdits, applied : 0 .. 2]
    BY <1>2 DEF Begun
  <2>3. n.status = "pending" /\ n.applied = 0
    OBVIOUS
  <2> HIDE DEF n
  <2>4. \A j \in Clerks : clerk'[j] = IF j = k THEN Off ELSE clerk[j]
    BY <1>1, ContactMoves DEF ContactInv
  <2>5. \A x \in Changes : change'[x] = IF x = c THEN n ELSE change[x]
    BY <2>1 DEF ContactInv, ContactTypes
  <2>6. ContactTypes'
    BY <1>1, <2>1, <2>2, <2>4, NothingHeld DEF ContactInv, ContactTypes
  <2>7. ASSUME NEW x \in Changes PROVE RequestKept(x)'
    <3>1. RequestKept(x)
      BY DEF ContactInv
    <3>2. CASE x = c
      BY <1>2, <2>1, <2>3, <2>4, <2>5, <3>1, <3>2, NothingHeld DEF RequestKept, Decided
    <3>3. CASE x # c
      BY <1>2, <2>4, <2>5, <3>1, <3>3, NothingHeld DEF RequestKept
    <3> QED
      BY <3>2, <3>3
  <2>8. \A p, q \in People : p # q => NumberKept(p, q)'
    BY <1>1, NumbersStay, NothingHeld
  <2>9. \A p \in People : CodeKept(p)'
    BY <1>1, CodesStay, NothingHeld DEF Afterwards
  <2> QED
    BY <1>1, <2>6, <2>7, <2>8, <2>9 DEF ContactInv, NoBlindEdit
<1> QED
  BY <1>3, <1>4 DEF RequestInsert

(* A step that changes the status of one request, or counts its edit, and      *)
(* leaves the voters and what is settled with them alone.                      *)
LEMMA StatusChanges ==
    ASSUME ContactInv, NEW k \in Clerks, NEW d \in ClerkRecord, clerk' = [clerk EXCEPT ![k] = d],
           NEW c \in Changes, NEW n,
           n \in [status : Decided \cup {"pending"}, who : People, edit : FitEdits, applied : 0 .. 2],
           change' = [change EXCEPT ![c] = n],
           UNCHANGED <<voter, code, restored, rewritten>>,
           trail' \subseteq [who : People, edit : FitEdits], lostBy' # "edit",
           d.at \in {"recheck", "rollback"} => d.edit.field = "number",
           \A x \in Changes : x # c => (HasClaim(d, x) <=> HasClaim(clerk[k], x)),
           \A x \in Changes : x # c => ~HasClaim(clerk[k], x),
           \A j \in Clerks : j # k => ~HasClaim(clerk[j], c),
           n.status = "pending" => n.applied = 0,
           HasClaim(d, c) => n.status = "approved" /\ n.applied = (IF d.at = "reset" THEN 1 ELSE 0),
           ~HasClaim(d, c) /\ n.status \in Decided => n.applied = (IF n.status = "approved" THEN 1 ELSE 0),
           clerk[k].at \in {"recheck", "rollback"} =>
               d.at \in {"recheck", "rollback"} /\ d.who = clerk[k].who /\ d.edit = clerk[k].edit,
           clerk[k].at \in Afterwards \ {"write"} =>
               d.at \in Afterwards \ {"write"} /\ d.edit = clerk[k].edit /\ d.seen = clerk[k].seen
    PROVE  ContactInv'
<1>0. ContactTypes
  BY DEF ContactInv
<1>1. \A j \in Clerks : clerk'[j] = IF j = k THEN d ELSE clerk[j]
  BY <1>0 DEF ContactTypes
<1>2. \A x \in Changes : change'[x] = IF x = c THEN n ELSE change[x]
  BY DEF ContactInv, ContactTypes
<1>3. ContactTypes'
  BY <1>1 DEF ContactInv, ContactTypes
<1>4. ASSUME NEW x \in Changes PROVE RequestKept(x)'
  <2>1. RequestKept(x)
    BY DEF ContactInv
  <2>2. CASE x = c
    BY <1>1, <1>2, <2>1, <2>2 DEF RequestKept
  <2>3. CASE x # c
    BY <1>1, <1>2, <2>1, <2>3 DEF RequestKept
  <2> QED
    BY <2>2, <2>3
<1>5. \A p, q \in People : p # q => NumberKept(p, q)'
  BY NumbersStay
<1>6. \A p \in People : CodeKept(p)'
  BY CodesStay
<1> QED
  BY <1>3, <1>4, <1>5, <1>6 DEF ContactInv, NoBlindEdit

(* A document whose status is rewritten.                                       *)
LEMMA Rewritten ==
    ASSUME ContactInv, NEW c \in Changes, change[c].status # "unused", NEW s \in Decided
    PROVE  /\ [change EXCEPT ![c].status = s] = [change EXCEPT ![c] = [change[c] EXCEPT !.status = s]]
           /\ [change[c] EXCEPT !.status = s] \in
                 [status : Decided \cup {"pending"}, who : People, edit : FitEdits, applied : 0 .. 2]
           /\ [change[c] EXCEPT !.status = s].status = s
           /\ [change[c] EXCEPT !.status = s].applied = change[c].applied
           /\ change[c].edit \in FitEdits /\ change[c].who \in People
<1>1. change[c] \in [status : Decided \cup {"pending"}, who : People, edit : FitEdits, applied : 0 .. 2]
  BY DEF ContactInv, ContactTypes
<1> QED
  BY <1>1

LEMMA WithdrawStep ==
    ASSUME ContactInv, NEW c \in Changes, Withdraw(c)
    PROVE  ContactInv'
<1>1. PICK s \in {"cancelled", "expired"} : change' = [change EXCEPT ![c].status = s]
  BY DEF Withdraw
<1> DEFINE n == [change[c] EXCEPT !.status = s]
<1>2. /\ change' = [change EXCEPT ![c] = n]
      /\ n \in [status : Decided \cup {"pending"}, who : People, edit : FitEdits, applied : 0 .. 2]
      /\ n.status = s /\ n.applied = change[c].applied
  BY <1>1, Rewritten DEF Withdraw, Decided
<1> HIDE DEF n
<1>3. /\ \A x \in Changes : change'[x] = IF x = c THEN n ELSE change[x]
      /\ UNCHANGED <<voter, filed, trail, code, clerk, direct, lostBy, restored, rewritten>>
  BY <1>2 DEF ContactInv, ContactTypes, Withdraw
<1>4. ContactTypes'
  BY <1>2, <1>3 DEF ContactInv, ContactTypes
<1>5. ASSUME NEW x \in Changes PROVE RequestKept(x)'
  <2>1. RequestKept(x) /\ RequestKept(c) /\ change[c].status = "pending"
    BY DEF ContactInv, Withdraw
  <2>2. \A k \in Clerks : ~HasClaim(clerk[k], c)
    BY <2>1 DEF RequestKept
  <2>3. CASE x = c
    BY <1>2, <1>3, <2>1, <2>2, <2>3 DEF RequestKept, Decided
  <2>4. CASE x # c
    BY <1>3, <2>1, <2>4 DEF RequestKept
  <2> QED
    BY <2>3, <2>4
<1>6. \A p, q \in People : p # q => NumberKept(p, q)'
  BY <1>3 DEF ContactInv, NumberKept, Settles
<1>7. \A p \in People : CodeKept(p)'
  BY <1>3 DEF ContactInv, CodeKept, Forgets
<1> QED
  BY <1>3, <1>4, <1>5, <1>6, <1>7 DEF ContactInv, NoBlindEdit

LEMMA DecideClaimStep ==
    ASSUME ContactInv, NEW k \in Clerks, DecideClaim(k)
    PROVE  ContactInv'
<1> DEFINE c == clerk[k].change
           r == clerk[k]
<1>1. r \in Asked /\ r.at = "claim" /\ c \in Changes /\ r \in ClerkRecord
  BY ClerkShapes DEF ContactInv, ContactTypes, DecideClaim, Asked
<1>2. \A x \in Changes : ~HasClaim(r, x)
  BY <1>1 DEF HasClaim, Afterwards
<1>3. CASE ~Claimed(c)
  <2>1. clerk' = [clerk EXCEPT ![k] = Off] /\ UNCHANGED <<voter, change, trail, code, lostBy, restored, rewritten>>
    BY <1>3 DEF DecideClaim, Finished
  <2> QED
    BY <1>1, <1>2, <2>1, NothingHeld, ReadingSteps DEF Afterwards
<1>4. CASE Claimed(c)
  <2>1. change[c].status = "pending" /\ RequestKept(c)
    BY <1>1, <1>4 DEF Claimed, ContactInv
  <2>2. /\ \A j \in Clerks : ~HasClaim(clerk[j], c)
        /\ change[c].applied = 0
    BY <2>1 DEF RequestKept
  <2>3. UNCHANGED <<voter, trail, code, lostBy, restored, rewritten>> /\ trail' \subseteq [who : People, edit : FitEdits]
        /\ lostBy' # "edit"
    BY DEF DecideClaim, ContactInv, ContactTypes, NoBlindEdit
  <2>4. CASE change' = [change EXCEPT ![c].status = "approved"] /\ Step(k, "fetch")
    <3> DEFINE n == [change[c] EXCEPT !.status = "approved"]
               d == [r EXCEPT !.at = "fetch"]
    <3>1. /\ change' = [change EXCEPT ![c] = n]
          /\ n \in [status : Decided \cup {"pending"}, who : People, edit : FitEdits, applied : 0 .. 2]
          /\ n.status = "approved" /\ n.applied = 0
      BY <1>1, <2>1, <2>2, <2>4, Rewritten DEF Decided
    <3>2. d \in Asked /\ d.at = "fetch" /\ d.change = c /\ clerk' = [clerk EXCEPT ![k] = d]
      BY <1>1, <2>4 DEF Asked, Step
    <3> HIDE DEF n, d, r
    <3>3. d \in ClerkRecord
      BY <3>2 DEF ClerkRecord
    <3>4. \A x \in Changes : HasClaim(d, x) <=> x = c
      BY <3>2, <3>3, ClaimShapes
    <3> QED
      BY <1>1, <1>2, <2>2, <2>3, <3>1, <3>2, <3>3, <3>4, StatusChanges, Zenon DEF Afterwards, r
  <2>5. CASE change' = [change EXCEPT ![c].status = "denied"] /\ Finished(k)
    <3> DEFINE n == [change[c] EXCEPT !.status = "denied"]
    <3>1. /\ change' = [change EXCEPT ![c] = n]
          /\ n \in [status : Decided \cup {"pending"}, who : People, edit : FitEdits, applied : 0 .. 2]
          /\ n.status = "denied" /\ n.applied = 0
      BY <1>1, <2>1, <2>2, <2>5, Rewritten DEF Decided
    <3> HIDE DEF n
    <3>2. clerk' = [clerk EXCEPT ![k] = Off] /\ n.status # "pending" /\ n.status # "approved"
      BY <2>5, <3>1 DEF Finished
    <3>3. clerk[k].at \notin Afterwards /\ Off.at \notin {"recheck", "rollback"}
      BY <1>1, NothingHeld DEF Afterwards
    <3>4. clerk[k].at \notin {"recheck", "rollback"} /\ clerk[k].at \notin Afterwards \ {"write"}
      BY <3>3 DEF Afterwards
    <3> QED
      BY <1>1, <1>2, <2>2, <2>3, <3>1, <3>2, <3>3, <3>4, NothingHeld, StatusChanges
  <2> QED
    BY <1>4, <2>4, <2>5 DEF DecideClaim
<1> QED
  BY <1>3, <1>4

(* The one who holds the claim on a request, and what he has of it.            *)
LEMMA TheHolder ==
    ASSUME ContactInv, NEW k \in Clerks, NEW c \in Changes, HasClaim(clerk[k], c)
    PROVE  /\ change[c].status = "approved" /\ change[c].edit \in FitEdits /\ change[c].who \in People
           /\ change[c].applied = IF clerk[k].at = "reset" THEN 1 ELSE 0
           /\ \A j \in Clerks : j # k => ~HasClaim(clerk[j], c)
           /\ \A x \in Changes : x # c => ~HasClaim(clerk[k], x)
<1>1. RequestKept(c)
  BY DEF ContactInv
<1>2. change[c].status = "approved"
  BY <1>1 DEF RequestKept
<1>3. change[c].edit \in FitEdits /\ change[c].who \in People
  BY <1>2, Rewritten DEF Decided
<1> QED
  BY <1>1, <1>2, <1>3 DEF RequestKept, HasClaim

(* A claimed request whose edit is refused before anything was written.        *)
LEMMA RefusedBefore ==
    ASSUME ContactInv, NEW k \in Clerks, clerk[k].at \in {"fetch", "write"}, NEW c \in Changes,
           HasClaim(clerk[k], c), change' = Failed(c), Finished(k),
           UNCHANGED <<voter, trail, code, lostBy, restored, rewritten>>
    PROVE  ContactInv'
<1> DEFINE n == [change[c] EXCEPT !.status = "failed"]
<1>4. change[c].status = "approved" /\ change[c].applied = 0 /\ "failed" \in Decided
  BY TheHolder DEF Decided
<1>1. /\ change' = [change EXCEPT ![c] = n]
      /\ n \in [status : Decided \cup {"pending"}, who : People, edit : FitEdits, applied : 0 .. 2]
      /\ n.status = "failed" /\ n.applied = 0
  BY <1>4, Rewritten DEF Failed
<1> HIDE DEF n
<1>2. clerk' = [clerk EXCEPT ![k] = Off] /\ n.status # "pending" /\ n.status # "approved"
  BY <1>1 DEF Finished
<1>5. clerk[k].at \notin {"recheck", "rollback"} /\ clerk[k].at \notin Afterwards \ {"write"}
      /\ Off.at \notin {"recheck", "rollback"}
  BY NothingHeld DEF Afterwards
<1>6. (\A j \in Clerks : j # k => ~HasClaim(clerk[j], c)) /\ (\A x \in Changes : x # c => ~HasClaim(clerk[k], x))
  BY TheHolder
<1>3. trail' \subseteq [who : People, edit : FitEdits] /\ lostBy' # "edit"
  BY DEF ContactInv, ContactTypes, NoBlindEdit
<1>7. UNCHANGED <<voter, code, restored, rewritten>>
  OBVIOUS
<1>8. n.status = "pending" => n.applied = 0
  BY <1>2
<1>9. (n.status = "approved" => FALSE) /\ n.applied = 0
  BY <1>1, <1>2
<1> DEFINE d == Off
<1>10. d \in ClerkRecord /\ ~HasClaim(d, c) /\ d.at \notin {"recheck", "rollback"}
       /\ \A x \in Changes : x # c => (HasClaim(d, x) <=> HasClaim(clerk[k], x))
  BY <1>5, <1>6, NothingHeld
<1>11. change' = [change EXCEPT ![c] = n] /\ clerk' = [clerk EXCEPT ![k] = d]
  BY <1>1, <1>2
<1>12. n \in [status : Decided \cup {"pending"}, who : People, edit : FitEdits, applied : 0 .. 2]
  BY <1>1
<1> HIDE DEF d
<1>13. /\ n.status = "pending" => n.applied = 0
       /\ HasClaim(d, c) => n.status = "approved" /\ n.applied = (IF d.at = "reset" THEN 1 ELSE 0)
       /\ ~HasClaim(d, c) /\ n.status \in Decided => n.applied = (IF n.status = "approved" THEN 1 ELSE 0)
       /\ d.at \in {"recheck", "rollback"} => d.edit.field = "number"
  BY <1>9, <1>8, <1>10
<1>14. /\ clerk[k].at \in {"recheck", "rollback"} =>
             d.at \in {"recheck", "rollback"} /\ d.who = clerk[k].who /\ d.edit = clerk[k].edit
       /\ clerk[k].at \in Afterwards \ {"write"} =>
             d.at \in Afterwards \ {"write"} /\ d.edit = clerk[k].edit /\ d.seen = clerk[k].seen
  BY <1>5
<1>15. HasClaim(d, c) => n.status = "approved" /\ n.applied = (IF d.at = "reset" THEN 1 ELSE 0)
  BY <1>13
<1>16. ~HasClaim(d, c) /\ n.status \in Decided => n.applied = (IF n.status = "approved" THEN 1 ELSE 0)
  BY <1>13
<1>17. clerk[k].at \in {"recheck", "rollback"} =>
             d.at \in {"recheck", "rollback"} /\ d.who = clerk[k].who /\ d.edit = clerk[k].edit
  BY <1>14
<1>18. clerk[k].at \in Afterwards \ {"write"} =>
             d.at \in Afterwards \ {"write"} /\ d.edit = clerk[k].edit /\ d.seen = clerk[k].seen
  BY <1>14
<1> QED
  BY <1>3, <1>6, <1>7, <1>8, <1>10, <1>11, <1>12, <1>15, <1>16, <1>17, <1>18, StatusChanges

LEMMA DecideFetchStep ==
    ASSUME ContactInv, NEW k \in Clerks, DecideFetch(k)
    PROVE  ContactInv'
<1> DEFINE c == clerk[k].change
           p == change[c].who
           r == clerk[k]
<1>1. r \in Asked /\ r.at = "fetch" /\ c \in Changes /\ r \in ClerkRecord
  BY ClerkShapes DEF ContactInv, ContactTypes, DecideFetch, Asked
<1>2. HasClaim(r, c)
  BY <1>1, ClaimShapes
<1>3. p \in People /\ change[c].edit \in FitEdits /\ (\A x \in Changes : HasClaim(r, x) <=> x = c)
  BY <1>1, <1>2, TheHolder
<1>4. voter[p] \in Doc
  BY <1>3 DEF ContactInv, ContactTypes
<1>5. UNCHANGED <<voter, trail, code, lostBy, restored, rewritten>>
  BY DEF DecideFetch
<1>6. CASE ~voter[p].voted /\ Valid(change[c].edit, p, voter[p])
  <2> DEFINE d == [at |-> "write", op |-> "decide", change |-> c, who |-> p,
                   edit |-> change[c].edit, seen |-> voter[p]]
  <2>1. d \in Deciding /\ d.at = "write" /\ d.change = c
    BY <1>1, <1>3, <1>4 DEF Deciding, Afterwards
  <2>2. clerk' = [clerk EXCEPT ![k] = d] /\ UNCHANGED change
    BY <1>6 DEF DecideFetch, Enter
  <2> HIDE DEF d
  <2>3. d \in ClerkRecord
    BY <2>1 DEF ClerkRecord
  <2>4. \A x \in Changes : HasClaim(d, x) <=> HasClaim(r, x)
    BY <1>3, <2>1, <2>3, ClaimShapes DEF Afterwards
  <2> QED
    BY <1>1, <1>5, <2>1, <2>2, <2>3, <2>4, ReadingSteps DEF Afterwards
<1>7. CASE ~(~voter[p].voted /\ Valid(change[c].edit, p, voter[p]))
  <2>1. change' = Failed(c) /\ Finished(k)
    BY <1>7 DEF DecideFetch
  <2> QED
    BY <1>1, <1>2, <1>5, <2>1, RefusedBefore
<1> QED
  BY <1>6, <1>7

(* What a handler has in its hands from its write on.                          *)
LEMMA WriterShapes ==
    ASSUME ContactInv, NEW k \in Clerks, clerk[k].at \in Afterwards
    PROVE  /\ clerk[k].who \in People /\ clerk[k].edit \in FitEdits /\ clerk[k].seen \in Doc
           /\ clerk[k].op = "decide" => clerk[k] \in Deciding /\ clerk[k].change \in Changes
                                        /\ HasClaim(clerk[k], clerk[k].change)
           /\ clerk[k].op # "decide" => clerk[k] \in Editing /\ \A c \in Changes : ~HasClaim(clerk[k], c)
<1>1. clerk[k] \in ClerkRecord
  BY DEF ContactInv, ContactTypes
<1>2. CASE clerk[k] \in Deciding
  <2>1. clerk[k].change \in Changes /\ clerk[k].who \in People /\ clerk[k].edit \in FitEdits /\ clerk[k].seen \in Doc
        /\ clerk[k].op = "decide"
    BY <1>2 DEF Deciding
  <2>2. HasClaim(clerk[k], clerk[k].change)
    BY <1>1, <1>2, <2>1, ClaimShapes
  <2> QED
    BY <1>2, <2>1, <2>2
<1>3. CASE clerk[k] \in Editing
  <2>1. clerk[k].who \in People /\ clerk[k].edit \in FitEdits /\ clerk[k].seen \in Doc /\ clerk[k].op = "edit"
    BY <1>3 DEF Editing
  <2> QED
    BY <1>1, <1>3, <2>1, ClaimShapes
<1> QED
  BY <1>1, <1>2, <1>3, ClerkShapes

(* The claim goes with the refusal, which is recorded.                         *)
LEMMA RequestsRefused ==
    ASSUME ContactInv, NEW k \in Clerks, clerk[k].at \in Afterwards \ {"reset"}, Refuse(k)
    PROVE  /\ clerk' = [clerk EXCEPT ![k] = Off]
           /\ change' \in [Changes -> [status : {"unused"}]
                  \cup [status : Decided \cup {"pending"}, who : People, edit : FitEdits, applied : 0 .. 2]]
           /\ \A c \in Changes : RequestKept(c)'
<1>1. clerk' = [clerk EXCEPT ![k] = Off]
  BY DEF Refuse, Finished
<1>2. \A j \in Clerks : clerk'[j] = IF j = k THEN Off ELSE clerk[j]
  BY <1>1, ContactMoves DEF ContactInv
<1>3. CASE clerk[k].op = "decide"
  <2> DEFINE c == clerk[k].change
             n == [change[c] EXCEPT !.status = "failed"]
  <2>1. c \in Changes /\ HasClaim(clerk[k], c) /\ change' = Failed(c)
    BY <1>3, WriterShapes DEF Refuse
  <2>2. /\ change[c].status = "approved" /\ change[c].applied = 0 /\ "failed" \in Decided
        /\ \A j \in Clerks : j # k => ~HasClaim(clerk[j], c)
        /\ \A x \in Changes : x # c => ~HasClaim(clerk[k], x)
    BY <2>1, TheHolder DEF Decided
  <2> HIDE DEF c
  <2>3. /\ change' = [change EXCEPT ![c] = n]
        /\ n \in [status : Decided \cup {"pending"}, who : People, edit : FitEdits, applied : 0 .. 2]
        /\ n.status = "failed" /\ n.applied = 0
    BY <2>1, <2>2, Rewritten DEF Failed
  <2> HIDE DEF n
  <2>4. \A x \in Changes : change'[x] = IF x = c THEN n ELSE change[x]
    BY <2>3 DEF ContactInv, ContactTypes
  <2>5. ASSUME NEW x \in Changes PROVE RequestKept(x)'
    <3>1. RequestKept(x)
      BY DEF ContactInv
    <3>2. CASE x = c
      BY <1>2, <2>1, <2>2, <2>3, <2>4, <3>2, NothingHeld DEF RequestKept
    <3>3. CASE x # c
      BY <1>2, <2>2, <2>4, <3>1, <3>3, NothingHeld DEF RequestKept
    <3> QED
      BY <3>2, <3>3
  <2>6. change' \in [Changes -> [status : {"unused"}]
            \cup [status : Decided \cup {"pending"}, who : People, edit : FitEdits, applied : 0 .. 2]]
    BY <2>1, <2>3 DEF ContactInv, ContactTypes
  <2> QED
    BY <1>1, <2>5, <2>6
<1>4. CASE clerk[k].op # "decide"
  <2>1. UNCHANGED change /\ \A c \in Changes : ~HasClaim(clerk[k], c)
    BY <1>4, WriterShapes DEF Refuse
  <2>2. \A x \in Changes : RequestKept(x)'
    BY <1>2, <2>1, NothingHeld DEF ContactInv, RequestKept
  <2> QED
    BY <1>1, <2>1, <2>2 DEF ContactInv, ContactTypes
<1> QED
  BY <1>3, <1>4

(* A correction of one document changes the one field it is about.             *)
LEMMA Corrected ==
    ASSUME ContactInv, NEW p \in People, NEW e \in FitEdits, NEW x, x \in {e.old, e.new},
           voter' = [voter EXCEPT ![p][e.field] = x]
    PROVE  /\ voter' \in [People -> Doc]
           /\ \A q \in People : q # p => voter'[q] = voter[q]
           /\ e.field \in {"phone", "number"}
           /\ e.field = "phone" => voter'[p].number = voter[p].number
           /\ e.field = "number" => voter'[p].number = x /\ voter'[p].phone = voter[p].phone /\ x \in RegNos
<1>1. voter[p] \in Doc /\ voter \in [People -> Doc]
  BY DEF ContactInv, ContactTypes
<1>2. CASE e \in [field : {"phone"}, old : Phones, new : Phones]
  <2>1. x \in Phones /\ e.field = "phone"
    BY <1>2
  <2>2. voter' = [voter EXCEPT ![p] = [voter[p] EXCEPT !.phone = x]]
    BY <2>1
  <2>3. [voter[p] EXCEPT !.phone = x] \in Doc /\ [voter[p] EXCEPT !.phone = x].number = voter[p].number
    BY <1>1, <2>1 DEF Doc
  <2> QED
    BY <1>1, <2>1, <2>2, <2>3
<1>3. CASE e \in [field : {"number"}, old : RegNos, new : RegNos]
  <2>1. x \in RegNos /\ e.field = "number"
    BY <1>3
  <2>2. voter' = [voter EXCEPT ![p] = [voter[p] EXCEPT !.number = x]]
    BY <2>1
  <2>3. /\ [voter[p] EXCEPT !.number = x] \in Doc
        /\ [voter[p] EXCEPT !.number = x].number = x
        /\ [voter[p] EXCEPT !.number = x].phone = voter[p].phone
    BY <1>1, <2>1 DEF Doc
  <2> QED
    BY <1>1, <2>1, <2>2, <2>3
<1> QED
  BY <1>2, <1>3 DEF FitEdits

LEMMA WriteStep ==
    ASSUME ContactInv, NEW k \in Clerks, Write(k)
    PROVE  ContactInv'
<1> DEFINE p == clerk[k].who
           e == clerk[k].edit
<1>1. clerk[k].at = "write" /\ clerk[k].at \in Afterwards
  BY DEF Write, Afterwards
<1>2. p \in People /\ e \in FitEdits /\ clerk[k].seen \in Doc /\ voter[p] \in Doc
  BY <1>1, WriterShapes DEF ContactInv, ContactTypes
<1>3. UNCHANGED <<filed, trail, code, direct, restored, rewritten>>
  BY DEF Write
<1>4. CASE UnchangedSince(p, clerk[k].seen)
  <2> DEFINE at == IF e.field = "number" THEN "recheck" ELSE "audit"
  <2>1. /\ voter' = [voter EXCEPT ![p][e.field] = e.new]
        /\ Step(k, at) /\ UNCHANGED change
        /\ Unseen(p, clerk[k].seen, "edit")
    BY <1>4 DEF Write
  <2>2. lostBy' # "edit"
    BY <1>4, <2>1 DEF Unseen, UnchangedSince, ContactInv, NoBlindEdit
  <2>3. /\ voter' \in [People -> Doc]
        /\ \A q \in People : q # p => voter'[q] = voter[q]
        /\ e.field \in {"phone", "number"}
        /\ e.field = "phone" => voter'[p].number = voter[p].number
        /\ e.field = "number" => voter'[p].number = e.new
    BY <1>2, <2>1, Corrected
  <2>4. at \in Afterwards \ {"reset", "write"} /\ (at \in {"recheck", "rollback"} => e.field = "number")
        /\ (e.field = "number" => at = "recheck")
    BY DEF Afterwards
  <2>5. PICK d \in ClerkRecord :
              /\ clerk' = [clerk EXCEPT ![k] = d]
              /\ d.at = at /\ d.who = p /\ d.edit = e /\ d.seen = clerk[k].seen
              /\ \A c \in Changes : HasClaim(d, c) <=> HasClaim(clerk[k], c)
    BY <1>1, <2>1, <2>4, StageMoves
  <2> HIDE DEF at
  <2>6. \A j \in Clerks : clerk'[j] = IF j = k THEN d ELSE clerk[j]
    BY <2>5, ContactMoves DEF ContactInv
  <2>7. ContactTypes'
    BY <1>3, <2>1, <2>3, <2>4, <2>5, <2>6 DEF ContactInv, ContactTypes
  <2>8. \A c \in Changes : RequestKept(c)'
    BY <1>1, <2>1, <2>4, <2>5, RequestsStay
  <2>9. ASSUME NEW x \in People, NEW y \in People, x # y PROVE NumberKept(x, y)'
    <3>1. NumberKept(x, y)
      BY <2>9 DEF ContactInv
    <3>2. CASE e.field = "number" /\ p \in {x, y}
      <4> SUFFICES ASSUME voter'[x].number = voter'[y].number PROVE \E j \in Clerks : Settles(clerk[j], x, y)'
        BY DEF NumberKept
      <4>1. voter'[x].number = e.new
        BY <2>3, <3>2
      <4>2. Settles(clerk[k], x, y)'
        BY <2>4, <2>5, <2>6, <3>2, <4>1 DEF Settles
      <4> QED
        BY <4>2
    <3>3. CASE ~(e.field = "number" /\ p \in {x, y})
      <4>1. voter'[x].number = voter[x].number /\ voter'[y].number = voter[y].number
        BY <2>3, <3>3
      <4>2. \A j \in Clerks : Settles(clerk[j], x, y) => Settles(clerk[j], x, y)'
        BY <1>1, <2>6, <4>1 DEF Settles
      <4> QED
        BY <1>3, <3>1, <4>1, <4>2 DEF NumberKept
    <3> QED
      BY <3>2, <3>3
  <2>10. ASSUME NEW x \in People PROVE CodeKept(x)'
    <3>1. CodeKept(x)
      BY DEF ContactInv
    <3>2. CASE x = p
      <4>1. voter'[p].number \in Forgotten(e, clerk[k].seen)
        BY <1>4, <2>3 DEF Forgotten, UnchangedSince
      <4>2. Forgets(clerk'[k], voter'[x].number)
        BY <2>4, <2>5, <2>6, <3>2, <4>1 DEF Forgets
      <4> QED
        BY <4>2 DEF CodeKept
    <3>3. CASE x # p
      <4>1. voter'[x] = voter[x]
        BY <2>3, <3>3
      <4>2. \A j \in Clerks : Forgets(clerk[j], voter[x].number) => Forgets(clerk'[j], voter[x].number)
        BY <1>1, <2>6 DEF Forgets
      <4> QED
        BY <1>3, <3>1, <4>1, <4>2 DEF CodeKept
    <3> QED
      BY <3>2, <3>3
  <2> QED
    BY <2>2, <2>7, <2>8, <2>9, <2>10 DEF ContactInv, NoBlindEdit
<1>5. CASE ~UnchangedSince(p, clerk[k].seen)
  <2>1. Refuse(k) /\ UNCHANGED <<voter, lostBy>>
    BY <1>5 DEF Write
  <2>2. /\ clerk' = [clerk EXCEPT ![k] = Off]
        /\ change' \in [Changes -> [status : {"unused"}]
               \cup [status : Decided \cup {"pending"}, who : People, edit : FitEdits, applied : 0 .. 2]]
        /\ \A c \in Changes : RequestKept(c)'
    BY <1>1, <2>1, RequestsRefused
  <2>3. \A x, y \in People : x # y => NumberKept(x, y)'
    BY <1>1, <1>3, <2>1, <2>2, NothingHeld, NumbersStay
  <2>4. \A x \in People : CodeKept(x)'
    BY <1>1, <1>3, <2>1, <2>2, NothingHeld, CodesStay
  <2>5. \A j \in Clerks : clerk'[j] = IF j = k THEN Off ELSE clerk[j]
    BY <2>2, ContactMoves DEF ContactInv
  <2>6. ContactTypes'
    BY <1>3, <2>1, <2>2, <2>5, NothingHeld DEF ContactInv, ContactTypes
  <2> QED
    BY <2>1, <2>2, <2>3, <2>4, <2>6 DEF ContactInv, NoBlindEdit
<1> QED
  BY <1>4, <1>5

LEMMA RecheckStep ==
    ASSUME ContactInv, NEW k \in Clerks, Recheck(k)
    PROVE  ContactInv'
<1> DEFINE p == clerk[k].who
           e == clerk[k].edit
<1>1. clerk[k].at = "recheck" /\ clerk[k].at \in Afterwards /\ e.field = "number"
  BY DEF Recheck, Afterwards, ContactInv, ContactTypes
<1>2. UNCHANGED <<voter, change, trail, code, lostBy, restored, rewritten>>
  BY DEF Recheck
<1>3. CASE Taken(p, e.new)
  <2>1. Step(k, "rollback") /\ "rollback" \in Afterwards
    BY <1>3 DEF Recheck, Afterwards
  <2>2. PICK d \in ClerkRecord :
              /\ clerk' = [clerk EXCEPT ![k] = d]
              /\ d.at = "rollback" /\ d.who = p /\ d.edit = e /\ d.seen = clerk[k].seen
              /\ \A c \in Changes : HasClaim(d, c) <=> HasClaim(clerk[k], c)
    BY <1>1, <2>1, StageMoves
  <2> QED
    BY <1>1, <1>2, <2>2, ReadingSteps DEF Afterwards
<1>4. CASE ~Taken(p, e.new)
  <2>1. Step(k, "follow") /\ "follow" \in Afterwards
    BY <1>4 DEF Recheck, Afterwards
  <2>2. PICK d \in ClerkRecord :
              /\ clerk' = [clerk EXCEPT ![k] = d]
              /\ d.at = "follow" /\ d.who = p /\ d.edit = e /\ d.seen = clerk[k].seen
              /\ \A c \in Changes : HasClaim(d, c) <=> HasClaim(clerk[k], c)
    BY <1>1, <2>1, StageMoves
  <2>3. \A j \in Clerks : clerk'[j] = IF j = k THEN d ELSE clerk[j]
    BY <2>2, ContactMoves, Zenon DEF ContactInv
  <2>4. ContactTypes'
    BY <1>2, <2>2, <2>3 DEF ContactInv, ContactTypes
  <2>5. \A c \in Changes : RequestKept(c)'
    BY <1>1, <1>2, <2>2, RequestsStay
  <2>6. \A x \in People : CodeKept(x)'
    BY <1>1, <1>2, <2>2, CodesStay DEF Afterwards
  <2>7. ASSUME NEW x \in People, NEW y \in People, x # y PROVE NumberKept(x, y)'
    <3>1. NumberKept(x, y)
      BY <2>7 DEF ContactInv
    <3>2. voter[x].number = voter[y].number => ~Settles(clerk[k], x, y)
      BY <1>4, <2>7 DEF Settles, Taken
    <3>3. \A j \in Clerks : j # k /\ Settles(clerk[j], x, y) => Settles(clerk[j], x, y)'
      BY <1>2, <2>3 DEF Settles
    <3> QED
      BY <1>2, <3>1, <3>2, <3>3 DEF NumberKept
  <2> QED
    BY <1>2, <2>4, <2>5, <2>6, <2>7 DEF ContactInv, NoBlindEdit
<1> QED
  BY <1>3, <1>4

LEMMA RollBackStep ==
    ASSUME ContactInv, NEW k \in Clerks, RollBack(k)
    PROVE  ContactInv'
<1> DEFINE p == clerk[k].who
           e == clerk[k].edit
           o == clerk[k].seen
<1>1. clerk[k].at = "rollback" /\ clerk[k].at \in Afterwards \ {"reset"} /\ e.field = "number"
  BY DEF RollBack, Afterwards, ContactInv, ContactTypes
<1>2. p \in People /\ e \in FitEdits /\ o \in Doc /\ voter[p] \in Doc
  BY <1>1, WriterShapes DEF ContactInv, ContactTypes
<1>3. /\ voter' = [voter EXCEPT ![p].number = o.number, ![p].phone = o.phone]
      /\ restored' = restored \cup {o.number}
      /\ rewritten' = rewritten \cup {o.number, e.new}
      /\ Refuse(k) /\ UNCHANGED <<filed, trail, code, direct>>
  BY DEF RollBack
<1>4. lostBy' # "edit"
  BY DEF RollBack, Unseen, ContactInv, NoBlindEdit
<1>5. /\ clerk' = [clerk EXCEPT ![k] = Off]
      /\ change' \in [Changes -> [status : {"unused"}]
             \cup [status : Decided \cup {"pending"}, who : People, edit : FitEdits, applied : 0 .. 2]]
      /\ \A c \in Changes : RequestKept(c)'
  BY <1>1, <1>3, RequestsRefused
<1>6. \A j \in Clerks : clerk'[j] = IF j = k THEN Off ELSE clerk[j]
  BY <1>5, ContactMoves DEF ContactInv
<1>7. /\ voter' \in [People -> Doc] /\ voter'[p].number = o.number
      /\ \A q \in People : q # p => voter'[q] = voter[q]
  <2> DEFINE v == [[voter[p] EXCEPT !.number = o.number] EXCEPT !.phone = o.phone]
  <2>1. v \in Doc /\ v.number = o.number
    BY <1>2 DEF Doc
  <2>2. voter' = [voter EXCEPT ![p] = v]
    BY <1>2, <1>3 DEF ContactInv, ContactTypes
  <2> HIDE DEF v
  <2> QED
    BY <1>2, <2>1, <2>2 DEF ContactInv, ContactTypes
<1>8. ContactTypes'
  BY <1>3, <1>5, <1>6, <1>7, NothingHeld DEF ContactInv, ContactTypes
<1>9. ASSUME NEW x \in People, NEW y \in People, x # y PROVE NumberKept(x, y)'
  <2>1. NumberKept(x, y)
    BY <1>9 DEF ContactInv
  <2>2. CASE p \in {x, y}
    BY <1>3, <1>7, <2>2 DEF NumberKept
  <2>3. CASE p \notin {x, y}
    <3>1. voter'[x].number = voter[x].number /\ voter'[y].number = voter[y].number /\ ~Settles(clerk[k], x, y)
      BY <1>7, <2>3 DEF Settles
    <3>2. \A j \in Clerks : j # k /\ Settles(clerk[j], x, y) => Settles(clerk[j], x, y)'
      BY <1>6, <3>1 DEF Settles
    <3> QED
      BY <1>3, <2>1, <3>1, <3>2 DEF NumberKept
  <2> QED
    BY <2>2, <2>3
<1>10. ASSUME NEW x \in People PROVE CodeKept(x)'
  <2>1. CodeKept(x)
    BY DEF ContactInv
  <2>2. CASE x = p
    BY <1>3, <1>7, <2>2 DEF CodeKept
  <2>3. CASE x # p
    <3>1. voter'[x] = voter[x]
      BY <1>7, <2>3
    <3>2. Forgets(clerk[k], voter[x].number) => voter[x].number \in rewritten'
      BY <1>3 DEF Forgets, Forgotten
    <3>3. \A j \in Clerks : j # k /\ Forgets(clerk[j], voter[x].number) => Forgets(clerk'[j], voter[x].number)
      BY <1>6 DEF Forgets
    <3>4. code' = code /\ rewritten \subseteq rewritten'
      BY <1>3
    <3>5. CASE voter[x].number \in rewritten
      BY <3>1, <3>4, <3>5 DEF CodeKept
    <3>6. CASE code[voter[x].number] \in {NoPhone, voter[x].phone}
      BY <3>1, <3>4, <3>6 DEF CodeKept
    <3>7. ASSUME NEW j \in Clerks, Forgets(clerk[j], voter[x].number) PROVE CodeKept(x)'
      <4>1. CASE j = k
        BY <3>1, <3>2, <3>7, <4>1 DEF CodeKept
      <4>2. CASE j # k
        <5>1. Forgets(clerk'[j], voter'[x].number)
          BY <3>1, <3>3, <3>7, <4>2
        <5>2. Forgets(clerk[j], voter[x].number)'
          BY <5>1 DEF Forgets, Forgotten
        <5> QED
          BY <5>2 DEF CodeKept
      <4> QED
        BY <4>1, <4>2
    <3> QED
      BY <2>1, <3>5, <3>6, <3>7 DEF CodeKept
  <2> QED
    BY <2>2, <2>3
<1> QED
  BY <1>4, <1>5, <1>8, <1>9, <1>10 DEF ContactInv, NoBlindEdit

LEMMA FollowStep ==
    ASSUME ContactInv, NEW k \in Clerks, Follow(k)
    PROVE  ContactInv'
<1>1. clerk[k].at = "follow" /\ clerk[k].at \in Afterwards /\ "audit" \in Afterwards
  BY DEF Follow, Afterwards
<1>2. Step(k, "audit") /\ UNCHANGED <<voter, change, trail, code, lostBy, restored, rewritten>>
  BY DEF Follow
<1>3. PICK d \in ClerkRecord :
            /\ clerk' = [clerk EXCEPT ![k] = d]
            /\ d.at = "audit" /\ d.who = clerk[k].who /\ d.edit = clerk[k].edit /\ d.seen = clerk[k].seen
            /\ \A c \in Changes : HasClaim(d, c) <=> HasClaim(clerk[k], c)
  BY <1>1, <1>2, StageMoves
<1> QED
  BY <1>1, <1>2, <1>3, ReadingSteps DEF Afterwards

LEMMA AuditStep ==
    ASSUME ContactInv, NEW k \in Clerks, Audit(k)
    PROVE  ContactInv'
<1>1. clerk[k].at = "audit" /\ clerk[k].at \in Afterwards /\ "reset" \in Afterwards
  BY DEF Audit, Afterwards
<1>2. /\ Step(k, "reset") /\ UNCHANGED <<voter, code, lostBy, restored, rewritten>>
      /\ trail' = trail \cup {[who |-> clerk[k].who, edit |-> clerk[k].edit]}
  BY DEF Audit
<1>3. trail' \subseteq [who : People, edit : FitEdits] /\ lostBy' # "edit"
  BY <1>1, <1>2, WriterShapes DEF ContactInv, ContactTypes, NoBlindEdit
<1>4. PICK d \in ClerkRecord :
            /\ clerk' = [clerk EXCEPT ![k] = d]
            /\ d.at = "reset" /\ d.who = clerk[k].who /\ d.edit = clerk[k].edit /\ d.seen = clerk[k].seen
            /\ \A c \in Changes : HasClaim(d, c) <=> HasClaim(clerk[k], c)
  BY <1>1, <1>2, StageMoves
<1>5. CASE clerk[k].op = "decide"
  <2> DEFINE c == clerk[k].change
             n == [change[c] EXCEPT !.applied = 1]
  <2>1. c \in Changes /\ HasClaim(clerk[k], c) /\ change' = [change EXCEPT ![c].applied = IF @ < 2 THEN @ + 1 ELSE @]
    BY <1>1, <1>5, WriterShapes DEF Audit
  <2> HIDE DEF c
  <2>2. /\ change[c].status = "approved" /\ change[c].applied = 0
        /\ \A j \in Clerks : j # k => ~HasClaim(clerk[j], c)
        /\ \A x \in Changes : x # c => ~HasClaim(clerk[k], x)
    BY <1>1, <2>1, TheHolder
  <2>3. change[c] \in [status : Decided \cup {"pending"}, who : People, edit : FitEdits, applied : 0 .. 2]
    BY <2>1, <2>2 DEF ContactInv, ContactTypes
  <2>4. /\ change' = [change EXCEPT ![c] = n]
        /\ n \in [status : Decided \cup {"pending"}, who : People, edit : FitEdits, applied : 0 .. 2]
        /\ n.status = "approved" /\ n.applied = 1
    BY <2>1, <2>2, <2>3
  <2> HIDE DEF n
  <2>5. HasClaim(d, c) => n.status = "approved" /\ n.applied = (IF d.at = "reset" THEN 1 ELSE 0)
    BY <1>4, <2>4
  <2>6. ~HasClaim(d, c) /\ n.status \in Decided => n.applied = (IF n.status = "approved" THEN 1 ELSE 0)
    BY <2>4
  <2>7. d.at \in {"recheck", "rollback"} => d.edit.field = "number"
    BY <1>4
  <2>8. clerk[k].at \in {"recheck", "rollback"} =>
             d.at \in {"recheck", "rollback"} /\ d.who = clerk[k].who /\ d.edit = clerk[k].edit
    BY <1>1
  <2>9. clerk[k].at \in Afterwards \ {"write"} =>
             d.at \in Afterwards \ {"write"} /\ d.edit = clerk[k].edit /\ d.seen = clerk[k].seen
    BY <1>1, <1>4
  <2>10. \A x \in Changes : x # c => (HasClaim(d, x) <=> HasClaim(clerk[k], x))
    BY <1>4
  <2>11. UNCHANGED <<voter, code, restored, rewritten>>
    BY <1>2
  <2>12. n.status = "pending" => n.applied = 0
    BY <2>4
  <2> QED
    BY <1>3, <1>4, <2>1, <2>2, <2>4, <2>5, <2>6, <2>7, <2>8, <2>9, <2>10, <2>11, <2>12, StatusChanges, Zenon
<1>6. CASE clerk[k].op # "decide"
  <2>1. UNCHANGED change /\ \A c \in Changes : ~HasClaim(clerk[k], c)
    BY <1>1, <1>6, WriterShapes DEF Audit
  <2>2. \A j \in Clerks : clerk'[j] = IF j = k THEN d ELSE clerk[j]
    BY <1>4, ContactMoves, Zenon DEF ContactInv
  <2>3. ContactTypes'
    BY <1>2, <1>3, <1>4, <2>1, <2>2 DEF ContactInv, ContactTypes
  <2>4. ASSUME NEW c \in Changes PROVE RequestKept(c)'
    <3>1. RequestKept(c)
      BY DEF ContactInv
    <3> QED
      BY <1>4, <2>1, <2>2, <3>1 DEF RequestKept
  <2>5. \A x, y \in People : x # y => NumberKept(x, y)'
    BY <1>1, <1>2, <1>4, NumbersStay
  <2>6. \A x \in People : CodeKept(x)'
    BY <1>1, <1>2, <1>4, CodesStay DEF Afterwards
  <2> QED
    BY <1>3, <2>3, <2>4, <2>5, <2>6 DEF ContactInv, NoBlindEdit
<1> QED
  BY <1>5, <1>6

LEMMA ResetStep ==
    ASSUME ContactInv, NEW k \in Clerks, Reset(k)
    PROVE  ContactInv'
<1> DEFINE gone == Forgotten(clerk[k].edit, clerk[k].seen)
<1>1. clerk[k].at = "reset" /\ clerk[k].at \in Afterwards
  BY DEF Reset, Afterwards
<1>2. /\ code' = [n \in RegNos |-> IF n \in gone THEN NoPhone ELSE code[n]]
      /\ rewritten' = rewritten \ gone
      /\ clerk' = [clerk EXCEPT ![k] = Off]
      /\ UNCHANGED <<voter, filed, change, trail, direct, lostBy, restored>>
  BY DEF Reset, Finished
<1> HIDE DEF gone
<1>3. \A j \in Clerks : clerk'[j] = IF j = k THEN Off ELSE clerk[j]
  BY <1>2, ContactMoves DEF ContactInv
<1>4. code' \in [RegNos -> Phones \cup {NoPhone}]
  BY <1>2 DEF ContactInv, ContactTypes
<1>5. ContactTypes'
  BY <1>2, <1>3, <1>4, NothingHeld DEF ContactInv, ContactTypes
<1>6. ASSUME NEW c \in Changes PROVE RequestKept(c)'
  <2>1. RequestKept(c)
    BY DEF ContactInv
  <2>2. HasClaim(clerk[k], c) => change[c].status = "approved" /\ change[c].applied = 1
    BY <1>1, <2>1 DEF RequestKept
  <2> QED
    BY <1>2, <1>3, <2>1, <2>2, NothingHeld DEF RequestKept
<1>7. \A x, y \in People : x # y => NumberKept(x, y)'
  BY <1>1, <1>2, NothingHeld, NumbersStay
<1>8. ASSUME NEW x \in People PROVE CodeKept(x)'
  <2>1. CodeKept(x) /\ voter[x].number \in RegNos
    BY DEF ContactInv, ContactTypes, Doc
  <2>2. CASE voter[x].number \in gone
    BY <1>2, <2>1, <2>2 DEF CodeKept
  <2>3. CASE voter[x].number \notin gone
    <3>1. ~Forgets(clerk[k], voter[x].number)
      BY <2>3 DEF Forgets, gone
    <3>2. \A j \in Clerks : j # k /\ Forgets(clerk[j], voter[x].number) => Forgets(clerk'[j], voter[x].number)
      BY <1>3 DEF Forgets
    <3> QED
      BY <1>2, <2>1, <2>3, <3>1, <3>2 DEF CodeKept
  <2> QED
    BY <2>2, <2>3
<1> QED
  BY <1>2, <1>5, <1>6, <1>7, <1>8 DEF ContactInv, NoBlindEdit

LEMMA UndoWriteStep ==
    ASSUME ContactInv, NEW k \in Clerks, UndoWrite(k)
    PROVE  ContactInv'
<1> DEFINE p == clerk[k].who
           e == clerk[k].edit
<1>1. clerk[k] \in Undoing /\ clerk[k] \in ClerkRecord /\ clerk[k].at = "undo"
  BY ClerkShapes DEF ContactInv, ContactTypes, UndoWrite
<1>2. /\ voter' = [voter EXCEPT ![p][e.field] = e.old]
      /\ rewritten' = rewritten \cup ({e.old, voter[p].number} \cap RegNos)
      /\ restored' = IF e.field = "number" THEN restored \cup {e.old} ELSE restored
      /\ trail' = trail \ {[who |-> p, edit |-> e]}
      /\ clerk' = [clerk EXCEPT ![k] = Off]
      /\ UNCHANGED <<change, code, direct>>
  BY DEF UndoWrite, UndoneTo, Finished
<1>3. lostBy' # "edit"
  BY DEF UndoWrite, ContactInv, NoBlindEdit
<1>4. p \in People /\ e \in FitEdits /\ voter[p] \in Doc
  BY <1>1 DEF Undoing, ContactInv, ContactTypes
<1>5. /\ voter' \in [People -> Doc]
      /\ \A q \in People : q # p => voter'[q] = voter[q]
      /\ e.field \in {"phone", "number"}
      /\ e.field = "phone" => voter'[p].number = voter[p].number
      /\ e.field = "number" => voter'[p].number = e.old /\ e.old \in RegNos
  BY <1>2, <1>4, Corrected
<1>6. \A j \in Clerks : clerk'[j] = IF j = k THEN Off ELSE clerk[j]
  BY <1>2, ContactMoves DEF ContactInv
<1>7. trail' \subseteq [who : People, edit : FitEdits]
  BY <1>2 DEF ContactInv, ContactTypes
<1>8. ContactTypes'
  BY <1>2, <1>5, <1>6, <1>7, NothingHeld DEF ContactInv, ContactTypes
<1>9. ASSUME NEW c \in Changes PROVE RequestKept(c)'
  <2>1. RequestKept(c) /\ ~HasClaim(clerk[k], c)
    BY <1>1 DEF ContactInv, HasClaim, Afterwards
  <2> QED
    BY <1>2, <1>6, <2>1, NothingHeld DEF RequestKept
<1>10. ASSUME NEW x \in People, NEW y \in People, x # y PROVE NumberKept(x, y)'
  <2>1. NumberKept(x, y)
    BY <1>10 DEF ContactInv
  <2>2. CASE e.field = "number" /\ p \in {x, y}
    BY <1>2, <1>5, <2>2 DEF NumberKept
  <2>3. CASE ~(e.field = "number" /\ p \in {x, y})
    <3>1. voter'[x].number = voter[x].number /\ voter'[y].number = voter[y].number
      BY <1>5, <2>3
    <3>2. \A j \in Clerks : Settles(clerk[j], x, y) => Settles(clerk[j], x, y)'
      BY <1>1, <1>6, <3>1 DEF Settles
    <3> QED
      BY <1>2, <2>1, <3>1, <3>2 DEF NumberKept
  <2> QED
    BY <2>2, <2>3
<1>11. ASSUME NEW x \in People PROVE CodeKept(x)'
  <2>1. CodeKept(x)
    BY DEF ContactInv
  <2>2. CASE x = p
    <3>1. voter[p].number \in RegNos
      BY <1>4 DEF Doc
    <3>2. voter'[p].number \in rewritten'
      BY <1>2, <1>5, <3>1
    <3> QED
      BY <2>2, <3>2 DEF CodeKept
  <2>3. CASE x # p
    <3>1. voter'[x] = voter[x]
      BY <1>5, <2>3
    <3>2. \A j \in Clerks : Forgets(clerk[j], voter[x].number) => Forgets(clerk'[j], voter[x].number)
      BY <1>1, <1>6 DEF Forgets, Afterwards
    <3> QED
      BY <1>2, <2>1, <3>1, <3>2 DEF CodeKept
  <2> QED
    BY <2>2, <2>3
<1> QED
  BY <1>3, <1>8, <1>9, <1>10, <1>11 DEF ContactInv, NoBlindEdit

LEMMA SendCodeStep ==
    ASSUME ContactInv, NEW k \in Clerks, SendCode(k)
    PROVE  ContactInv'
<1> DEFINE n == clerk[k].number
           current == \A p \in People : voter[p].number = n => voter[p].phone = clerk[k].phone
<1>1. clerk[k] \in Sending /\ clerk[k] \in ClerkRecord /\ clerk[k].at = "send"
  BY ClerkShapes DEF ContactInv, ContactTypes, SendCode
<1>2. n \in RegNos /\ clerk[k].phone \in Phones
  BY <1>1 DEF Sending
<1>3. /\ code' = [code EXCEPT ![n] = clerk[k].phone]
      /\ rewritten' = IF current THEN rewritten \ {n} ELSE rewritten \cup {n}
      /\ clerk' = [clerk EXCEPT ![k] = Off]
      /\ UNCHANGED <<voter, filed, change, trail, direct, lostBy, restored>>
  BY DEF SendCode, Finished
<1>4. \A j \in Clerks : clerk'[j] = IF j = k THEN Off ELSE clerk[j]
  BY <1>3, ContactMoves DEF ContactInv
<1>5. /\ code' \in [RegNos -> Phones \cup {NoPhone}]
      /\ \A m \in RegNos : code'[m] = IF m = n THEN clerk[k].phone ELSE code[m]
  BY <1>2, <1>3 DEF ContactInv, ContactTypes
<1>6. ContactTypes'
  BY <1>3, <1>4, <1>5, NothingHeld DEF ContactInv, ContactTypes
<1>7. ASSUME NEW c \in Changes PROVE RequestKept(c)'
  <2>1. RequestKept(c) /\ ~HasClaim(clerk[k], c)
    BY <1>1 DEF ContactInv, HasClaim, Afterwards
  <2> QED
    BY <1>3, <1>4, <2>1, NothingHeld DEF RequestKept
<1>8. \A x, y \in People : x # y => NumberKept(x, y)'
  BY <1>1, <1>3, NothingHeld, NumbersStay
<1>9. ASSUME NEW x \in People PROVE CodeKept(x)'
  <2>1. CodeKept(x) /\ voter[x].number \in RegNos
    BY DEF ContactInv, ContactTypes, Doc
  <2>2. CASE voter[x].number = n
    <3>1. CASE current
      BY <1>3, <1>5, <2>1, <2>2, <3>1 DEF CodeKept
    <3>2. CASE ~current
      <4>1. n \in rewritten'
        BY <1>3, <3>2
      <4> QED
        BY <1>3, <2>2, <4>1 DEF CodeKept
    <3> QED
      BY <3>1, <3>2
  <2>3. CASE voter[x].number # n
    <3>1. \A j \in Clerks : Forgets(clerk[j], voter[x].number) => Forgets(clerk'[j], voter[x].number)
      BY <1>1, <1>4 DEF Forgets, Afterwards
    <3>2. voter[x].number \in rewritten => voter[x].number \in rewritten'
      BY <1>3, <2>3
    <3> QED
      BY <1>3, <1>5, <2>1, <2>3, <3>1, <3>2 DEF CodeKept
  <2> QED
    BY <2>2, <2>3
<1> QED
  BY <1>3, <1>6, <1>7, <1>8, <1>9 DEF ContactInv, NoBlindEdit

LEMMA BallotStep ==
    ASSUME ContactInv, NEW p \in People, CastBallot(p)
    PROVE  ContactInv'
<1> DEFINE v == [voter[p] EXCEPT !.voted = TRUE]
<1>1. voter[p] \in Doc /\ voter \in [People -> Doc]
  BY DEF ContactInv, ContactTypes
<1>2. v \in Doc /\ v.number = voter[p].number /\ v.phone = voter[p].phone /\ v.number \in RegNos
  BY <1>1 DEF Doc
<1>3. /\ voter' = [voter EXCEPT ![p] = v] /\ code' = [code EXCEPT ![v.number] = NoPhone]
      /\ UNCHANGED <<filed, change, trail, clerk, direct, lostBy, restored, rewritten>>
  BY <1>2 DEF CastBallot
<1> HIDE DEF v
<1>4. /\ voter' \in [People -> Doc]
      /\ \A q \in People : voter'[q].number = voter[q].number /\ voter'[q].phone = voter[q].phone
  BY <1>1, <1>2, <1>3
<1>5. /\ code' \in [RegNos -> Phones \cup {NoPhone}]
      /\ \A m \in RegNos : code'[m] = IF m = v.number THEN NoPhone ELSE code[m]
  BY <1>2, <1>3 DEF ContactInv, ContactTypes
<1>6. ContactTypes'
  BY <1>3, <1>4, <1>5 DEF ContactInv, ContactTypes
<1>7. \A c \in Changes : RequestKept(c)'
  BY <1>3 DEF ContactInv, RequestKept
<1>8. \A x, y \in People : x # y => NumberKept(x, y)'
  BY <1>3, <1>4 DEF ContactInv, NumberKept, Settles
<1>9. ASSUME NEW x \in People PROVE CodeKept(x)'
  <2>1. CodeKept(x) /\ voter[x].number \in RegNos
    BY DEF ContactInv, ContactTypes, Doc
  <2> QED
    BY <1>3, <1>4, <1>5, <2>1 DEF CodeKept, Forgets
<1> QED
  BY <1>3, <1>6, <1>7, <1>8, <1>9 DEF ContactInv, NoBlindEdit

LEMMA ContactInvStep == ContactInv /\ [ContactNext]_contactVars => ContactInv'
<1> SUFFICES ASSUME ContactInv, [ContactNext]_contactVars PROVE ContactInv'
  OBVIOUS
<1>1. CASE UNCHANGED contactVars
  BY <1>1 DEF contactVars, ContactInv, ContactTypes, NoBlindEdit, RequestKept, NumberKept, Settles, CodeKept, Forgets
<1>2. ASSUME NEW c \in Changes, Withdraw(c) PROVE ContactInv'
  BY <1>2, WithdrawStep
<1>3. ASSUME NEW p \in People, CastBallot(p) PROVE ContactInv'
  BY <1>3, BallotStep
<1>4. ASSUME NEW k \in Clerks, RequestRead(k) \/ RequestInsert(k) \/ (\E c \in Changes : DecideRead(k, c)) PROVE ContactInv'
  BY <1>4, RequestReadStep, RequestInsertStep, DecideReadStep
<1>5. ASSUME NEW k \in Clerks, DecideClaim(k) \/ DecideFetch(k) \/ EditRead(k) PROVE ContactInv'
  BY <1>5, DecideClaimStep, DecideFetchStep, EditReadStep
<1>6. ASSUME NEW k \in Clerks, Write(k) \/ Recheck(k) \/ RollBack(k) \/ Follow(k) \/ Audit(k) \/ Reset(k) PROVE ContactInv'
  BY <1>6, WriteStep, RecheckStep, RollBackStep, FollowStep, AuditStep, ResetStep
<1>7. ASSUME NEW k \in Clerks, UndoRead(k) \/ UndoWrite(k) \/ SendRead(k) \/ SendCode(k) PROVE ContactInv'
  BY <1>7, UndoReadStep, UndoWriteStep, SendReadStep, SendCodeStep
<1> QED
  BY <1>1, <1>2, <1>3, <1>4, <1>5, <1>6, <1>7 DEF ContactNext

(* However requests, decisions, direct edits, undos and codes interleave: what    *)
(* was approved was applied once, no edit overwrites one it had not read, numbers *)
(* stay apart and former phones lose their codes (_apply_student_edit).           *)
THEOREM ContactsHold == ContactSpec => []ContactsSound
<1>1. ContactInv => ContactsSound
  <2> SUFFICES ASSUME ContactInv PROVE ContactsSound
    OBVIOUS
  <2>1. \A k \in Clerks, c \in Changes : HasClaim(clerk[k], c) => "change" \in DOMAIN clerk[k] /\ clerk[k].change = c
                                           /\ clerk[k].at # "claim" /\ clerk[k] # Off
    BY DEF HasClaim, Afterwards, Off
  <2>2. ApprovedMeansApplied
    BY <2>1 DEF ContactInv, RequestKept, ApprovedMeansApplied, Working
  <2>3. Resting => \A k \in Clerks : clerk[k].at = "off"
    BY NothingHeld DEF Resting
  <2>4. NumbersUnique
    BY <2>3 DEF NumbersUnique, ContactInv, NumberKept, Settles
  <2>5. OldPhoneHasNoCode
    BY <2>3 DEF OldPhoneHasNoCode, ContactInv, CodeKept, Forgets, Afterwards
  <2> QED
    BY <2>2, <2>4, <2>5 DEF ContactInv, ContactsSound
<1> QED
  BY <1>1, ContactInvInit, ContactInvStep, PTL DEF ContactSpec

\* The numbers a record is filed under, and those given back or outdated, are registration numbers.
ContactBounds ==
    /\ filed \in [People -> RegNos]
    /\ direct \in 0 .. Corrections /\ lostBy \in {"nobody", "edit", "rollback", "undo"}
    /\ restored \subseteq RegNos /\ rewritten \subseteq RegNos
    /\ \A k \in Clerks : clerk[k].at = "follow" => clerk[k].edit.field = "number"

LEMMA NumberEdits ==
    ASSUME NEW e \in FitEdits
    PROVE  /\ e.field = "number" => e.old \in RegNos /\ e.new \in RegNos
           /\ e.field \in {"phone", "number"}
BY DEF FitEdits

\* A clerk follows a correction only where it was one of the number.
LEMMA FollowersStay ==
    ASSUME ContactInv, ContactBounds, NEW k \in Clerks, NEW d, clerk' = [clerk EXCEPT ![k] = d],
           d.at = "follow" => d.edit.field = "number"
    PROVE  (\A j \in Clerks : clerk[j].at = "follow" => clerk[j].edit.field = "number")'
<1>1. \A j \in Clerks : clerk'[j] = IF j = k THEN d ELSE clerk[j]
  BY ContactMoves DEF ContactInv
<1> QED
  BY <1>1 DEF ContactBounds

LEMMA OffIsNoFollower ==
    ASSUME ContactInv, ContactBounds, NEW k \in Clerks, Finished(k)
    PROVE  (\A j \in Clerks : clerk[j].at = "follow" => clerk[j].edit.field = "number")'
<1>1. Off.at # "follow" /\ clerk' = [clerk EXCEPT ![k] = Off]
  BY NothingHeld DEF Finished
<1> QED
  BY <1>1, FollowersStay

LEMMA StageIsNoFollower ==
    ASSUME ContactInv, ContactBounds, NEW k \in Clerks, NEW at, Step(k, at),
           at = "follow" => clerk[k].at \in {"recheck", "rollback"}
    PROVE  (\A j \in Clerks : clerk[j].at = "follow" => clerk[j].edit.field = "number")'
<1> DEFINE d == [clerk[k] EXCEPT !.at = at]
<1>1. clerk' = [clerk EXCEPT ![k] = d]
  BY DEF Step, ContactInv, ContactTypes
<1>2. clerk[k] \in ClerkRecord /\ (clerk[k].at \in {"recheck", "rollback"} => clerk[k].edit.field = "number")
  BY DEF ContactInv, ContactTypes
<1>3. d.at = "follow" => d.edit.field = "number"
  <2> SUFFICES ASSUME d.at = "follow" PROVE d.edit.field = "number"
    OBVIOUS
  <2>1. "at" \in DOMAIN clerk[k]
    BY <1>2 DEF ClerkRecord, Off, Begun, Asked, Deciding, Editing, Undoing, Sending
  <2>2. at = "follow"
    BY <2>1
  <2> QED
    BY <1>2, <2>2
<1> HIDE DEF d
<1> QED
  BY <1>1, <1>3, FollowersStay

LEMMA EntersNoFollower ==
    ASSUME ContactInv, ContactBounds, NEW k \in Clerks, NEW d, Enter(k, d), d.at # "follow"
    PROVE  (\A j \in Clerks : clerk[j].at = "follow" => clerk[j].edit.field = "number")'
<1>1. clerk' = [clerk EXCEPT ![k] = d]
  BY DEF Enter
<1> QED
  BY <1>1, FollowersStay

LEMMA ReadingBounds ==
    ASSUME ContactInv, ContactBounds, NEW k \in Clerks,
           \/ RequestRead(k) \/ RequestInsert(k) \/ (\E c \in Changes : DecideRead(k, c))
           \/ DecideClaim(k) \/ DecideFetch(k) \/ SendRead(k)
    PROVE  ContactBounds'
<1> DEFINE Followers == \A j \in Clerks : clerk[j].at = "follow" => clerk[j].edit.field = "number"
<1>1. UNCHANGED <<filed, direct, lostBy, restored, rewritten>>
  BY DEF RequestRead, RequestInsert, DecideRead, DecideClaim, DecideFetch, SendRead
<1>2. ASSUME RequestRead(k) PROVE Followers'
  BY <1>2, EntersNoFollower DEF RequestRead
<1>3. ASSUME RequestInsert(k) PROVE Followers'
  BY <1>3, OffIsNoFollower DEF RequestInsert
<1>4. ASSUME NEW c \in Changes, DecideRead(k, c) PROVE Followers'
  BY <1>4, EntersNoFollower DEF DecideRead
<1>5. ASSUME DecideClaim(k) PROVE Followers'
  BY <1>5, OffIsNoFollower, StageIsNoFollower DEF DecideClaim
<1>6. ASSUME DecideFetch(k) PROVE Followers'
  BY <1>6, EntersNoFollower, OffIsNoFollower DEF DecideFetch
<1>7. ASSUME SendRead(k) PROVE Followers'
  BY <1>7, EntersNoFollower DEF SendRead
<1>8. Followers'
  BY <1>2, <1>3, <1>4, <1>5, <1>6, <1>7
<1> QED
  BY <1>1, <1>8 DEF ContactBounds

LEMMA CorrectionBounds ==
    ASSUME ContactInv, ContactBounds, NEW k \in Clerks, EditRead(k) \/ UndoRead(k)
    PROVE  ContactBounds'
<1>1. UNCHANGED <<filed, lostBy, restored, rewritten>> /\ direct' = direct + 1 /\ direct < Corrections
  BY DEF EditRead, UndoRead
<1>2. Corrections \in Nat
  BY ContactAssumption
<1>3. \E d : Enter(k, d) /\ d.at # "follow"
  <2>1. CASE EditRead(k)
    <3>1. \E p \in People, field \in Fields : \E new \in Value(field) :
             Enter(k, [at |-> "write", op |-> "edit", who |-> p,
                       edit |-> [field |-> field, old |-> voter[p][field], new |-> new], seen |-> voter[p]])
      BY <2>1 DEF EditRead
    <3> QED
      BY <3>1
  <2>2. CASE UndoRead(k)
    <3>1. \E t \in trail : Enter(k, [at |-> "undo", who |-> t.who, edit |-> t.edit, seen |-> voter[t.who]])
      BY <2>2 DEF UndoRead
    <3> QED
      BY <3>1
  <2> QED
    BY <2>1, <2>2
<1>4. (\A j \in Clerks : clerk[j].at = "follow" => clerk[j].edit.field = "number")'
  BY <1>3, EntersNoFollower
<1> QED
  BY <1>1, <1>2, <1>4 DEF ContactBounds

LEMMA WritingBounds ==
    ASSUME ContactInv, ContactBounds, NEW k \in Clerks,
           Write(k) \/ Recheck(k) \/ RollBack(k) \/ Follow(k) \/ Audit(k) \/ Reset(k)
    PROVE  ContactBounds'
<1> DEFINE Followers == \A j \in Clerks : clerk[j].at = "follow" => clerk[j].edit.field = "number"
<1>0. clerk[k].at \in Afterwards /\ direct' = direct
  BY DEF Write, Recheck, RollBack, Follow, Audit, Reset, Afterwards
<1>1. clerk[k].who \in People /\ clerk[k].edit \in FitEdits /\ clerk[k].seen \in Doc
  BY <1>0, WriterShapes
<1>2. clerk[k].seen.number \in RegNos
  BY <1>1 DEF Doc
<1>3. CASE Write(k)
  <2>1. UNCHANGED <<filed, restored, rewritten>> /\ lostBy' \in {lostBy, "edit"}
    BY <1>3 DEF Write, Unseen
  <2>2. Finished(k) \/ Step(k, "recheck") \/ Step(k, "audit")
    BY <1>3 DEF Write, Refuse
  <2>3. Followers'
    BY <2>2, OffIsNoFollower, StageIsNoFollower
  <2> QED
    BY <1>0, <2>1, <2>3 DEF ContactBounds
<1>4. CASE Recheck(k)
  <2>1. UNCHANGED <<filed, restored, rewritten, lostBy>>
    BY <1>4 DEF Recheck
  <2>2. Followers'
    BY <1>4, StageIsNoFollower DEF Recheck
  <2> QED
    BY <1>0, <2>1, <2>2 DEF ContactBounds
<1>5. CASE RollBack(k)
  <2>1. clerk[k].edit.new \in RegNos
    BY <1>1, <1>5, NumberEdits DEF RollBack, ContactInv, ContactTypes
  <2>2. /\ filed' = filed /\ lostBy' \in {lostBy, "rollback"}
        /\ restored' = restored \cup {clerk[k].seen.number}
        /\ rewritten' = rewritten \cup {clerk[k].seen.number, clerk[k].edit.new}
    BY <1>5 DEF RollBack, Unseen
  <2>3. Followers'
    BY <1>5, OffIsNoFollower DEF RollBack, Refuse
  <2> QED
    BY <1>0, <1>2, <2>1, <2>2, <2>3 DEF ContactBounds
<1>6. CASE Follow(k)
  <2>1. clerk[k].edit.new \in RegNos
    BY <1>1, <1>6, NumberEdits DEF Follow, ContactBounds
  <2>2. filed' \in [People -> RegNos] /\ UNCHANGED <<restored, rewritten, lostBy>>
    BY <1>6, <2>1 DEF Follow, ContactBounds
  <2>3. Followers'
    BY <1>6, StageIsNoFollower DEF Follow
  <2> QED
    BY <1>0, <2>2, <2>3 DEF ContactBounds
<1>7. CASE Audit(k)
  <2>1. UNCHANGED <<filed, restored, rewritten, lostBy>>
    BY <1>7 DEF Audit
  <2>2. Followers'
    BY <1>7, StageIsNoFollower DEF Audit
  <2> QED
    BY <1>0, <2>1, <2>2 DEF ContactBounds
<1>8. CASE Reset(k)
  <2>1. UNCHANGED <<filed, restored, lostBy>> /\ rewritten' \subseteq rewritten
    BY <1>8 DEF Reset
  <2>2. Followers'
    BY <1>8, OffIsNoFollower DEF Reset
  <2> QED
    BY <1>0, <2>1, <2>2 DEF ContactBounds
<1> QED
  BY <1>3, <1>4, <1>5, <1>6, <1>7, <1>8

LEMMA UndoBounds ==
    ASSUME ContactInv, ContactBounds, NEW k \in Clerks, UndoWrite(k)
    PROVE  ContactBounds'
<1>1. clerk[k] \in ClerkRecord /\ clerk[k].at = "undo"
  BY DEF UndoWrite, ContactInv, ContactTypes
<1>2. clerk[k] \in Undoing
  BY <1>1, ClerkShapes
<1>3. clerk[k].edit \in FitEdits
  BY <1>2 DEF Undoing
<1> DEFINE e == clerk[k].edit
           p == clerk[k].who
<1>4. e.field = "number" => e.old \in RegNos
  BY <1>3, NumberEdits
<1>5. rewritten' = rewritten \cup ({e.old, voter[p].number} \cap RegNos)
  BY DEF UndoWrite
<1>6. /\ direct' = direct /\ lostBy' \in {lostBy, "undo"}
      /\ restored' = IF e.field = "number" THEN restored \cup {e.old} ELSE restored
      /\ IF e.field = "number" THEN filed' = [q \in People |-> IF filed[q] = e.new THEN e.old ELSE filed[q]]
                               ELSE filed' = filed
  BY DEF UndoWrite
<1>7. (\A j \in Clerks : clerk[j].at = "follow" => clerk[j].edit.field = "number")'
  BY OffIsNoFollower DEF UndoWrite
<1> HIDE DEF e, p
<1>8. filed' \in [People -> RegNos] /\ restored' \subseteq RegNos /\ rewritten' \subseteq RegNos
  BY <1>4, <1>5, <1>6 DEF ContactBounds
<1> QED
  BY <1>6, <1>7, <1>8 DEF ContactBounds

LEMMA SendBounds ==
    ASSUME ContactInv, ContactBounds, NEW k \in Clerks, SendCode(k)
    PROVE  ContactBounds'
<1>1. clerk[k] \in ClerkRecord /\ clerk[k].at = "send"
  BY DEF SendCode, ContactInv, ContactTypes
<1>2. clerk[k] \in Sending
  BY <1>1, ClerkShapes
<1>3. clerk[k].number \in RegNos
  BY <1>2 DEF Sending
<1>4. rewritten' \subseteq RegNos /\ UNCHANGED <<filed, direct, lostBy, restored>>
  BY <1>3 DEF SendCode, ContactBounds
<1>5. (\A j \in Clerks : clerk[j].at = "follow" => clerk[j].edit.field = "number")'
  BY OffIsNoFollower DEF SendCode
<1> QED
  BY <1>4, <1>5 DEF ContactBounds

LEMMA ContactBoundsStep ==
    ASSUME ContactInv, ContactBounds, [ContactNext]_contactVars
    PROVE  ContactBounds'
<1>1. CASE UNCHANGED contactVars
  BY <1>1 DEF contactVars, ContactBounds
<1>2. ASSUME NEW c \in Changes, Withdraw(c) PROVE ContactBounds'
  BY <1>2 DEF Withdraw, ContactBounds
<1>3. ASSUME NEW p \in People, CastBallot(p) PROVE ContactBounds'
  BY <1>3 DEF CastBallot, ContactBounds
<1> QED
  BY <1>1, <1>2, <1>3, ReadingBounds, CorrectionBounds, WritingBounds, UndoBounds, SendBounds DEF ContactNext

\* A voter's records stay filed under registration numbers, whatever is corrected, rolled back or undone.
THEOREM ContactsTyped == ContactSpec => []ContactTypeOK
<1> DEFINE Kept == ContactInv /\ ContactBounds
<1>1. ContactInit => Kept
  <2> SUFFICES ASSUME ContactInit PROVE ContactBounds
    BY ContactInvInit
  <2> QED
    BY ContactAssumption, NothingHeld DEF ContactInit, ContactBounds
<1>2. Kept /\ [ContactNext]_contactVars => Kept'
  BY ContactInvStep, ContactBoundsStep
<1>3. Kept => ContactTypeOK
  <2> SUFFICES ASSUME Kept PROVE ContactTypeOK
    OBVIOUS
  <2>1. FitEdits \subseteq Edit
    BY DEF FitEdits, Edit, Fields, Values
  <2>2. \A r \in ClerkRecord : r.at \in {"off", "request", "claim", "fetch", "write", "recheck", "rollback",
                                         "follow", "audit", "reset", "undo", "send"}
    BY DEF ClerkRecord, Off, Begun, Asked, Deciding, Editing, Undoing, Sending, Afterwards
  <2>3. change \in [Changes -> [status : {"unused"}]
                        \cup [status : Decided \cup {"pending"}, who : People, edit : Edit, applied : 0 .. 2]]
    BY <2>1 DEF ContactInv, ContactTypes
  <2>4. trail \subseteq [who : People, edit : Edit]
    BY <2>1 DEF ContactInv, ContactTypes
  <2> QED
    BY <2>2, <2>3, <2>4 DEF ContactInv, ContactTypes, ContactBounds, ContactTypeOK
<1> HIDE DEF Kept
<1> QED
  BY <1>1, <1>2, <1>3, PTL DEF ContactSpec
=============================================================================
