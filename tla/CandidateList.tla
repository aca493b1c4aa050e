----------------------------- MODULE CandidateList -----------------------------
(* The Official List of Candidates (candidate_list.py): frozen snapshots of   *)
(* the approved candidates.  Editors change the candidates and then mark the  *)
(* list dirty; sweeps of several workers and the "Issue now" of an            *)
(* administrator freeze a new list and supersede the earlier one.             *)
EXTENDS Naturals, FiniteSets

CONSTANTS Slates,       \* what the list can say: names, positions, order
          Editors,  \* requests that change candidates
          Sweepers, \* runs of _maybe_issue_candidate_list
          Managers, \* requests of the route "Issue now"
          Edits,    \* bound: changes of the candidates
          MaxLists  \* bound: lists issued

ASSUME ListAssumption == /\ Edits \in Nat /\ MaxLists \in Nat
                         /\ "none" \notin Slates /\ Sweepers \cap Managers = {}

VARIABLES slate,        \* the approved candidates; "none" when there are none
          vettingOver, \* the window has ended and its close-out is complete
          editor,   \* which editors have changed and not yet marked
          edits,    \* changes so far, up to Edits: the clock of dirty_at
          dirtyAt,  \* settings.candidate_list_state.dirty_at; 0 when unset
          quiet,    \* the mark is QUIET_SECONDS old
          lists,    \* candidate_lists
          issuer,   \* the local variables of sweeps and managers
          wiped     \* history: "Issue now" cleared a mark it had not read

listVars == <<slate, vettingOver, editor, edits, dirtyAt, quiet, lists, issuer, wiped>>

Issuers == Sweepers \cup Managers
AtRest == [at |-> "rest", latest |-> "none", saw |-> 0, text |-> "none", seq |-> 0]
ListDoc == [seq : 1 .. MaxLists, text : Slates, current : BOOLEAN]
Places  == {"rest", "state", "read", "number", "insert", "supersede", "clear"}

ListInit == /\ slate = "none" /\ vettingOver = FALSE
            /\ editor = [e \in Editors |-> FALSE]
            /\ edits = 0 /\ dirtyAt = 0 /\ quiet = FALSE
            /\ lists = {}
            /\ issuer = [i \in Issuers |-> AtRest]
            /\ wiped = FALSE

-----------------------------------------------------------------------------
(* A change of the candidates, and the mark after it (_candidates_changed).   *)
ChangeSlate(e) ==
    /\ ~editor[e] /\ edits < Edits
    /\ \E s \in (Slates \cup {"none"}) \ {slate} : slate' = s
    /\ edits' = edits + 1
    /\ editor' = [editor EXCEPT ![e] = TRUE]
    /\ UNCHANGED <<vettingOver, dirtyAt, quiet, lists, issuer, wiped>>

(* Mutant: the mark carries a time that has not come yet.                     *)
StampAhead == edits + 1

Stamp == edits

(* mark_dirty overwrites an earlier mark with a later time.                   *)
MarkDirty(e) ==
    /\ editor[e]
    /\ dirtyAt' = Stamp
    /\ quiet' = FALSE
    /\ editor' = [editor EXCEPT ![e] = FALSE]
    /\ UNCHANGED <<slate, vettingOver, edits, lists, issuer, wiped>>

QuietPasses == /\ dirtyAt # 0 /\ ~quiet /\ quiet' = TRUE
               /\ UNCHANGED <<slate, vettingOver, editor, edits, dirtyAt, lists, issuer, wiped>>

VettingEnds == /\ ~vettingOver /\ vettingOver' = TRUE
               /\ UNCHANGED <<slate, editor, edits, dirtyAt, quiet, lists, issuer, wiped>>

-----------------------------------------------------------------------------
Move(i, record) == issuer' = [issuer EXCEPT ![i] = record]

(* latest_list: a list that no other supersedes, the last by issued_at.  That  *)
(* time is taken when a call begins, so of two it may be either.              *)
LatestTexts ==
    IF \A l \in lists : ~l.current THEN {"none"} ELSE {l.text : l \in {m \in lists : m.current}}

(* maybe_issue reads the current list, ...                                    *)
SweepLatest(i) ==
    /\ i \in Sweepers /\ issuer[i] = AtRest /\ vettingOver
    /\ \E text \in LatestTexts : Move(i, [AtRest EXCEPT !.at = "state", !.latest = text])
    /\ UNCHANGED <<slate, vettingOver, editor, edits, dirtyAt, quiet, lists, wiped>>

(* ... then the mark: the first list is due at once, a later one after a      *)
(* quiet spell.                                                               *)
DueNow(latest) == latest = "none" \/ (dirtyAt # 0 /\ quiet)

SweepState(i) ==
    /\ issuer[i].at = "state"
    /\ IF DueNow(issuer[i].latest)
       THEN Move(i, [issuer[i] EXCEPT !.at = "read", !.saw = dirtyAt])
       ELSE Move(i, AtRest)
    /\ UNCHANGED <<slate, vettingOver, editor, edits, dirtyAt, quiet, lists, wiped>>

(* ... and the candidates.  Nothing is issued for no candidates, nor for the  *)
(* candidates the current list shows: then only the mark is cleared.          *)
SweepRead(i) ==
    /\ i \in Sweepers /\ issuer[i].at = "read"
    /\ Move(i, IF slate = "none" THEN AtRest
               ELSE IF slate = issuer[i].latest THEN [issuer[i] EXCEPT !.at = "clear"]
               ELSE [issuer[i] EXCEPT !.at = "number", !.text = slate])
    /\ UNCHANGED <<slate, vettingOver, editor, edits, dirtyAt, quiet, lists, wiped>>

(* "Issue now" reads the candidates, then the current list.                   *)
IssueNow(i) ==
    /\ i \in Managers /\ issuer[i] = AtRest /\ slate # "none"
    /\ Move(i, [AtRest EXCEPT !.at = "read", !.text = slate, !.saw = dirtyAt])
    /\ UNCHANGED <<slate, vettingOver, editor, edits, dirtyAt, quiet, lists, wiped>>

IssueNowLatest(i) ==
    /\ i \in Managers /\ issuer[i].at = "read"
    /\ \E text \in LatestTexts :
           Move(i, IF text = issuer[i].text THEN AtRest ELSE [issuer[i] EXCEPT !.at = "number"])
    /\ UNCHANGED <<slate, vettingOver, editor, edits, dirtyAt, quiet, lists, wiped>>

-----------------------------------------------------------------------------
(* issue: the number after the highest, the insert, the supersession.         *)
Highest == IF lists = {} THEN 0 ELSE CHOOSE n \in {l.seq : l \in lists} : \A l \in lists : l.seq <= n

TakeNumber(i) ==
    /\ issuer[i].at = "number" /\ Highest < MaxLists
    /\ Move(i, [issuer[i] EXCEPT !.at = "insert", !.seq = Highest + 1])
    /\ UNCHANGED <<slate, vettingOver, editor, edits, dirtyAt, quiet, lists, wiped>>

(* Mutant: no unique index on (org_id, seq).                                  *)
NumberFreeAlways(n) == TRUE

(* The unique index on (org_id, seq).                                         *)
NumberFree(n) == \A l \in lists : l.seq # n

InsertList(i) ==
    /\ issuer[i].at = "insert"
    /\ IF NumberFree(issuer[i].seq)
       THEN /\ lists' = lists \cup {[seq |-> issuer[i].seq, text |-> issuer[i].text, current |-> TRUE]}
            /\ Move(i, [issuer[i] EXCEPT !.at = "supersede"])
       ELSE Move(i, AtRest) /\ UNCHANGED lists
    /\ UNCHANGED <<slate, vettingOver, editor, edits, dirtyAt, quiet, wiped>>

(* Mutant: a list supersedes those that say something else.                   *)
SupersedesOtherText(i, l) == l.text # issuer[i].text

(* Every other current list is superseded, one with a higher number too.      *)
Supersedes(i, l) == l.seq # issuer[i].seq

SupersedeOthers(i) ==
    /\ issuer[i].at = "supersede"
    /\ lists' = {[l EXCEPT !.current = l.current /\ ~Supersedes(i, l)] : l \in lists}
    /\ Move(i, [issuer[i] EXCEPT !.at = "clear"])
    /\ UNCHANGED <<slate, vettingOver, editor, edits, dirtyAt, quiet, wiped>>

(* Mutant: a sweep clears whatever mark there is.                             *)
ClearsAny(i) == TRUE

(* A sweep clears only the mark it saw; "Issue now" clears any.               *)
Clears(i) == i \in Managers \/ dirtyAt = issuer[i].saw

ClearMark(i) ==
    /\ issuer[i].at = "clear"
    /\ IF Clears(i)
       THEN /\ dirtyAt' = 0 /\ quiet' = FALSE
            /\ wiped' = (wiped \/ (i \in Managers /\ dirtyAt \notin {0, issuer[i].saw}))
       ELSE UNCHANGED <<dirtyAt, quiet, wiped>>
    /\ Move(i, AtRest)
    /\ UNCHANGED <<slate, vettingOver, editor, edits, lists>>

SweepStep(i) == SweepLatest(i) \/ SweepState(i) \/ SweepRead(i) \/ TakeNumber(i)
                \/ InsertList(i) \/ SupersedeOthers(i) \/ ClearMark(i)

ListNext ==
    \/ QuietPasses \/ VettingEnds
    \/ \E e \in Editors : ChangeSlate(e) \/ MarkDirty(e)
    \/ \E i \in Issuers : SweepStep(i) \/ IssueNow(i) \/ IssueNowLatest(i)

ListSpec == ListInit /\ [][ListNext]_listVars

(* The sweep runs every few minutes in every worker for as long as the        *)
(* service is up, editors finish their request and the clock goes on.         *)
ListFairness == /\ WF_listVars(QuietPasses) /\ WF_listVars(VettingEnds)
                /\ \A e \in Editors : WF_listVars(MarkDirty(e))
                /\ \A i \in Issuers : WF_listVars(SweepStep(i))

FairListSpec == ListSpec /\ ListFairness

-----------------------------------------------------------------------------
AllRest == (\A i \in Issuers : issuer[i] = AtRest) /\ (\A e \in Editors : ~editor[e])

(* The types of the variables.                                                *)
ListTypeOK ==
    /\ slate \in Slates \cup {"none"} /\ vettingOver \in BOOLEAN /\ editor \in [Editors -> BOOLEAN]
    /\ edits \in 0 .. Edits /\ dirtyAt \in 0 .. Edits /\ quiet \in BOOLEAN /\ wiped \in BOOLEAN
    /\ lists \subseteq ListDoc
    /\ \A i \in Issuers : issuer[i].at \in Places /\ issuer[i].seq \in 0 .. MaxLists

(* Two lists are never both current at rest: whoever inserts last finds and   *)
(* supersedes the others, whatever the order of the supersessions.            *)
OneCurrentList ==
    AllRest => \A l, m \in lists : l.current /\ m.current => l = m

(* The numbers of the lists are distinct: one of two workers that issue at    *)
(* the same moment gets nothing (candidate_list.py:100).                      *)
NumbersDistinct == \A l, m \in lists : l.seq = m.seq => l.text = m.text /\ l = m

(* A current list that no longer shows the candidates is marked dirty, so a   *)
(* sweep will replace it: a change that lands while a sweep works keeps its   *)
(* mark (candidate_list.py:145).  It holds of one sweep at a time and without *)
(* "Issue now", which may wipe such a mark.  Two workers at once are "safe":  *)
(* "the unique (org_id, seq) index lets only one worker win" (main.py:3059);  *)
(* but a worker that read the candidates early takes its number late, and its *)
(* outdated list supersedes the newer one.                                    *)
StaleListIsMarked ==
    AllRest /\ ~wiped => \A l \in lists : l.current /\ l.text # slate => dirtyAt # 0

(* "supersede the earlier one" (issue, candidate_list.py:83): some list stays *)
(* current once one was issued.                                               *)
SomeListCurrent == AllRest /\ lists # {} => \E l \in lists : l.current

(* Once the candidates settle, the current list comes to show them, unless    *)
(* there are none or a mark was wiped (maybe_issue; one sweep at a time).     *)
ListCatchesUp ==
    <>[](slate # "none" /\ ~wiped /\ Cardinality(lists) < MaxLists
           => \E l \in lists : l.current /\ l.text = slate)

(* The numbered lists stay in order, however many workers issue at once.      *)
ListsOrdered == OneCurrentList /\ NumbersDistinct
=============================================================================
