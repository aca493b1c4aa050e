----------------------------- MODULE ApplicationEdits -----------------------------
(***************************************************************************)
(* Correcting an application after the fact, and voting an approved        *)
(* candidate off the ballot (M:7660-7702, 8752-8947, 2803-2850).  One      *)
(* application is followed; another of the same round has the student id   *)
(* and the post it must not collide with.                                  *)
(***************************************************************************)
EXTENDS Integers, Sequences, FiniteSets

CONSTANTS
    Editors,        \* superadmins correcting the application
    Members,        \* commissioners
    Ids,            \* student ids of the register the name may belong to
    Posts,          \* election positions
    TakenId,        \* whose the other application is
    TakenPost,      \* and for which post
    Corrections,    \* bound: on edits asked for
    Decisions,      \* bound: on approvals, reversals and links sent again
    RemovalVotes    \* bound: on votes to remove

ASSUME EditsAssumption == TakenId \in Ids /\ TakenPost \in Posts /\ {Corrections, Decisions, RemovalVotes} \subseteq Nat

VARIABLES
    app,            \* the application: whose, for which post, its status
    entry,          \* the ballot entry: whether it is there, and its post
    cast,           \* ballots for the entry
    edits,          \* editor -> the edit under way
    removal,        \* app.removal_votes: member -> the vote stored
    members,        \* member -> the removal vote under way
    links,          \* student ids with a live status link
    resend,         \* whose link is being sent again, {} between two
    seen            \* history: changes of id in edit_history, removals logged since the approval, bounds used

editVars == <<app, entry, cast, edits, removal, members, links, resend, seen>>

App == [id : Ids, post : Posts, status : {"pending", "approved", "removed"}]

NoEdit == [pc |-> "idle"]
NoVote == [pc |-> "idle", choice |-> "none"]

EditsInit ==
    /\ app \in {[id |-> i, post |-> p, status |-> s] :
               i \in Ids \ {TakenId}, p \in Posts \ {TakenPost}, s \in {"pending", "approved"}}
    /\ entry = [there |-> app.status = "approved", post |-> app.post]
    /\ cast = 0
    /\ edits = [e \in Editors |-> NoEdit]
    /\ removal = [m \in Members |-> "none"]
    /\ members = [m \in Members |-> NoVote]
    /\ links = {app.id}
    /\ resend = {}
    /\ seen = [chain |-> <<>>, corrections |-> 0, decisions |-> 0, removals |-> 0, votes |-> 0]

-----------------------------------------------------------------------------

\* Force-approval, of a removed candidate's application too; flip and entry in one: how they come
\* apart is Vetting's subject.
Approve ==
    /\ app.status # "approved" /\ seen.decisions < Decisions
    /\ app' = [app EXCEPT !.status = "approved"]
    /\ entry' = [there |-> TRUE, post |-> app.post]
    /\ cast' = 0
    /\ seen' = [seen EXCEPT !.decisions = @ + 1, !.removals = 0]
    /\ UNCHANGED <<edits, removal, members, links, resend>>

\* Sent back to pending while nobody has voted for the entry.
RevertToPending ==
    /\ app.status = "approved" /\ cast = 0 /\ seen.decisions < Decisions
    /\ app' = [app EXCEPT !.status = "pending"]
    /\ entry' = [entry EXCEPT !.there = FALSE]
    /\ removal' = [m \in Members |-> "none"]
    /\ seen' = [seen EXCEPT !.decisions = @ + 1]
    /\ UNCHANGED <<cast, edits, members, links, resend>>

CastBallot ==
    /\ entry.there /\ cast = 0
    /\ cast' = 1
    /\ UNCHANGED <<app, entry, edits, removal, members, links, resend, seen>>

\* resend_candidate_status_link: whose application it is is read before the link is found or made.
AskLink ==
    /\ resend = {} /\ seen.decisions < Decisions
    /\ resend' = {app.id}
    /\ seen' = [seen EXCEPT !.decisions = @ + 1]
    /\ UNCHANGED <<app, entry, cast, edits, removal, members, links>>

ResendLink ==
    /\ resend # {}
    /\ links' = links \cup resend
    /\ resend' = {}
    /\ UNCHANGED <<app, entry, cast, edits, removal, members, seen>>

-----------------------------------------------------------------------------

AtEdit(e, pc) == edits[e].pc = pc
EndEdit(e) == edits' = [edits EXCEPT ![e] = NoEdit]

\* The application is read, and something in it is to change.
ReadForEdit(e) ==
    /\ AtEdit(e, "idle") /\ seen.corrections < Corrections
    /\ \E i \in Ids, p \in Posts :
         /\ i # app.id \/ p # app.post
         /\ edits' = [edits EXCEPT ![e] = [pc |-> "clash", read |-> app, entry |-> FALSE,
                                           want |-> [app EXCEPT !.id = i, !.post = p]]]
    /\ seen' = [seen EXCEPT !.corrections = @ + 1]
    /\ UNCHANGED <<app, entry, cast, removal, members, links, resend>>

CheckClash(e) ==
    /\ AtEdit(e, "clash")
    /\ edits' = [edits EXCEPT ![e] =
         IF <<edits[e].want.id, edits[e].want.post>> = <<TakenId, TakenPost>> THEN NoEdit
         ELSE [edits[e] EXCEPT !.pc = IF edits[e].read.status = "approved" THEN "ballots" ELSE "write"]]
    /\ UNCHANGED <<app, entry, cast, removal, members, links, resend, seen>>

\* The post stays once somebody has voted for the entry.
MayMove(e) == entry.there /\ edits[e].want.post # edits[e].read.post => cast = 0

CountBallots(e) ==
    /\ AtEdit(e, "ballots")
    /\ edits' = [edits EXCEPT ![e] =
         IF MayMove(e) THEN [edits[e] EXCEPT !.pc = "write", !.entry = entry.there] ELSE NoEdit]
    /\ UNCHANGED <<app, entry, cast, removal, members, links, resend, seen>>

\* Faulty: whose application it is may have changed since it was read.
UnchangedStatus(e) == app.status = edits[e].read.status

Unchanged(e) == app.id = edits[e].read.id /\ app.status = edits[e].read.status

\* Only what differs from the reading is set; the change of id is pushed on edit_history with its old value.
SaveEdit(e) ==
    /\ AtEdit(e, "write")
    /\ LET read == edits[e].read
           want == edits[e].want
       IN  IF Unchanged(e)
           THEN /\ app' = [app EXCEPT !.id = IF want.id # read.id THEN want.id ELSE @,
                                      !.post = IF want.post # read.post THEN want.post ELSE @]
                /\ seen' = [seen EXCEPT !.chain = IF want.id # read.id THEN Append(@, <<read.id, want.id>>) ELSE @]
                /\ edits' = [edits EXCEPT ![e].pc = "entry"]
           ELSE EndEdit(e) /\ UNCHANGED <<app, seen>>
    /\ UNCHANGED <<entry, cast, removal, members, links, resend>>

\* "keep the ballot entry in step with the corrected application": the entry found before the write.
MoveEntry(e) ==
    /\ AtEdit(e, "entry")
    /\ entry' = IF edits[e].entry /\ entry.there /\ edits[e].want.post # edits[e].read.post
                THEN [entry EXCEPT !.post = edits[e].want.post] ELSE entry
    /\ edits' = [edits EXCEPT ![e].pc = "links"]
    /\ UNCHANGED <<app, cast, removal, members, links, resend, seen>>

\* The old id's links move to the new one, revoked.
RevokeLinks(e) ==
    /\ AtEdit(e, "links")
    /\ links' = IF edits[e].want.id # edits[e].read.id THEN links \ {edits[e].read.id} ELSE links
    /\ EndEdit(e)
    /\ UNCHANGED <<app, entry, cast, removal, members, resend, seen>>

-----------------------------------------------------------------------------

\* commissioner_vote_remove: the status is looked at before the vote is stored, and not again.
VoteToRemove(m) ==
    /\ members[m].pc = "idle" /\ app.status = "approved" /\ seen.votes < RemovalVotes
    /\ \E choice \in {"approve", "deny"} :
         members' = [members EXCEPT ![m] = [NoVote EXCEPT !.pc = "store", !.choice = choice]]
    /\ seen' = [seen EXCEPT !.votes = @ + 1]
    /\ UNCHANGED <<app, entry, cast, edits, removal, links, resend>>

StoreVote(m) ==
    /\ members[m].pc = "store"
    /\ removal' = [removal EXCEPT ![m] = members[m].choice]
    /\ members' = [members EXCEPT ![m].pc = "tally"]
    /\ UNCHANGED <<app, entry, cast, edits, links, resend, seen>>

\* The policy of a majority of all commissioners; the others are Vetting's subject.
Majority == 2 * Cardinality({m \in Members : removal[m] = "approve"}) > Cardinality(Members)

TallyRemoval(m) ==
    /\ members[m].pc = "tally"
    /\ members' = [members EXCEPT ![m] =
         IF Majority THEN [members[m] EXCEPT !.pc = "remove"] ELSE NoVote]
    /\ UNCHANGED <<app, entry, cast, edits, removal, links, resend, seen>>

\* Faulty: the entry is taken off again by every vote that finds the majority.
StillApprovedAnyway == TRUE

StillApproved == app.status = "approved"

RemoveCandidate(m) ==
    /\ members[m].pc = "remove"
    /\ IF StillApproved
       THEN /\ app' = [app EXCEPT !.status = "removed"]
            /\ removal' = [k \in Members |-> "none"]
            /\ entry' = [entry EXCEPT !.there = FALSE]
            /\ seen' = [seen EXCEPT !.removals = @ + 1]
       ELSE UNCHANGED <<app, removal, entry, seen>>
    /\ members' = [members EXCEPT ![m] = NoVote]
    /\ UNCHANGED <<cast, edits, links, resend>>

EditsNext ==
    \/ Approve \/ RevertToPending \/ CastBallot \/ AskLink \/ ResendLink
    \/ \E e \in Editors : ReadForEdit(e) \/ CheckClash(e) \/ CountBallots(e) \/ SaveEdit(e)
                          \/ MoveEntry(e) \/ RevokeLinks(e)
    \/ \E m \in Members : VoteToRemove(m) \/ StoreVote(m) \/ TallyRemoval(m) \/ RemoveCandidate(m)

EditsSpec == EditsInit /\ [][EditsNext]_editVars

-----------------------------------------------------------------------------

EditsTypeOK ==
    /\ app \in App /\ entry \in [there : BOOLEAN, post : Posts] /\ cast \in 0 .. 1
    /\ \A e \in Editors : AtEdit(e, "idle") \/ (edits[e].read \in App /\ edits[e].want \in App)
    /\ removal \in [Members -> {"none", "approve", "deny"}]
    /\ links \subseteq Ids /\ resend \subseteq Ids

\* edit_history tells, whoever edits at the same time, through whose hands the application went: each
\* change of id starts from the id the one before it left, and the last one left the id it has.
IdentityIsChained ==
    LET chain == seen.chain
    IN  /\ \A i \in 1 .. Len(chain) - 1 : chain[i][2] = chain[i + 1][1]
        /\ chain # <<>> => chain[Len(chain)][2] = app.id

\* Two commissioners whose votes both find the majority take the candidate off the ballot, revoke the
\* certificate and log the removal once for each approval.
RemovedOnce == seen.removals <= 1

EditsSound == IdentityIsChained /\ RemovedOnce

\* "keep the ballot entry in step with the corrected application".  (Not so with two editors: the later
\* write to the application may be the earlier one to the entry.)
EntryInStep ==
    entry.there /\ (\A e \in Editors : edits[e].pc = "idle") => entry.post = app.post

\* "the applicant's old status links are revoked".  (Not so: a link asked for before an edit may be made after it.)
OldLinksRevoked == resend = {} /\ (\A e \in Editors : edits[e].pc = "idle") => links \subseteq {app.id}
=============================================================================
