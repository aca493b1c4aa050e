--------------------------- MODULE ResultsRelease ---------------------------
(***************************************************************************)
(* Who is shown the tally, and when.  The organisation shows its results   *)
(* at once, from the close, or from certification; every server process    *)
(* decides by its own short-lived copies of the settings and answers from  *)
(* its own copy of the results, while administrators open, close, certify  *)
(* and change the rule on any of the processes.                            *)
(***************************************************************************)
EXTENDS Integers, FiniteSets

CONSTANTS
    Servers,        \* processes answering polls; administrators also write on others
    Polls,          \* requests under way at once
    SettingsTTL,    \* SETTINGS_CACHE_TTL_S, in steps of the clock
    ResultsTTL,     \* RESULTS_CACHE_TTL_S
    InWindow,       \* the voting window is not enforced, or running
    Kinds,          \* endpoints asked: "results", "band" (a candidate's link), "exact", "status"
    Modes,          \* values public_results_mode takes
    Seconds,        \* bound: of the clock
    BallotsCast,    \* bound: ballots
    Changes         \* bound: changes an administrator makes

Nowhere == "nowhere"
Elsewhere == "elsewhere"

ASSUME ReleaseAssumption ==
    /\ {SettingsTTL, ResultsTTL, Seconds} \subseteq Nat \ {0}
    /\ {BallotsCast, Changes} \subseteq Nat
    /\ InWindow \in BOOLEAN
    /\ Kinds \subseteq {"results", "band", "exact", "status"}
    /\ "live" \in Modes /\ Modes \subseteq {"live", "closed", "certified"}
    /\ {Nowhere, Elsewhere} \cap Servers = {}

VARIABLES
    moment,
    status,         \* election_config: "open", "closed" or "certified"
    mode,           \* public_results_mode
    ballots,        \* ballots in the box
    releaseSettings,       \* process -> document -> the copy it keeps
    results,        \* process -> key -> the answer it keeps
    polls,          \* Polls -> the request under way, or the last answered
    changed,        \* history: when the settings were last changed, and how often
    earlier         \* history: second -> ballots in the box when it began

releaseVars == <<moment, status, mode, ballots, releaseSettings, results, polls, changed, earlier>>

Documents == {"security", "config"}
Statuses == {"open", "closed", "certified"}
NoCopy == [value |-> "none", until |-> 0]
PollKeys == {"released", "withheld", "counts"}
NoAnswer == [tally |-> FALSE, turnout |-> 0, count |-> 0]
NoResult == [answer |-> NoAnswer, until |-> 0]

Answer == [tally : BOOLEAN, turnout : Nat, count : Nat]
Stages == {"idle", "security", "config", "turnout", "count", "store", "answered"}
Poll == [pc : Stages, at : Servers \cup {Nowhere}, kind : Kinds \cup {"none"}, admin : BOOLEAN,
         arrived : Nat, fetched : Modes \cup Statuses \cup {"none"}, mode : Modes \cup {"none"},
         released : BOOLEAN, answer : Answer]
NoPoll == [pc |-> "idle", at |-> Nowhere, kind |-> "none", admin |-> FALSE, arrived |-> 0,
           fetched |-> "none", mode |-> "none", released |-> FALSE, answer |-> NoAnswer]

ReleaseInit ==
    /\ moment = 1
    /\ status \in {"open", "closed"}
    /\ mode = "live"
    /\ ballots = 0
    /\ releaseSettings = [p \in Servers |-> [d \in Documents |-> NoCopy]]
    /\ results = [p \in Servers |-> [k \in PollKeys |-> NoResult]]
    /\ polls = [q \in Polls |-> NoPoll]
    /\ changed = [at |-> 0, times |-> 0]
    /\ earlier = [s \in 1 .. Seconds |-> 0]

Waiting(q) == polls[q].fetched # "none" \/ polls[q].pc \in {"count", "store"}

\* Bound: what the database was asked for is back, and kept, before the clock moves.  Copies that ran
\* out are dropped.
MomentPasses ==
    /\ moment < Seconds
    /\ \A q \in Polls : ~Waiting(q)
    /\ moment' = moment + 1
    /\ earlier' = [earlier EXCEPT ![moment + 1] = ballots]
    /\ releaseSettings' = [p \in Servers |-> [d \in Documents |->
                       IF releaseSettings[p][d].until \leq moment THEN NoCopy ELSE releaseSettings[p][d]]]
    /\ results' = [p \in Servers |-> [k \in PollKeys |->
                      IF results[p][k].until \leq moment THEN NoResult ELSE results[p][k]]]
    /\ UNCHANGED <<status, mode, ballots, polls, changed>>

-----------------------------------------------------------------------------
(* What the administrators and the voters do.                                *)

\* invalidate_settings: the copies on the process that wrote, and the results it keeps.
Forgets(p) ==
    IF p \in Servers
    THEN /\ releaseSettings' = [releaseSettings EXCEPT ![p] = [d \in Documents |-> NoCopy]]
         /\ results' = [results EXCEPT ![p] = [k \in PollKeys |-> NoResult]]
    ELSE UNCHANGED <<releaseSettings, results>>

Changing(p) ==
    /\ changed.times < Changes
    /\ changed' = [at |-> moment, times |-> changed.times + 1]
    /\ Forgets(p)
    /\ UNCHANGED <<moment, ballots, polls, earlier>>

\* Opened and closed by the switch, certified once closed, reopened only after that is revoked.
SetStatus(p, s) ==
    /\ s # status /\ (s = "closed" \/ status = "closed")
    /\ status' = s
    /\ Changing(p)
    /\ UNCHANGED mode

SetMode(p, m) ==
    /\ m # mode
    /\ mode' = m
    /\ Changing(p)
    /\ UNCHANGED status

\* The ballot reads the switch in the database, and marks the voter with it.
Cast ==
    /\ status = "open" /\ InWindow
    /\ ballots < BallotsCast
    /\ ballots' = ballots + 1
    /\ UNCHANGED <<moment, status, mode, releaseSettings, results, polls, changed, earlier>>

-----------------------------------------------------------------------------
(* A poll: the settings, each from its copy or the database, then the tally. *)

Asks(q, p, k, a, pc) ==
    /\ polls[q].pc \in {"idle", "answered"}
    /\ k \in Kinds
    /\ polls' = [polls EXCEPT ![q] = [NoPoll EXCEPT !.pc = pc, !.at = p, !.kind = k, !.admin = a,
                                                    !.arrived = moment, !.released = k = "exact"]]
    /\ UNCHANGED <<moment, status, mode, ballots, releaseSettings, results, changed, earlier>>

AskResults(q, p, a) == Asks(q, p, "results", a, "security")
AskBand(q, p) == Asks(q, p, "band", FALSE, "security")
AskStatus(q, p) == Asks(q, p, "status", FALSE, "security")

\* The report and the screens of the commission, the overseer and the analysts ask for no setting.
AskReport(q, p) == Asks(q, p, "exact", TRUE, "turnout")
AskStandings(q, p) == Asks(q, p, "exact", TRUE, "turnout")
AskDashboard(q, p) == Asks(q, p, "exact", TRUE, "turnout")
AskUndervote(q, p) == Asks(q, p, "exact", TRUE, "turnout")

Current(d) == IF d = "security" THEN mode ELSE status

\* Faulty: a copy is good once more.
FreshToo(c) == c.until \geq moment

Fresh(c) == c.until > moment

Ended(s) == s # "open" \/ ~InWindow

Released(m, s) ==
    \/ m = "live"
    \/ m = "closed" /\ (Ended(s) \/ s = "certified")
    \/ m = "certified" /\ s = "certified"

\* /election-results: an administrator always sees the tally.  The candidate's link: a rank while
\* voting is open or once certified, unless the results are public.  /election-status: no tally.
Decided(p, s) ==
    CASE p.kind = "results" -> p.admin \/ Released(p.mode, s)
      [] p.kind = "band" -> p.mode # "live" /\ (InWindow \/ s = "certified")
      [] OTHER -> FALSE

\* Faulty: one entry for everybody.
KeyOfAll(k, released) == IF k = "band" THEN "counts" ELSE "released"

KeyOf(k, released) ==
    IF k = "band" THEN "counts" ELSE IF released THEN "released" ELSE "withheld"

\* The second setting decides; an answer kept for such a caller is given at once.
Took(q, d, v) ==
    LET p == polls[q]
        yes == Decided(p, v)
        kept == results[p.at][KeyOf(p.kind, yes)]
        asks == p.kind = "results" \/ (p.kind = "band" /\ yes)
    IN  polls' = [polls EXCEPT ![q] =
          IF d = "config" /\ p.kind = "status" THEN NoPoll
          ELSE IF d = "security" THEN [p EXCEPT !.pc = "config", !.mode = v, !.fetched = "none"]
          ELSE [p EXCEPT !.pc = IF asks /\ ~Fresh(kept) THEN "turnout" ELSE "answered",
                         !.mode = "none", !.fetched = "none", !.released = yes,
                         !.answer = IF asks /\ Fresh(kept) THEN kept.answer ELSE NoAnswer]]

\* cached_setting: the copy while it is fresh ...
UseCopy(q, d) ==
    /\ polls[q].pc = d /\ polls[q].fetched = "none"
    /\ Fresh(releaseSettings[polls[q].at][d])
    /\ Took(q, d, releaseSettings[polls[q].at][d].value)
    /\ UNCHANGED <<moment, status, mode, ballots, releaseSettings, results, changed, earlier>>

\* ... the document otherwise, kept when it comes back; it may have been changed, and the copies
\* forgotten, in between.
Fetch(q, d) ==
    /\ polls[q].pc = d /\ polls[q].fetched = "none"
    /\ ~Fresh(releaseSettings[polls[q].at][d])
    /\ polls' = [polls EXCEPT ![q].fetched = Current(d)]
    /\ UNCHANGED <<moment, status, mode, ballots, releaseSettings, results, changed, earlier>>

Keep(q, d) ==
    /\ polls[q].pc = d /\ polls[q].fetched # "none"
    /\ releaseSettings' = [releaseSettings EXCEPT ![polls[q].at][d] =
                       [value |-> polls[q].fetched, until |-> moment + SettingsTTL]]
    /\ Took(q, d, polls[q].fetched)
    /\ UNCHANGED <<moment, status, mode, ballots, results, changed, earlier>>

\* Faulty: the votes first, the voters after them.
VotesFirst == <<"count", "turnout">>

\* Everywhere the voters who voted are counted first.
Order == <<"turnout", "count">>

CountFirst(q) ==
    /\ polls[q].pc = "turnout"
    /\ polls' = [polls EXCEPT ![q].pc = "count", ![q].answer[Order[1]] = ballots]
    /\ UNCHANGED <<moment, status, mode, ballots, releaseSettings, results, changed, earlier>>

CountSecond(q) ==
    /\ polls[q].pc = "count"
    /\ polls' = [polls EXCEPT ![q].pc = IF polls[q].kind = "exact" THEN "answered" ELSE "store",
                              ![q].answer = IF polls[q].released
                                            THEN [@ EXCEPT !.tally = TRUE, ![Order[2]] = ballots] ELSE @]
    /\ UNCHANGED <<moment, status, mode, ballots, releaseSettings, results, changed, earlier>>

\* Faulty: as long again.
KeptTwiceAsLong == moment + 2 * ResultsTTL

KeptUntil == moment + ResultsTTL

StoreAnswer(q) ==
    /\ polls[q].pc = "store"
    /\ results' = [results EXCEPT ![polls[q].at][KeyOf(polls[q].kind, polls[q].released)] =
                      [answer |-> polls[q].answer, until |-> KeptUntil]]
    /\ polls' = [polls EXCEPT ![q].pc = "answered"]
    /\ UNCHANGED <<moment, status, mode, ballots, releaseSettings, changed, earlier>>

ReleaseNext ==
    \/ MomentPasses
    \/ Cast
    \/ \E p \in Servers \cup {Elsewhere} :
        (\E s \in Statuses : SetStatus(p, s)) \/ (\E m \in Modes : SetMode(p, m))
    \/ \E q \in Polls :
        \/ \E p \in Servers :
            \/ \E a \in BOOLEAN : AskResults(q, p, a)
            \/ AskBand(q, p) \/ AskStatus(q, p)
            \/ AskReport(q, p) \/ AskStandings(q, p) \/ AskDashboard(q, p) \/ AskUndervote(q, p)
        \/ \E d \in Documents : UseCopy(q, d) \/ Fetch(q, d) \/ Keep(q, d)
        \/ CountFirst(q) \/ CountSecond(q) \/ StoreAnswer(q)

ReleaseSpec == ReleaseInit /\ [][ReleaseNext]_releaseVars

-----------------------------------------------------------------------------

ReleaseTypeOK ==
    /\ moment \in 1 .. Seconds /\ status \in Statuses /\ mode \in Modes
    /\ ballots \in 0 .. BallotsCast
    /\ \A p \in Servers, d \in Documents :
        releaseSettings[p][d] = NoCopy \/ releaseSettings[p][d].value \in IF d = "security" THEN Modes ELSE Statuses
    /\ \A p \in Servers, k \in PollKeys : results[p][k].answer \in Answer
    /\ polls \in [Polls -> Poll]
    /\ changed.at \in 0 .. moment /\ changed.times \in 0 .. Changes
    /\ earlier \in [1 .. Seconds -> 0 .. BallotsCast]

Answered(q) == polls[q].pc = "answered"

\* "other instances catch up within the TTL": a visitor who comes later than that after the last
\* change of the settings is shown the tally exactly when the rule in force says so.
RuleInForce ==
    \A q \in Polls :
        Answered(q) /\ polls[q].kind = "results" /\ ~polls[q].admin
                    /\ polls[q].arrived \geq changed.at + SettingsTTL
            => (polls[q].answer.tally <=> Released(mode, status))

\* "a gated visitor can never be served a payload built for a released one", an administrator's.
NoBorrowedTally ==
    \A q \in Polls : Answered(q) /\ polls[q].answer.tally => polls[q].released

\* "the TTL still bounds how stale it can be": who asks is shown no fewer votes than there were when
\* the answer kept for him could at the earliest have been counted.
TallyIsRecent ==
    \A q \in Polls :
        Answered(q) /\ polls[q].answer.tally /\ polls[q].arrived > ResultsTTL
            => polls[q].answer.count \geq earlier[polls[q].arrived - ResultsTTL]

\* The voters are counted before the votes everywhere: no answer has more voters than ballots.
TurnoutNotAhead ==
    \A q \in Polls : Answered(q) /\ polls[q].answer.tally => polls[q].answer.turnout \leq polls[q].answer.count

ReleaseSound == RuleInForce /\ NoBorrowedTally /\ TallyIsRecent /\ TurnoutNotAhead

\* "gated the same way /election-results gates the public breakdown": a candidate is told his rank
\* when the public may know the tally.  Not so: while voting is open.
BandIsGated ==
    \A q \in Polls :
        Answered(q) /\ polls[q].kind = "band" /\ polls[q].arrived \geq changed.at + SettingsTTL
            => (polls[q].released => Released(mode, status))

\* "an admin's change is visible at once on that instance": not when a read was on its way back.
VisibleAtOnce ==
    [][\A p \in Servers, d \in Documents :
         releaseSettings'[p][d] # releaseSettings[p][d] /\ releaseSettings'[p][d] # NoCopy
             => releaseSettings'[p][d].value = Current(d)]_releaseVars
=============================================================================
