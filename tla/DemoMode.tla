-------------------------------- MODULE DemoMode --------------------------------
(***************************************************************************)
(* The demo of an organisation (M:11611-11995).  While it is on, synthetic *)
(* voters, posts, panelists, applications and ballots live in the          *)
(* organisation's own collections, tagged is_demo, and the election's two  *)
(* settings documents are the demo's; the snapshot taken when it was       *)
(* switched on puts the organisation's own back.  Every collection is here *)
(* only through whether it holds tagged rows and whether it holds others.  *)
(***************************************************************************)
EXTENDS Integers, FiniteSets

CONSTANTS
    Hosts,          \* server processes, each with a settings cache of its own
    Superadmins,    \* people who run the demo
    Visitors,       \* requests of voters and applicants under way at once
    Visits,         \* bound: of such requests in all
    LastDay,        \* bound: of the clock
    MaxDays,        \* DEMO_MAX_DAYS
    DayChoices,     \* the days an enable or an extension asks for
    OwnChanges,     \* bound: changes the organisation makes to its own settings and roster
    Restarts        \* bound: of the server processes together

ASSUME DemoAssumption ==
    /\ DayChoices \subseteq 1 .. MaxDays /\ {MaxDays, Visits, OwnChanges, Restarts} \subseteq Nat
    /\ LastDay \in Nat \ {0}

VARIABLES
    today,          \* the clock, in days
    demo,           \* the demo_mode document
    settings,       \* the election_phases and election_config documents: whose they are
    demoRows,       \* the collections that hold rows tagged is_demo
    ownRows,        \* the collections that hold others
    reserved,       \* what the roster holds under the id of a demo role account
    cached,         \* host -> the demo_mode document as its cache holds it
    operations,     \* superadmin -> the operation under way
    visits,         \* visitor -> the request under way
    history         \* changes made, restarts had, and what went wrong beside the model's properties

demoVars == <<today, demo, settings, demoRows, ownRows, reserved, cached, operations, visits, history>>

Whose == {"own", "changed", "demo"}
Settings == [phases : Whose, config : Whose, certified : BOOLEAN]
OwnSettings == [phases |-> "own", config |-> "own", certified |-> FALSE]

Doc == [enabled : BOOLEAN, since : Nat, until : Nat, snapshot : Settings]
NoDemo == [enabled |-> FALSE, since |-> 0, until |-> 0, snapshot |-> OwnSettings]
NotCached == [NoDemo EXCEPT !.until = LastDay + MaxDays + 1]

Activity == {"applications", "votes"}
Tagged == Activity \cup {"voters", "positions", "panel", "candidates"}

NoOperation == [does |-> "nothing", pc |-> "idle", host |-> CHOOSE h \in Hosts : TRUE,
                days |-> 0, doc |-> NoDemo, taken |-> OwnSettings]
NoVisit == [pc |-> "idle", host |-> CHOOSE h \in Hosts : TRUE, doc |-> NoDemo]

DemoInit ==
    /\ today = 1
    /\ demo = NoDemo
    /\ settings = OwnSettings
    /\ demoRows = {}
    /\ \/ ownRows = {} /\ reserved = "free"               \* an organisation that has nothing yet,
       \/ ownRows = {"positions"} /\ reserved = "real"    \* or one with posts and a full roster
    /\ cached = [h \in Hosts |-> NotCached]
    /\ operations = [a \in Superadmins |-> NoOperation]
    /\ visits = [v \in Visitors |-> NoVisit]
    /\ history = [changes |-> 0, visits |-> 0, restarts |-> 0, fooled |-> FALSE, late |-> FALSE, lost |-> FALSE]

\* _demo_active, of the document a process believes in.
Active(doc) == doc.enabled /\ doc.until > today

Believed(h) == IF cached[h] = NotCached THEN demo ELSE cached[h]

Keeping(h) == cached' = [cached EXCEPT ![h] = Believed(h)]

Forgetting(h) == cached' = [cached EXCEPT ![h] = NotCached]

At(a, pc) == operations[a].pc = pc
Goes(a, pc) == operations' = [operations EXCEPT ![a].pc = pc]
Done(a) == operations' = [operations EXCEPT ![a] = NoOperation]
Ends(a, h) == Done(a) /\ Forgetting(h)

-----------------------------------------------------------------------------

\* A day is longer than the life of a cached setting and than a request.
NextDay ==
    /\ today < LastDay
    /\ \A v \in Visitors : visits[v].pc = "idle"
    /\ today' = today + 1
    /\ cached' = [h \in Hosts |-> NotCached]
    /\ UNCHANGED <<demo, settings, demoRows, ownRows, reserved, operations, visits, history>>

\* The organisation's own administrators set its schedule and its election, and certify it.
OwnChange ==
    /\ history.changes < OwnChanges
    /\ settings' \in {[settings EXCEPT !.phases = "changed"], [settings EXCEPT !.config = "changed"],
                      [settings EXCEPT !.certified = TRUE]}
    /\ history' = [history EXCEPT !.changes = @ + 1]
    /\ UNCHANGED <<today, demo, demoRows, ownRows, reserved, cached, operations, visits>>

Seeding(a) == operations[a].pc \in {"voters", "posts", "roles"}

\* They put a voter on the roster under a reserved id.
OwnVoter ==
    /\ history.changes < OwnChanges
    /\ reserved = "free" /\ "voters" \notin demoRows
    /\ reserved' = "real"
    /\ history' = [history EXCEPT !.changes = @ + 1, !.late = @ \/ \E a \in Superadmins : Seeding(a)]
    /\ UNCHANGED <<today, demo, settings, demoRows, ownRows, cached, operations, visits>>

\* An application or a ballot: whether it is tagged is asked before it is written.
Visit(v, h) ==
    /\ visits[v].pc = "idle" /\ history.visits < Visits
    /\ history' = [history EXCEPT !.visits = @ + 1]
    /\ visits' = [visits EXCEPT ![v] = [pc |-> IF cached[h] = NotCached THEN "asked" ELSE "told",
                                        host |-> h, doc |-> Believed(h)]]
    /\ UNCHANGED <<today, demo, settings, demoRows, ownRows, reserved, cached, operations>>

\* The answer of the database reaches the cache when it reaches the request.
VisitTold(v) ==
    /\ visits[v].pc = "asked"
    /\ cached' = [cached EXCEPT ![visits[v].host] = visits[v].doc]
    /\ visits' = [visits EXCEPT ![v].pc = "told"]
    /\ UNCHANGED <<today, demo, settings, demoRows, ownRows, reserved, operations, history>>

VisitWrites(v) ==
    /\ visits[v].pc = "told"
    /\ \E kind \in Activity :
         IF Active(visits[v].doc)
         THEN demoRows' = demoRows \cup {kind} /\ UNCHANGED ownRows
         ELSE ownRows' = ownRows \cup {kind} /\ UNCHANGED demoRows
    /\ visits' = [visits EXCEPT ![v] = NoVisit]
    /\ UNCHANGED <<today, demo, settings, reserved, cached, operations, history>>

VisitLeaves(v) ==
    /\ visits[v].pc = "told"
    /\ visits' = [visits EXCEPT ![v] = NoVisit]
    /\ UNCHANGED <<today, demo, settings, demoRows, ownRows, reserved, cached, operations, history>>

\* A process goes down: what it was doing stays half done.
Restart(h) ==
    /\ history.restarts < Restarts
    /\ history' = [history EXCEPT !.restarts = @ + 1]
    /\ Forgetting(h)
    /\ operations' = [a \in Superadmins |-> IF operations[a].host = h THEN NoOperation ELSE operations[a]]
    /\ visits' = [v \in Visitors |-> IF visits[v].host = h THEN NoVisit ELSE visits[v]]
    /\ UNCHANGED <<today, demo, settings, demoRows, ownRows, reserved>>

-----------------------------------------------------------------------------

\* The demo is off as this process believes.  One that has expired is cleaned up first.
AskEnable(a, h, days) ==
    /\ At(a, "idle")
    /\ ~Active(Believed(h))
    /\ LET doc == Believed(h)
       IN  operations' = [operations EXCEPT ![a] =
             [NoOperation EXCEPT !.does = "enable", !.host = h, !.days = days, !.doc = doc,
                                 !.pc = IF doc.enabled THEN "delete" ELSE "count"]]
    /\ Keeping(h)
    /\ history' = [history EXCEPT !.fooled = @ \/ Active(demo)]
    /\ UNCHANGED <<today, demo, settings, demoRows, ownRows, reserved, visits>>

CountActivity(a) ==
    /\ At(a, "count")
    /\ IF (demoRows \cup ownRows) \cap Activity # {} \/ settings.certified
       THEN Done(a)
       ELSE Goes(a, "snapshot")
    /\ UNCHANGED <<today, demo, settings, demoRows, ownRows, reserved, cached, visits, history>>

TakeSnapshot(a) ==
    /\ At(a, "snapshot")
    /\ operations' = [operations EXCEPT ![a].pc = "switch", ![a].taken = settings]
    /\ UNCHANGED <<today, demo, settings, demoRows, ownRows, reserved, cached, visits, history>>

SwitchOn(a) ==
    /\ At(a, "switch")
    /\ demo' = [enabled |-> TRUE, since |-> today, until |-> today + operations[a].days,
                snapshot |-> operations[a].taken]
    /\ Ends(a, operations[a].host)
    /\ UNCHANGED <<today, settings, demoRows, ownRows, reserved, visits, history>>

\* _demo_require_active: whether it is on comes from the cache, the document from the database.
EnterDemo(a, h, does, pc) ==
    /\ At(a, "idle")
    /\ Active(Believed(h))
    /\ operations' = [operations EXCEPT ![a] =
         [NoOperation EXCEPT !.does = does, !.host = h, !.pc = pc,
                             !.doc = IF does \in {"seed", "phase"} THEN NoDemo ELSE demo]]
    /\ Keeping(h)
    /\ history' = [history EXCEPT !.fooled = @ \/ ~demo.enabled]
    /\ UNCHANGED <<today, demo, settings, demoRows, ownRows, reserved, visits>>

Ask(a, h) ==
    \/ EnterDemo(a, h, "extend", "extend")
    \/ EnterDemo(a, h, "seed", "check")
    \/ EnterDemo(a, h, "phase", "schedule")
    \/ EnterDemo(a, h, "voting", "check")
    \/ EnterDemo(a, h, "reset", "delete")
    \/ EnterDemo(a, h, "disable", "delete")

Later(x, y) == IF x > y THEN x ELSE y

\* Faulty: the days still allowed are counted from the day of the extension.
WithinCapFromToday(doc, until) == until <= today + MaxDays

WithinCap(doc, until) == until <= doc.since + MaxDays

ExtendDemo(a, days) ==
    /\ At(a, "extend")
    /\ LET until == Later(operations[a].doc.until, today) + days
       IN  IF WithinCap(operations[a].doc, until)
           THEN demo' = [demo EXCEPT !.until = until] /\ Ends(a, operations[a].host)
           ELSE Done(a) /\ UNCHANGED <<demo, cached>>
    /\ UNCHANGED <<today, settings, demoRows, ownRows, reserved, visits, history>>

-----------------------------------------------------------------------------

\* Faulty: whoever stands under a reserved id is taken for a demo voter.
NoCollisionAssumed == TRUE

NoCollision == reserved # "real"

CheckReserved(a) ==
    /\ At(a, "check")
    /\ IF NoCollision THEN Goes(a, "voters") ELSE Done(a)
    /\ UNCHANGED <<today, demo, settings, demoRows, ownRows, reserved, cached, visits, history>>

AddVoters(a) ==
    /\ At(a, "voters")
    /\ demoRows' = demoRows \cup {"voters"}
    /\ Goes(a, "posts")
    /\ UNCHANGED <<today, demo, settings, ownRows, reserved, cached, visits, history>>

\* Sample posts only where the organisation has none.
AddPosts(a) ==
    /\ At(a, "posts")
    /\ demoRows' = demoRows \cup ({"positions"} \ ownRows)
    /\ Goes(a, "roles")
    /\ UNCHANGED <<today, demo, settings, ownRows, reserved, cached, visits, history>>

\* The role goes to whoever has the id now, and the tag with it.
AssignRoles(a) ==
    /\ At(a, "roles")
    /\ reserved' = IF reserved = "real" THEN "taken" ELSE reserved
    /\ Goes(a, "panel")
    /\ UNCHANGED <<today, demo, settings, demoRows, ownRows, cached, visits, history>>

AddPanel(a) ==
    /\ At(a, "panel")
    /\ demoRows' = demoRows \cup {"panel"}
    /\ Goes(a, "credentials")
    /\ UNCHANGED <<today, demo, settings, ownRows, reserved, cached, visits, history>>

SaveCredentials(a) ==
    /\ At(a, "credentials")
    /\ Goes(a, "applications")
    /\ Forgetting(operations[a].host)
    /\ UNCHANGED <<today, demo, settings, demoRows, ownRows, reserved, visits, history>>

\* Four samples, unless a tagged application is there already.
AddApplications(a) ==
    /\ At(a, "applications")
    /\ demoRows' = demoRows \cup {"applications"}
    /\ IF operations[a].does = "seed" THEN Done(a) ELSE Goes(a, "resolve")
    /\ UNCHANGED <<today, demo, settings, ownRows, reserved, cached, visits, history>>

\* _demo_prepare_for_voting: three panelists vote the samples through; their own accounts end with the demo.
Resolve(a) ==
    /\ At(a, "resolve")
    /\ IF {"panel", "voters"} \subseteq demoRows /\ operations[a].doc.until > today
       THEN /\ demoRows' = demoRows \cup (IF "applications" \in demoRows THEN {"candidates"} ELSE {})
            /\ Goes(a, "schedule")
       ELSE Done(a) /\ UNCHANGED demoRows
    /\ UNCHANGED <<today, demo, settings, ownRows, reserved, cached, visits, history>>

WriteSchedule(a) ==
    /\ At(a, "schedule")
    /\ settings' = [settings EXCEPT !.phases = "demo"]
    /\ Goes(a, "gate")
    /\ UNCHANGED <<today, demo, demoRows, ownRows, reserved, cached, visits, history>>

WriteGate(a) ==
    /\ At(a, "gate")
    /\ settings' = [settings EXCEPT !.config = "demo"]
    /\ Done(a)
    /\ UNCHANGED <<today, demo, demoRows, ownRows, reserved, cached, visits, history>>

-----------------------------------------------------------------------------

\* _demo_fenced_reset: every tagged row goes, a voter the seed has tagged with them.
DeleteTagged(a) ==
    /\ At(a, "delete")
    /\ \E gone \in {demoRows \cap {"voters", "positions"}, demoRows} :
         /\ demoRows' = demoRows \ gone
         /\ reserved' = IF reserved = "taken" /\ "voters" \in gone THEN "free" ELSE reserved
         /\ history' = [history EXCEPT !.lost = @ \/ reserved # reserved']
         /\ IF gone = demoRows THEN Goes(a, "phases") ELSE UNCHANGED operations
    /\ UNCHANGED <<today, demo, settings, ownRows, cached, visits>>

RestorePhases(a) ==
    /\ At(a, "phases")
    /\ settings' = [settings EXCEPT !.phases = operations[a].doc.snapshot.phases]
    /\ Goes(a, "config")
    /\ UNCHANGED <<today, demo, demoRows, ownRows, reserved, cached, visits, history>>

\* The whole document is replaced: a certificate given since goes with it.
RestoreConfig(a) ==
    /\ At(a, "config")
    /\ settings' = [settings EXCEPT !.config = operations[a].doc.snapshot.config,
                                    !.certified = operations[a].doc.snapshot.certified]
    /\ Goes(a, "last")
    /\ Forgetting(operations[a].host)
    /\ UNCHANGED <<today, demo, demoRows, ownRows, reserved, visits, history>>

\* Faulty: the demo is switched off before its rows and settings are gone.
OffAtOnce(a) == At(a, "delete") \/ At(a, "last")

OffNow(a) == At(a, "last")

\* A reset leaves the demo on and drops its passwords; the others switch it off.
LastWrite(a) ==
    /\ OffNow(a)
    /\ demo' = IF operations[a].does = "reset" THEN demo
               ELSE [demo EXCEPT !.enabled = FALSE, !.until = today]
    /\ Forgetting(operations[a].host)
    /\ IF operations[a].does = "enable" THEN Goes(a, "count") ELSE Done(a)
    /\ UNCHANGED <<today, settings, demoRows, ownRows, reserved, visits, history>>

DemoNext ==
    \/ NextDay \/ OwnChange \/ OwnVoter
    \/ \E v \in Visitors : VisitTold(v) \/ VisitWrites(v) \/ VisitLeaves(v) \/ \E h \in Hosts : Visit(v, h)
    \/ \E h \in Hosts : Restart(h)
    \/ \E a \in Superadmins :
         \/ \E h \in Hosts : Ask(a, h) \/ \E days \in DayChoices : AskEnable(a, h, days)
         \/ CountActivity(a) \/ TakeSnapshot(a) \/ SwitchOn(a)
         \/ \E days \in DayChoices : ExtendDemo(a, days)
         \/ CheckReserved(a) \/ AddVoters(a) \/ AddPosts(a) \/ AssignRoles(a) \/ AddPanel(a)
         \/ SaveCredentials(a) \/ AddApplications(a) \/ Resolve(a) \/ WriteSchedule(a) \/ WriteGate(a)
         \/ DeleteTagged(a) \/ RestorePhases(a) \/ RestoreConfig(a) \/ LastWrite(a)

DemoSpec == DemoInit /\ [][DemoNext]_demoVars

-----------------------------------------------------------------------------

DemoTypeOK ==
    /\ today \in 1 .. LastDay
    /\ demo \in Doc /\ settings \in Settings
    /\ demoRows \subseteq Tagged /\ ownRows \subseteq Activity \cup {"positions"}
    /\ reserved \in {"free", "real", "taken"}
    /\ cached \in [Hosts -> Doc]
    /\ \A a \in Superadmins : operations[a].doc \in Doc /\ operations[a].taken \in Settings
    /\ \A v \in Visitors : visits[v].doc \in Doc

\* Once the demo is off nothing of it is in force: the settings are the organisation's, and the only
\* tagged rows are those of requests that were under way.  A restart half way through does not change that.
OffIsClean ==
    ~demo.enabled => /\ "demo" \notin {settings.phases, settings.config}
                     /\ demoRows \subseteq Activity

\* A voter the organisation entered is deleted by no reset, unless entered while the demo was being seeded.
OwnVotersKept == history.lost => history.late

\* "Demo mode cannot run for more than 14 days from enablement", however it is extended.
DemoIsShort == demo.enabled => demo.until \leq demo.since + MaxDays

\* OffIsClean supposes that no operation was let in by a cached document the database had left behind.
DemoSound == OwnVotersKept /\ DemoIsShort /\ (history.fooled \/ OffIsClean)

\* An operation on a demo that is off is refused.  (Not so: a read on its way back restores the old answer.)
RefusedWhenOff == ~history.fooled

\* What the organisation set after an expired demo stays.  (Not so: the clean-up of the next enable undoes it.)
OwnSettingsKept ==
    [][\A a \in Superadmins : At(a, "phases") /\ operations[a].does = "enable" =>
          settings'.phases = settings.phases \/ settings.phases = "demo"]_demoVars
=============================================================================
