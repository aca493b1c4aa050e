----------------------------- MODULE MonitorSchedule -----------------------------
(***************************************************************************)
(* What hangs on the clock in a scheduled backup (backup.py 697-804,       *)
(* backup_admin_routes.py 145-300, alerts.py): the call every fifteen      *)
(* minutes, the mirror that is synchronised on some calls only, the        *)
(* monitoring sample taken on some, and the mails about what they find.    *)
(* Times are kept as ages, in ticks of some minutes, capped where nothing  *)
(* tells them apart any more; so the clock needs no bound.                 *)
(***************************************************************************)
EXTENDS Integers

CONSTANTS
    CallEvery,      \* ticks between two incremental calls, give or take one
    RunTicks,       \* ticks a run may last
    ProbeGap,       \* PROBE_INCR_MIN_GAP_MIN
    MirrorGap,      \* MIRROR_INCR_MIN_GAP_MIN
    LeastGap,       \* the least gap a small lag limit leaves: five minutes
    LagLimits,      \* mirror_lag_active_minutes: the values the configuration may have
    SampleLimit,    \* the age of a sample at which the panel says sampling has stopped: 45 minutes
    SilentLimit,    \* the silence of the scheduler that is worth a mail: 45 minutes
    Debounce,       \* samples in a row that must agree before a mail
    Cooldown,       \* between two mails about one thing
    Disturbances    \* bound: calls missed, processes restarted, syncs that fail, daily and weekly runs

ASSUME MonitorAssumption ==
    /\ {CallEvery, RunTicks, ProbeGap, MirrorGap, LeastGap, SampleLimit, SilentLimit,
        Debounce, Cooldown, Disturbances} \subseteq Nat
    /\ LagLimits \subseteq Nat

VARIABLES
    ages,           \* of the last call, last_incr, the mirror, the newest sample, both stamps and the last mail
    lagLimit,       \* the configured limit of the mirror's lag
    service,        \* the state of the service that is probed
    streak,         \* newest samples in a row that found it down
    fullRun,            \* the scheduled run under way: its mode, where it stands, since when, what it found
    test,           \* an administrator's own test of the connections
    marred          \* history: disturbances so far, and the mails that were wrong

monitorVars == <<ages, lagLimit, service, streak, fullRun, test, marred>>

Cap == [call |-> CallEvery + 1, incr |-> SilentLimit + 1, mirror |-> MirrorGap + SilentLimit,
        sample |-> SampleLimit + 1, stored |-> Cooldown, memory |-> Cooldown, mail |-> Cooldown]

Clocks == DOMAIN Cap

NoFullRun == [pc |-> "idle", mode |-> "incr", ticks |-> 0, down |-> FALSE]
NoTest == [pc |-> "idle", down |-> FALSE]

MonitorInit ==
    /\ ages = [c \in Clocks |-> IF c \in {"stored", "memory", "mail"} THEN Cooldown ELSE 0]
    /\ lagLimit \in LagLimits
    /\ service = "ok"
    /\ streak = 0
    /\ fullRun = NoFullRun
    /\ test = NoTest
    /\ marred = [count |-> 0, missed |-> FALSE, synced |-> TRUE, busy |-> FALSE, falseSilence |-> FALSE, storm |-> FALSE]

Fresh(clock) == ages' = [ages EXCEPT ![clock] = 0]

Mar(field) == /\ marred.count < Disturbances
              /\ marred' = [marred EXCEPT !.count = @ + 1, ![field] = (field = "missed")]

-----------------------------------------------------------------------------

\* A tick passes.  A test, and the way from the look at the stamps to the mail, take seconds.
MonitorCall ==
    /\ test.pc = "idle" /\ fullRun.pc \notin {"stamp", "send"}
    /\ ages' = [c \in Clocks |-> IF ages[c] < Cap[c] THEN ages[c] + 1 ELSE ages[c]]

\* The scheduler is on time, and a run ends in time, unless something is marred.
PassTime ==
    /\ MonitorCall
    /\ ages.call <= CallEvery
    /\ fullRun.pc = "idle" \/ fullRun.ticks < RunTicks
    /\ fullRun' = IF fullRun.pc = "idle" THEN fullRun ELSE [fullRun EXCEPT !.ticks = @ + 1]
    /\ UNCHANGED <<lagLimit, service, streak, test, marred>>

ServiceTurns ==
    /\ service' = IF service = "ok" THEN "down" ELSE "ok"
    /\ UNCHANGED <<ages, lagLimit, streak, fullRun, test, marred>>

\* The call does not come.
MissCall ==
    /\ ages.call > CallEvery
    /\ Mar("missed")
    /\ MonitorCall
    /\ UNCHANGED <<lagLimit, service, streak, fullRun, test>>

\* What a process keeps in memory goes with it; what a run has not done stays undone.
RestartProcess ==
    /\ Mar("missed")
    /\ ages' = [ages EXCEPT !["memory"] = Cooldown]
    /\ fullRun' = NoFullRun /\ test' = NoTest
    /\ UNCHANGED <<lagLimit, service, streak>>

-----------------------------------------------------------------------------

\* /internal/backup/run.  One run at a time: a call that finds one under way is turned back.
CallIncr ==
    /\ ages.call >= CallEvery - 1
    /\ Fresh("call")
    /\ IF fullRun.pc = "idle"
       THEN /\ fullRun' = [NoFullRun EXCEPT !.pc = "tenants"]
            /\ marred' = [marred EXCEPT !.falseSilence =
                 @ \/ (ages.incr > SilentLimit /\ ~marred.missed /\ ~marred.busy)]
       ELSE marred' = [marred EXCEPT !.busy = TRUE] /\ UNCHANGED fullRun
    /\ UNCHANGED <<lagLimit, service, streak, test>>

\* The daily and the weekly run: neither looks for silence nor ends one.
CallFull ==
    /\ fullRun.pc = "idle"
    /\ marred.count < Disturbances
    /\ marred' = [marred EXCEPT !.count = @ + 1]
    /\ fullRun' = [NoFullRun EXCEPT !.pc = "tenants", !.mode = "full"]
    /\ UNCHANGED <<ages, lagLimit, service, streak, test>>

\* Faulty: a run that failed for a tenant is not counted as one.
MarksRunClean(failed) == fullRun.mode = "incr" /\ ~failed

\* A tenant's failure is recorded and mailed, and the run goes on.
MarksRun(failed) == fullRun.mode = "incr"

BackUpTenants ==
    /\ fullRun.pc = "tenants"
    /\ \E failed \in BOOLEAN :
         IF MarksRun(failed)
         THEN Fresh("incr") /\ marred' = [marred EXCEPT !.busy = FALSE]
         ELSE UNCHANGED <<ages, marred>>
    /\ fullRun' = [fullRun EXCEPT !.pc = "mirror"]
    /\ UNCHANGED <<lagLimit, service, streak, test>>

\* Faulty: a whole gap must have gone by.
RecentWhole(age, gap) == age < gap

\* _recent: "younger than 80% of gap_min (jitter must not skip a whole cycle)".
Recent(age, gap) == 10 * age < 8 * gap

Smaller(x, y) == IF x < y THEN x ELSE y
Larger(x, y) == IF x > y THEN x ELSE y

\* Faulty: the mirror may be as old as the limit before it is synchronised again.
MirrorWaitWhole == Smaller(MirrorGap, Larger(LeastGap, lagLimit))

MirrorWait == Smaller(MirrorGap, Larger(LeastGap, lagLimit \div 2))

SkipMirror ==
    /\ fullRun.pc = "mirror"
    /\ fullRun.mode = "incr" /\ Recent(ages.mirror, MirrorWait)
    /\ fullRun' = [fullRun EXCEPT !.pc = "sample"]
    /\ UNCHANGED <<ages, lagLimit, service, streak, test, marred>>

SyncMirror ==
    /\ fullRun.pc = "mirror"
    /\ ~(fullRun.mode = "incr" /\ Recent(ages.mirror, MirrorWait))
    /\ \/ Fresh("mirror") /\ UNCHANGED marred
       \/ Mar("synced") /\ UNCHANGED ages
    /\ fullRun' = [fullRun EXCEPT !.pc = "sample"]
    /\ UNCHANGED <<lagLimit, service, streak, test>>

SkipSample ==
    /\ fullRun.pc = "sample"
    /\ fullRun.mode = "incr" /\ Recent(ages.sample, ProbeGap)
    /\ fullRun' = NoFullRun
    /\ UNCHANGED <<ages, lagLimit, service, streak, test, marred>>

ProbeNow ==
    /\ fullRun.pc = "sample"
    /\ ~(fullRun.mode = "incr" /\ Recent(ages.sample, ProbeGap))
    /\ fullRun' = [fullRun EXCEPT !.pc = "write", !.down = (service = "down")]
    /\ UNCHANGED <<ages, lagLimit, service, streak, test, marred>>

AskTest ==
    /\ test.pc = "idle"
    /\ test' = [pc |-> "write", down |-> (service = "down")]
    /\ UNCHANGED <<ages, lagLimit, service, streak, fullRun, marred>>

\* write_probe_sample.
Sampled(down) ==
    /\ Fresh("sample")
    /\ streak' = IF down THEN Smaller(streak + 1, Debounce) ELSE 0

WriteSample ==
    /\ fullRun.pc = "write"
    /\ Sampled(fullRun.down)
    /\ fullRun' = [fullRun EXCEPT !.pc = "alerts"]
    /\ UNCHANGED <<lagLimit, service, test, marred>>

WriteTestSample ==
    /\ test.pc = "write"
    /\ Sampled(test.down)
    /\ test' = [test EXCEPT !.pc = "alerts"]
    /\ UNCHANGED <<lagLimit, service, fullRun, marred>>

-----------------------------------------------------------------------------

\* Its own finding, and as many of the newest samples, whoever took them.
Alarming(down) == down /\ streak >= Debounce

\* _not_recently_sent: what was mailed is remembered where a restart does not reach it.
NotStored == ages.stored >= Cooldown

Evaluate ==
    /\ fullRun.pc = "alerts"
    /\ fullRun' = IF Alarming(fullRun.down) /\ NotStored THEN [fullRun EXCEPT !.pc = "stamp"] ELSE NoFullRun
    /\ UNCHANGED <<ages, lagLimit, service, streak, test, marred>>

EvaluateTest ==
    /\ test.pc = "alerts"
    /\ test' = IF Alarming(test.down) /\ NotStored THEN [test EXCEPT !.pc = "stamp"] ELSE NoTest
    /\ UNCHANGED <<ages, lagLimit, service, streak, fullRun, marred>>

StampMail ==
    /\ fullRun.pc = "stamp"
    /\ Fresh("stored")
    /\ fullRun' = [fullRun EXCEPT !.pc = "send"]
    /\ UNCHANGED <<lagLimit, service, streak, test, marred>>

StampTest ==
    /\ test.pc = "stamp"
    /\ Fresh("stored")
    /\ test' = [test EXCEPT !.pc = "send"]
    /\ UNCHANGED <<lagLimit, service, streak, fullRun, marred>>

\* Faulty: the stored stamp alone keeps mails apart.
QuietAlways == FALSE

\* send_alert: the process's own memory, asked and set in one go.
QuietEnough == ages.memory < Cooldown

Mailed ==
    IF QuietEnough THEN UNCHANGED <<ages, marred>>
    ELSE /\ ages' = [ages EXCEPT !["memory"] = 0, !["mail"] = 0]
         /\ marred' = [marred EXCEPT !.storm = @ \/ ages.mail < Cooldown]

Send ==
    /\ fullRun.pc = "send"
    /\ Mailed
    /\ fullRun' = NoFullRun
    /\ UNCHANGED <<lagLimit, service, streak, test>>

SendTest ==
    /\ test.pc = "send"
    /\ Mailed
    /\ test' = NoTest
    /\ UNCHANGED <<lagLimit, service, streak, fullRun>>

MonitorNext ==
    \/ PassTime \/ ServiceTurns \/ MissCall \/ RestartProcess
    \/ CallIncr \/ CallFull \/ BackUpTenants \/ SkipMirror \/ SyncMirror \/ SkipSample \/ ProbeNow
    \/ WriteSample \/ Evaluate \/ StampMail \/ Send
    \/ AskTest \/ WriteTestSample \/ EvaluateTest \/ StampTest \/ SendTest

MonitorSpec == MonitorInit /\ [][MonitorNext]_monitorVars

-----------------------------------------------------------------------------

MonitorTypeOK ==
    /\ \A c \in Clocks : ages[c] \in 0 .. Cap[c]
    /\ lagLimit \in LagLimits /\ service \in {"ok", "down"} /\ streak \in 0 .. Debounce
    /\ fullRun \in [pc : {"idle", "tenants", "mirror", "sample", "write", "alerts", "stamp", "send"},
                mode : {"incr", "full"}, ticks : 0 .. RunTicks, down : BOOLEAN]
    /\ test \in [pc : {"idle", "write", "alerts", "stamp", "send"}, down : BOOLEAN]

\* As long as the calls come, the panel never says that sampling has stopped: the samples that calls
\* leave out, and those an administrator takes in between, leave no gap as long as that.
SamplesInTime == ~marred.missed => ages.sample <= SampleLimit

\* Nor that the mirror is behind: it "only needs to stay inside its lag alert window", and does.
MirrorInTime == ~marred.missed /\ marred.synced => ages.mirror <= lagLimit

\* Backups that fail are not taken for silence: the mail about it is sent only when calls did not come,
\* or found a run under way.
SilenceIsReal == ~marred.falseSilence

\* Two mails about one thing are a cooldown apart, across restarts and between a run and a test.
MailsAreSpaced == ~marred.storm

MonitorSound == SamplesInTime /\ MirrorInTime /\ SilenceIsReal /\ MailsAreSpaced
=============================================================================
