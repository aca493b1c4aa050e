------------------------------ MODULE OfficeProofs ------------------------------
(***************************************************************************)
(* What the election office works on, proved: usage counters, the vetting  *)
(* of nominations, milestone snapshots, the monitor, and the sum of all.   *)
(***************************************************************************)
EXTENDS MCOffice, RosterProofs, RosterLedgerProofs, FiniteSetTheorems, SequenceTheorems

-----------------------------------------------------------------------------
(* Usage counters (UsageCounters).                                             *)

FlightDoc == [store : Stores \cup {"none"}, rest : Counts, goal : Stores \cup {"none"}, asked : Nat]

TallyDoc == [counted : Counts, twice : Counts, lost : Counts, faults : Nat, stops : Nat, switches : Nat,
             overlapped : BOOLEAN, said : {"none", "copied", "differs"}, short : SUBSET Keys]

CopyDoc == [pc : {"idle", "scan", "read"}, seen : SUBSET Keys, doc : Counts, until : Nat]

UsageTypes ==
    /\ today \in UsageDays /\ today \in Nat /\ today >= 1
    /\ process \in {"up", "stopping", "down"}
    /\ storage \in [mode : Stores, since : Nat] /\ choice \in [mode : Stores, since : Nat]
    /\ buffer \in Counts /\ pending \subseteq Keys
    /\ flights \in [Flushers -> FlightDoc]
    /\ counters \in [Stores -> Counts] /\ history \in Counts /\ doneKeys \subseteq Keys
    /\ inMemory \in CopyDoc
    /\ tally \in TallyDoc

LEMMA CountsTypes ==
    /\ NoUsage \in Counts /\ \A k \in Keys : NoUsage[k] = 0
    /\ \A f, g \in Counts : Plus(f, g) \in Counts /\ \A k \in Keys : Plus(f, g)[k] = f[k] + g[k]
    /\ \A f \in Counts : \A S : Only(f, S) \in Counts /\ \A k \in Keys : Only(f, S)[k] = IF k \in S THEN f[k] ELSE 0
    /\ \A f \in Counts : \A k \in Keys : f[k] \in Nat /\ (k \in Held(f) <=> f[k] > 0)
    /\ \A f \in Counts : Held(f) \subseteq Keys
BY DEF NoUsage, Counts, Plus, Only, Held

LEMMA NothingHeldIsNoUsage ==
    ASSUME NEW f \in Counts
    PROVE  Held(f) = {} <=> f = NoUsage
<1>1. ASSUME Held(f) = {} PROVE f = NoUsage
  <2>1. \A k \in Keys : f[k] = 0
    BY <1>1, CountsTypes
  <2> QED
    BY <2>1 DEF Counts, NoUsage
<1>2. ASSUME f = NoUsage PROVE Held(f) = {}
  BY <1>2, CountsTypes
<1> QED
  BY <1>1, <1>2

LEMMA IdleTypes ==
    /\ NoFlush \in FlightDoc /\ NoFlush.store = "none" /\ NoFlush.rest = NoUsage
    /\ NoCopy \in CopyDoc /\ NoCopy.pc = "idle" /\ NoCopy.doc = NoUsage
    /\ Stores = {"mongo", "postgres"} /\ Flushers = {"tick", "switch", "stop"}
<1>1. NoUsage \in Counts
  BY CountsTypes
<1> QED
  BY <1>1 DEF NoFlush, FlightDoc, NoCopy, CopyDoc, Stores, Flushers

LEMMA FlightTypes ==
    ASSUME UsageTypes, NEW f \in Flushers
    PROVE  /\ flights[f] \in FlightDoc /\ flights[f].rest \in Counts
           /\ flights[f].store \in Stores \cup {"none"} /\ flights[f].goal \in Stores \cup {"none"}
           /\ flights[f].asked \in Nat
BY DEF UsageTypes, FlightDoc

LEMMA CounterTypes ==
    ASSUME UsageTypes
    PROVE  counters["mongo"] \in Counts /\ counters["postgres"] \in Counts
BY DEF UsageTypes, Stores

LEMMA UsageTypesInit == UsageInit => UsageTypes
<1> SUFFICES ASSUME UsageInit PROVE UsageTypes
  OBVIOUS
<1>1. NoUsage \in Counts
  BY CountsTypes
<1>2. tally \in TallyDoc
  BY <1>1 DEF UsageInit, TallyDoc
<1>3. flights \in [Flushers -> FlightDoc] /\ inMemory \in CopyDoc
  BY IdleTypes DEF UsageInit
<1> QED
  BY <1>1, <1>2, <1>3, UsageAssumption DEF UsageInit, UsageTypes, Stores

(* What each step does to the counts, the flushes and the tally. *)

LEMMA FlightMoves ==
    ASSUME UsageTypes, NEW f \in Flushers, NEW d \in FlightDoc, flights' = [flights EXCEPT ![f] = d]
    PROVE  /\ flights' \in [Flushers -> FlightDoc]
           /\ \A g \in Flushers : flights'[g] = IF g = f THEN d ELSE flights[g]
           /\ \A k \in Keys : InFlight(k)' = InFlight(k) - flights[f].rest[k] + d.rest[k]
<1>1. \A g \in Flushers : flights'[g] = IF g = f THEN d ELSE flights[g]
  BY DEF UsageTypes
<1>2. flights' \in [Flushers -> FlightDoc]
  BY DEF UsageTypes
<1>3. ASSUME NEW k \in Keys PROVE InFlight(k)' = InFlight(k) - flights[f].rest[k] + d.rest[k]
  <2>1. \A g \in Flushers : flights[g].rest[k] \in Nat
    BY FlightTypes, CountsTypes
  <2>2. d.rest[k] \in Nat
    BY CountsTypes DEF FlightDoc
  <2>3. /\ flights'["tick"].rest[k] = IF f = "tick" THEN d.rest[k] ELSE flights["tick"].rest[k]
        /\ flights'["switch"].rest[k] = IF f = "switch" THEN d.rest[k] ELSE flights["switch"].rest[k]
        /\ flights'["stop"].rest[k] = IF f = "stop" THEN d.rest[k] ELSE flights["stop"].rest[k]
    BY <1>1 DEF Flushers
  <2>4. CASE f = "tick"
    BY <2>1, <2>2, <2>3, <2>4 DEF InFlight, Flushers
  <2>5. CASE f = "switch"
    BY <2>1, <2>2, <2>3, <2>5 DEF InFlight, Flushers
  <2>6. CASE f = "stop"
    BY <2>1, <2>2, <2>3, <2>6 DEF InFlight, Flushers
  <2> QED
    BY <2>4, <2>5, <2>6 DEF Flushers
<1> QED
  BY <1>1, <1>2, <1>3

(* What holds between the buffer, the flushes, the stores and the copy.         *)
FlightsKept ==
    /\ \A f \in Flushers : flights[f].store = "none" => flights[f].rest = NoUsage
    /\ process = "up" => flights["stop"].store = "none"
    /\ flights["switch"].store # "none" => flights["switch"].goal # "none"
    /\ process = "down" => /\ buffer = NoUsage /\ pending = {} /\ inMemory = NoCopy
                           /\ \A f \in Flushers : flights[f] = NoFlush

CopyKept ==
    \A k \in Keys : /\ history[k] <= counters["mongo"][k]
                    /\ inMemory.doc[k] <= counters["mongo"][k]
                    /\ k \notin doneKeys => history[k] = 0

(* Unless flushes overlapped, what one has in its hands is what Room counts.    *)
MemoryKept ==
    ~tally.overlapped =>
        /\ Cardinality(Held(buffer) \cup pending) <= MaxKeys
        /\ \A f \in Flushers : Held(flights[f].rest) \subseteq pending
        /\ \A f, g \in Flushers : flights[f].rest # NoUsage /\ flights[g].rest # NoUsage => f = g

Since(c, first) == \A k \in Keys : c[k] > 0 => k[1] >= first

NoSwitchYet ==
    /\ storage.mode = "mongo" /\ inMemory.pc = "idle" /\ tally.said # "copied"
    /\ flights["switch"].store = "none"
    /\ \A f \in Flushers : flights[f].store # "postgres"
    /\ \A k \in Keys : counters["postgres"][k] = 0

(* After one switch and no failed write PostgreSQL counts nothing from before it. *)
OneSwitch ==
    /\ choice.mode = "postgres" /\ choice.since >= 1 /\ choice.since <= today
    /\ storage.mode = "postgres" => storage.since = choice.since
    /\ Since(buffer, choice.since) /\ Since(counters["postgres"], choice.since)
    /\ \A f \in Flushers : flights[f].store = "postgres" => Since(flights[f].rest, choice.since)
    /\ flights["switch"].store # "none" => flights["switch"].goal = "postgres" /\ flights["switch"].asked = choice.since
    /\ inMemory.pc # "idle" => inMemory.until = choice.since

SwitchKept ==
    /\ tally.switches = 0 => choice = [mode |-> "mongo", since |-> 0]
    /\ tally.faults = 0 /\ tally.switches = 0 => NoSwitchYet
    /\ tally.faults = 0 /\ tally.switches = 1 => OneSwitch

UsageInv ==
    /\ UsageTypes /\ FlightsKept /\ CountedOnce /\ CopyKept /\ MemoryKept /\ SwitchKept /\ VerifiedIsWhole

LEMMA UsageInvInit == UsageInit => UsageInv
<1> SUFFICES ASSUME UsageInit PROVE UsageInv
  OBVIOUS
<1>1. UsageTypes
  BY UsageTypesInit
<1>2. /\ buffer = NoUsage /\ \A f \in Flushers : flights[f] = NoFlush
      /\ inMemory = NoCopy /\ history = NoUsage /\ pending = {} /\ process = "up"
      /\ counters["mongo"] = NoUsage /\ counters["postgres"] = NoUsage
      /\ tally.counted = NoUsage /\ tally.twice = NoUsage /\ tally.lost = NoUsage
  BY DEF UsageInit, Stores
<1>3. FlightsKept
  BY <1>2, IdleTypes DEF FlightsKept
<1>4. CountedOnce
  BY <1>2, IdleTypes, CountsTypes DEF CountedOnce, InFlight
<1>5. CopyKept
  BY <1>2, IdleTypes, CountsTypes DEF CopyKept
<1>6. MemoryKept
  <2>1. Held(NoUsage) = {} /\ MaxKeys \in Nat
    BY CountsTypes, NothingHeldIsNoUsage, UsageAssumption
  <2>2. Cardinality({}) = 0
    BY FS_EmptySet
  <2> QED
    BY <1>2, <2>1, <2>2, IdleTypes DEF MemoryKept
<1>7. SwitchKept
  BY <1>2, IdleTypes, CountsTypes DEF SwitchKept, NoSwitchYet, UsageInit
<1>8. VerifiedIsWhole
  BY DEF UsageInit, VerifiedIsWhole
<1> QED
  BY <1>1, <1>3, <1>4, <1>5, <1>6, <1>7, <1>8 DEF UsageInv

(* A flush that begins takes the whole buffer.                                  *)
LEMMA LaunchStep ==
    ASSUME UsageInv, NEW f \in Flushers, NEW d \in FlightDoc, flights[f].rest = NoUsage,
           flights' = [flights EXCEPT ![f] = d], d.rest = buffer, buffer' = NoUsage,
           pending' = IF buffer = NoUsage THEN pending ELSE Held(buffer),
           tally' \in TallyDoc, UNCHANGED <<counters, history, doneKeys, inMemory>>,
           tally'.overlapped <=> tally.overlapped \/ (Flying # {} /\ buffer # NoUsage),
           tally'.counted = tally.counted, tally'.twice = tally.twice, tally'.lost = tally.lost
    PROVE  CountedOnce' /\ CopyKept' /\ MemoryKept' /\ pending' \subseteq Keys /\ buffer' \in Counts
<1>0. UsageTypes /\ FlightsKept
  BY DEF UsageInv
<1>1. /\ flights' \in [Flushers -> FlightDoc]
      /\ \A g \in Flushers : flights'[g] = IF g = f THEN d ELSE flights[g]
      /\ \A k \in Keys : InFlight(k)' = InFlight(k) - 0 + buffer[k]
  <2>1. /\ flights' \in [Flushers -> FlightDoc]
        /\ \A g \in Flushers : flights'[g] = IF g = f THEN d ELSE flights[g]
        /\ \A k \in Keys : InFlight(k)' = InFlight(k) - flights[f].rest[k] + d.rest[k]
    BY <1>0, FlightMoves
  <2>2. \A k \in Keys : flights[f].rest[k] = 0 /\ d.rest[k] = buffer[k]
    BY CountsTypes
  <2> QED
    BY <2>1, <2>2
<1>2. \A k \in Keys : /\ buffer[k] \in Nat /\ buffer'[k] = 0 /\ InFlight(k) \in Nat
                      /\ counters["mongo"][k] \in Nat /\ counters["postgres"][k] \in Nat /\ tally.lost[k] \in Nat
  <2>1. \A k \in Keys : \A g \in Flushers : flights[g].rest[k] \in Nat
    BY <1>0, FlightTypes, CountsTypes
  <2>2. \A k \in Keys : InFlight(k) \in Nat
    BY <2>1 DEF InFlight, Flushers
  <2>3. buffer \in Counts /\ tally.lost \in Counts
    BY <1>0 DEF UsageTypes, TallyDoc
  <2> QED
    BY <1>0, <2>2, <2>3, CountsTypes, CounterTypes
<1>3. CountedOnce'
  <2>1. ASSUME NEW k \in Keys
        PROVE  tally.counted[k] + tally.twice[k]
                 = 0 + (InFlight(k) - 0 + buffer[k]) + counters["mongo"][k] + counters["postgres"][k] + tally.lost[k]
    <3>1. tally.counted[k] + tally.twice[k]
            = buffer[k] + InFlight(k) + counters["mongo"][k] + counters["postgres"][k] + tally.lost[k]
      BY DEF UsageInv, CountedOnce
    <3> QED
      BY <1>2, <3>1
  <2> QED
    BY <1>1, <1>2, <2>1 DEF CountedOnce
<1>4. CopyKept'
  BY DEF UsageInv, CopyKept
<1>5. Held(NoUsage) = {} /\ buffer \in Counts /\ Held(buffer) \subseteq Keys
  BY <1>0, CountsTypes, NothingHeldIsNoUsage DEF UsageTypes
<1>6. pending' \subseteq Keys /\ buffer' \in Counts
  BY <1>0, <1>5, CountsTypes DEF UsageTypes
<1>7. MemoryKept'
  <2> SUFFICES ASSUME ~tally'.overlapped PROVE MemoryKept'
    BY DEF MemoryKept
  <2>1. ~tally.overlapped /\ (Flying = {} \/ buffer = NoUsage) /\ MemoryKept
    BY DEF UsageInv
  <2>2. CASE buffer = NoUsage
    <3>1. \A g \in Flushers : flights'[g].rest = flights[g].rest
      BY <1>1, <2>2
    <3> QED
      BY <1>5, <2>1, <2>2, <3>1 DEF MemoryKept
  <2>3. CASE buffer # NoUsage
    <3>1. \A g \in Flushers : flights[g].store = "none" /\ flights[g].rest = NoUsage
      BY <1>0, <2>1, <2>3 DEF Flying, FlightsKept
    <3>2. \A g \in Flushers : flights'[g].rest = IF g = f THEN buffer ELSE NoUsage
      BY <1>1, <3>1
    <3>3. Cardinality(Held(buffer)) <= MaxKeys
      <4>1. IsFiniteSet(Keys)
        BY UsageAssumption, FS_Product DEF Keys
      <4>2. IsFiniteSet(Held(buffer) \cup pending) /\ Held(buffer) \subseteq Held(buffer) \cup pending
        BY <1>0, <1>5, <4>1, FS_Subset DEF UsageTypes
      <4>3. /\ Cardinality(Held(buffer)) <= Cardinality(Held(buffer) \cup pending)
            /\ Cardinality(Held(buffer)) \in Nat /\ Cardinality(Held(buffer) \cup pending) \in Nat
        BY <4>2, FS_Subset, FS_CardinalityType
      <4> QED
        BY <2>1, <4>3, UsageAssumption DEF MemoryKept
    <3>4. Held(buffer') \cup pending' = Held(buffer)
      BY <1>5, <2>3
    <3>5. \A g \in Flushers : Held(flights'[g].rest) \subseteq pending'
      BY <1>5, <2>3, <3>2
    <3>6. \A g, h \in Flushers : flights'[g].rest # NoUsage /\ flights'[h].rest # NoUsage => g = h
      BY <3>2
    <3>7. Cardinality(Held(buffer') \cup pending') <= MaxKeys
      BY <3>3, <3>4
    <3>8. /\ Cardinality(Held(buffer) \cup pending)' <= MaxKeys
          /\ \A g \in Flushers : Held(flights[g].rest)' \subseteq pending'
      BY <3>5, <3>7 DEF Held
    <3> QED
      BY <3>6, <3>8 DEF MemoryKept, NoUsage
  <2> QED
    BY <2>2, <2>3
<1> QED
  BY <1>3, <1>4, <1>6, <1>7

LEMMA MidnightStep ==
    ASSUME UsageInv, MidnightPasses
    PROVE  UsageInv'
<1> DEFINE d == [store |-> storage.mode, rest |-> buffer, goal |-> "none", asked |-> today]
<1>0. UsageTypes /\ FlightsKept /\ SwitchKept
  BY DEF UsageInv
<1>1. /\ process = "up" /\ "tick" \in Flushers /\ flights["tick"].store = "none" /\ buffer # NoUsage
      /\ flights' = [flights EXCEPT !["tick"] = d] /\ buffer' = NoUsage /\ pending' = Held(buffer)
      /\ tally' = [tally EXCEPT !.overlapped = @ \/ Flying # {}]
      /\ UNCHANGED <<today, process, storage, choice, counters, history, doneKeys, inMemory>>
  BY IdleTypes DEF MidnightPasses, Launch, Flying
<1>2. d \in FlightDoc /\ d.rest = buffer /\ d.store = storage.mode /\ d.goal = "none"
  BY <1>0 DEF UsageTypes, FlightDoc
<1>3. flights["tick"].rest = NoUsage
  BY <1>0, <1>1 DEF FlightsKept
<1> HIDE DEF d
<1>4. /\ tally' \in TallyDoc
      /\ tally'.counted = tally.counted /\ tally'.twice = tally.twice /\ tally'.lost = tally.lost
      /\ tally'.faults = tally.faults /\ tally'.switches = tally.switches
      /\ tally'.said = tally.said /\ tally'.short = tally.short
  BY <1>0, <1>1 DEF UsageTypes, TallyDoc
<1>5. tally'.overlapped <=> tally.overlapped \/ (Flying # {} /\ buffer # NoUsage)
  BY <1>0, <1>1 DEF UsageTypes, TallyDoc
<1>6. CountedOnce' /\ CopyKept' /\ MemoryKept' /\ pending' \subseteq Keys /\ buffer' \in Counts
  <2>1. pending' = IF buffer = NoUsage THEN pending ELSE Held(buffer)
    BY <1>1
  <2>2. UNCHANGED <<counters, history, doneKeys, inMemory>>
    BY <1>1
  <2> QED
    BY <1>1, <1>2, <1>3, <1>4, <1>5, <2>1, <2>2, LaunchStep
<1>7. /\ flights' \in [Flushers -> FlightDoc]
      /\ \A g \in Flushers : flights'[g] = IF g = "tick" THEN d ELSE flights[g]
  BY <1>0, <1>1, <1>2 DEF UsageTypes
<1>8. UsageTypes'
  BY <1>0, <1>1, <1>4, <1>6, <1>7 DEF UsageTypes
<1>9. FlightsKept'
  BY <1>0, <1>1, <1>2, <1>7, IdleTypes DEF FlightsKept, UsageTypes
<1>10. SwitchKept'
  <2>1. \A k \in Keys : buffer'[k] = 0
    BY <1>1, CountsTypes
  <2>2. NoSwitchYet => NoSwitchYet'
    BY <1>1, <1>2, <1>4, <1>7, IdleTypes DEF NoSwitchYet
  <2>3. OneSwitch => OneSwitch'
    BY <1>1, <1>2, <1>7, <2>1, IdleTypes DEF OneSwitch, Since
  <2> QED
    BY <1>0, <1>1, <1>4, <2>2, <2>3 DEF SwitchKept
<1>11. VerifiedIsWhole'
  BY <1>4 DEF UsageInv, VerifiedIsWhole
<1> QED
  BY <1>6, <1>8, <1>9, <1>10, <1>11 DEF UsageInv

LEMMA AskSwitchStep ==
    ASSUME UsageInv, NEW m \in Stores, AskSwitch(m)
    PROVE  UsageInv'
<1> DEFINE d == [store |-> storage.mode, rest |-> buffer, goal |-> m, asked |-> today]
<1>0. UsageTypes /\ FlightsKept /\ SwitchKept
  BY DEF UsageInv
<1>1. /\ process = "up" /\ "switch" \in Flushers /\ flights["switch"].store = "none" /\ m # storage.mode
      /\ choice' = [mode |-> m, since |-> today]
      /\ flights' = [flights EXCEPT !["switch"] = d] /\ buffer' = NoUsage
      /\ pending' = IF buffer = NoUsage THEN pending ELSE Held(buffer)
      /\ tally' = [tally EXCEPT !.switches = @ + 1,
                                !.overlapped = @ \/ (Flying # {} /\ buffer # NoUsage)]
      /\ UNCHANGED <<today, process, storage, counters, history, doneKeys, inMemory>>
  BY IdleTypes DEF AskSwitch, Flying
<1>2. d \in FlightDoc /\ d.rest = buffer /\ d.store = storage.mode /\ d.goal = m /\ d.asked = today
  BY <1>0 DEF UsageTypes, FlightDoc
<1>3. flights["switch"].rest = NoUsage
  BY <1>0, <1>1 DEF FlightsKept
<1> HIDE DEF d
<1>4. /\ tally' \in TallyDoc
      /\ tally'.counted = tally.counted /\ tally'.twice = tally.twice /\ tally'.lost = tally.lost
      /\ tally'.faults = tally.faults /\ tally'.switches = tally.switches + 1
      /\ tally'.said = tally.said /\ tally'.short = tally.short
  <2> DEFINE over == tally.overlapped \/ (Flying # {} /\ buffer # NoUsage)
             wide == [tally EXCEPT !.overlapped = over]
  <2>1. tally \in TallyDoc /\ over \in BOOLEAN
    BY <1>0 DEF UsageTypes, TallyDoc
  <2>2. tally' = [wide EXCEPT !.switches = tally.switches + 1]
    BY <1>1, <2>1 DEF TallyDoc
  <2> HIDE DEF over
  <2>3. /\ wide \in TallyDoc
        /\ wide.counted = tally.counted /\ wide.twice = tally.twice /\ wide.lost = tally.lost
        /\ wide.faults = tally.faults /\ wide.switches = tally.switches /\ wide.stops = tally.stops
        /\ wide.said = tally.said /\ wide.short = tally.short
    BY <2>1 DEF TallyDoc
  <2> HIDE DEF wide
  <2> QED
    BY <2>1, <2>2, <2>3 DEF TallyDoc
<1>5. tally'.overlapped <=> tally.overlapped \/ (Flying # {} /\ buffer # NoUsage)
  BY <1>0, <1>1 DEF UsageTypes, TallyDoc
<1>6. CountedOnce' /\ CopyKept' /\ MemoryKept' /\ pending' \subseteq Keys /\ buffer' \in Counts
  <2>1. UNCHANGED <<counters, history, doneKeys, inMemory>>
    BY <1>1
  <2> QED
    BY <1>1, <1>2, <1>3, <1>4, <1>5, <2>1, LaunchStep, Zenon
<1>7. /\ flights' \in [Flushers -> FlightDoc]
      /\ \A g \in Flushers : flights'[g] = IF g = "switch" THEN d ELSE flights[g]
  BY <1>0, <1>1, <1>2 DEF UsageTypes
<1>8. UsageTypes'
  BY <1>0, <1>1, <1>4, <1>6, <1>7 DEF UsageTypes
<1>9. FlightsKept'
  BY <1>0, <1>1, <1>2, <1>7, IdleTypes DEF FlightsKept, UsageTypes
<1>10. tally.switches \in Nat
  BY <1>0 DEF UsageTypes, TallyDoc
<1>11. SwitchKept'
  <2>1. tally'.switches # 0
    BY <1>4, <1>10
  <2>2. ASSUME tally'.faults = 0, tally'.switches = 1 PROVE OneSwitch'
    <3>1. tally.switches = 0 /\ tally.faults = 0
      BY <1>4, <1>10, <2>2
    <3>2. NoSwitchYet
      BY <1>0, <3>1 DEF SwitchKept
    <3>3. m = "postgres"
      BY <1>1, <3>2 DEF NoSwitchYet, Stores
    <3>4. choice'.mode = "postgres" /\ choice'.since = today /\ today >= 1 /\ storage'.mode = "mongo" /\ inMemory'.pc = "idle"
      BY <1>0, <1>1, <3>2, <3>3 DEF NoSwitchYet, UsageTypes
    <3>5. \A k \in Keys : buffer'[k] = 0 /\ counters'["postgres"][k] = 0
      BY <1>1, <3>2, CountsTypes DEF NoSwitchYet
    <3>6. \A g \in Flushers : flights'[g].store # "postgres"
      BY <1>2, <1>7, <3>2 DEF NoSwitchYet
    <3>7. flights'["switch"].goal = "postgres" /\ flights'["switch"].asked = choice'.since
      BY <1>1, <1>2, <1>7, <3>3, <3>4
    <3> QED
      BY <1>0, <1>1, <3>4, <3>5, <3>6, <3>7 DEF OneSwitch, Since, UsageTypes
  <2> QED
    BY <2>1, <2>2 DEF SwitchKept
<1>12. VerifiedIsWhole'
  <2> SUFFICES ASSUME tally'.said = "copied", tally'.switches = 1, tally'.faults = 0 PROVE FALSE
    BY DEF VerifiedIsWhole
  <2>1. tally.switches = 0 /\ tally.faults = 0 /\ tally.said = "copied"
    BY <1>4, <1>10
  <2> QED
    BY <1>0, <2>1 DEF SwitchKept, NoSwitchYet
<1> QED
  BY <1>6, <1>8, <1>9, <1>11, <1>12 DEF UsageInv

LEMMA BeginStopStep ==
    ASSUME UsageInv, BeginStop
    PROVE  UsageInv'
<1> DEFINE d == [store |-> storage.mode, rest |-> buffer, goal |-> "none", asked |-> today]
<1>0. UsageTypes /\ FlightsKept /\ SwitchKept
  BY DEF UsageInv
<1>1. /\ process = "up" /\ process' = "stopping" /\ "stop" \in Flushers
      /\ flights' = [flights EXCEPT !["stop"] = d] /\ buffer' = NoUsage
      /\ pending' = IF buffer = NoUsage THEN pending ELSE Held(buffer)
      /\ tally' = [tally EXCEPT !.stops = @ + 1,
                                !.overlapped = @ \/ (Flying # {} /\ buffer # NoUsage)]
      /\ UNCHANGED <<today, storage, choice, counters, history, doneKeys, inMemory>>
  BY IdleTypes DEF BeginStop
<1>2. d \in FlightDoc /\ d.rest = buffer /\ d.store = storage.mode /\ d.goal = "none"
  BY <1>0 DEF UsageTypes, FlightDoc
<1>3. flights["stop"].rest = NoUsage
  BY <1>0, <1>1 DEF FlightsKept
<1> HIDE DEF d
<1>4. /\ tally' \in TallyDoc
      /\ tally'.counted = tally.counted /\ tally'.twice = tally.twice /\ tally'.lost = tally.lost
      /\ tally'.faults = tally.faults /\ tally'.switches = tally.switches
      /\ tally'.said = tally.said /\ tally'.short = tally.short
  <2> DEFINE over == tally.overlapped \/ (Flying # {} /\ buffer # NoUsage)
             wide == [tally EXCEPT !.overlapped = over]
  <2>1. tally \in TallyDoc /\ over \in BOOLEAN
    BY <1>0 DEF UsageTypes, TallyDoc
  <2>2. tally' = [wide EXCEPT !.stops = tally.stops + 1]
    BY <1>1, <2>1 DEF TallyDoc
  <2> HIDE DEF over
  <2>3. /\ wide \in TallyDoc
        /\ wide.counted = tally.counted /\ wide.twice = tally.twice /\ wide.lost = tally.lost
        /\ wide.faults = tally.faults /\ wide.switches = tally.switches /\ wide.stops = tally.stops
        /\ wide.said = tally.said /\ wide.short = tally.short
    BY <2>1 DEF TallyDoc
  <2> HIDE DEF wide
  <2> QED
    BY <2>1, <2>2, <2>3 DEF TallyDoc
<1>5. tally'.overlapped <=> tally.overlapped \/ (Flying # {} /\ buffer # NoUsage)
  BY <1>0, <1>1 DEF UsageTypes, TallyDoc
<1>6. CountedOnce' /\ CopyKept' /\ MemoryKept' /\ pending' \subseteq Keys /\ buffer' \in Counts
  <2>1. UNCHANGED <<counters, history, doneKeys, inMemory>>
    BY <1>1
  <2> QED
    BY <1>1, <1>2, <1>3, <1>4, <1>5, <2>1, LaunchStep, Zenon
<1>7. /\ flights' \in [Flushers -> FlightDoc]
      /\ \A g \in Flushers : flights'[g] = IF g = "stop" THEN d ELSE flights[g]
  BY <1>0, <1>1, <1>2 DEF UsageTypes
<1>8. UsageTypes'
  BY <1>0, <1>1, <1>4, <1>6, <1>7 DEF UsageTypes
<1>9. FlightsKept'
  BY <1>0, <1>1, <1>2, <1>7, IdleTypes DEF FlightsKept, UsageTypes
<1>10. SwitchKept'
  <2>1. \A k \in Keys : buffer'[k] = 0
    BY <1>1, CountsTypes
  <2>2. NoSwitchYet => NoSwitchYet'
    BY <1>1, <1>2, <1>4, <1>7, IdleTypes DEF NoSwitchYet
  <2>3. OneSwitch => OneSwitch'
    BY <1>1, <1>2, <1>7, <2>1, IdleTypes DEF OneSwitch, Since
  <2> QED
    BY <1>0, <1>1, <1>4, <2>2, <2>3 DEF SwitchKept
<1>11. VerifiedIsWhole'
  BY <1>4 DEF UsageInv, VerifiedIsWhole
<1> QED
  BY <1>6, <1>8, <1>9, <1>10, <1>11 DEF UsageInv

LEMMA HeldIsBounded ==
    ASSUME UsageTypes, NEW S, S \subseteq Held(buffer) \cup pending
    PROVE  Cardinality(Held(buffer) \cup pending) <= MaxKeys => Cardinality(S) <= MaxKeys
<1>1. IsFiniteSet(Keys)
  BY UsageAssumption, FS_Product DEF Keys
<1>2. IsFiniteSet(Held(buffer) \cup pending)
  BY <1>1, CountsTypes, FS_Subset DEF UsageTypes
<1>3. /\ Cardinality(S) <= Cardinality(Held(buffer) \cup pending)
      /\ Cardinality(S) \in Nat /\ Cardinality(Held(buffer) \cup pending) \in Nat
  BY <1>2, FS_Subset, FS_CardinalityType
<1> QED
  BY <1>3, UsageAssumption

(* A write of f to s that lands, in part or as a whole, and what is given back of it, *)
(* left to be written or counted again.                                             *)
Lands(f, s, landed, back, left, again) ==
    /\ flights[f].store = s /\ process # "down" /\ flights[f].rest # NoUsage
    /\ landed \in Counts /\ back \in Counts /\ left \in Counts /\ again \in Counts
    /\ flights' = [flights EXCEPT ![f].rest = left]
    /\ counters' = [counters EXCEPT ![s] = Plus(@, landed)]
    /\ buffer' \in Counts /\ \A k \in Keys : buffer'[k] = buffer[k] + back[k]
    /\ \A k \in Keys : flights[f].rest[k] + again[k] = landed[k] + back[k] + left[k]
    /\ \A k \in Keys : left[k] <= flights[f].rest[k] /\ back[k] <= flights[f].rest[k]
                       /\ landed[k] <= flights[f].rest[k]
    /\ pending' = pending \/ (pending' = {} /\ left = NoUsage)
    /\ tally' \in TallyDoc /\ tally'.counted = tally.counted /\ tally'.lost = tally.lost
    /\ \A k \in Keys : tally'.twice[k] = tally.twice[k] + again[k]
    /\ tally'.switches = tally.switches /\ tally'.said = tally.said /\ tally'.short = tally.short
    /\ tally'.overlapped = tally.overlapped
    /\ tally'.faults = 0 => tally.faults = 0 /\ \A k \in Keys : back[k] = 0
    /\ UNCHANGED <<today, process, storage, choice, history, doneKeys, inMemory>>

LEMMA LandStep ==
    ASSUME UsageInv, NEW f \in Flushers, NEW s \in Stores,
           NEW landed, NEW back, NEW left, NEW again, Lands(f, s, landed, back, left, again)
    PROVE  UsageInv'
<1> DEFINE d == [flights[f] EXCEPT !.rest = left]
<1>0. UsageTypes /\ FlightsKept /\ SwitchKept /\ MemoryKept /\ CopyKept
  BY DEF UsageInv
<1> USE DEF Lands
<1>1. flights[f] \in FlightDoc /\ flights[f].rest \in Counts /\ flights' = [flights EXCEPT ![f] = d]
  BY <1>0, FlightTypes DEF UsageTypes
<1>2. d \in FlightDoc /\ d.rest = left /\ d.store = s /\ d.goal = flights[f].goal /\ d.asked = flights[f].asked
  BY <1>1 DEF FlightDoc
<1> HIDE DEF d
<1>3. /\ flights' \in [Flushers -> FlightDoc]
      /\ \A g \in Flushers : flights'[g] = IF g = f THEN d ELSE flights[g]
      /\ \A k \in Keys : InFlight(k)' = InFlight(k) - flights[f].rest[k] + left[k]
  <2>1. /\ flights' \in [Flushers -> FlightDoc]
        /\ \A g \in Flushers : flights'[g] = IF g = f THEN d ELSE flights[g]
        /\ \A k \in Keys : InFlight(k)' = InFlight(k) - flights[f].rest[k] + d.rest[k]
    BY <1>0, <1>1, <1>2, FlightMoves, Zenon
  <2> QED
    BY <1>2, <2>1
<1>4. /\ Plus(counters[s], landed) \in Counts
      /\ \A k \in Keys : Plus(counters[s], landed)[k] = counters[s][k] + landed[k]
  BY <1>0, CountsTypes DEF UsageTypes
<1>5. /\ counters' \in [Stores -> Counts]
      /\ \A r \in Stores : counters'[r] = IF r = s THEN Plus(counters[s], landed) ELSE counters[r]
  BY <1>0, <1>4 DEF UsageTypes
<1>6. \A k \in Keys : /\ buffer[k] \in Nat /\ back[k] \in Nat /\ left[k] \in Nat /\ landed[k] \in Nat
                      /\ again[k] \in Nat /\ flights[f].rest[k] \in Nat /\ InFlight(k) \in Nat
                      /\ counters["mongo"][k] \in Nat /\ counters["postgres"][k] \in Nat
                      /\ tally.lost[k] \in Nat /\ tally.twice[k] \in Nat /\ tally.counted[k] \in Nat
  <2>1. \A k \in Keys : \A g \in Flushers : flights[g].rest[k] \in Nat
    BY <1>0, FlightTypes, CountsTypes
  <2>2. \A k \in Keys : InFlight(k) \in Nat
    BY <2>1 DEF InFlight, Flushers
  <2>3. buffer \in Counts /\ tally.lost \in Counts /\ tally.twice \in Counts /\ tally.counted \in Counts
    BY <1>0 DEF UsageTypes, TallyDoc
  <2> QED
    BY <1>0, <1>1, <2>2, <2>3, CountsTypes, CounterTypes
<1>7. UsageTypes'
  <2>1. pending' \subseteq Keys
    BY <1>0 DEF UsageTypes
  <2> QED
    BY <1>0, <1>3, <1>5, <2>1 DEF UsageTypes
<1>8. FlightsKept'
  <2>1. s # "none"
    BY DEF Stores
  <2> QED
    BY <1>0, <1>2, <1>3, <2>1 DEF FlightsKept
<1>9. CountedOnce'
  <2> SUFFICES ASSUME NEW k \in Keys
               PROVE  tally'.counted[k] + tally'.twice[k]
                        = buffer'[k] + InFlight(k)' + counters'["mongo"][k] + counters'["postgres"][k] + tally'.lost[k]
    BY DEF CountedOnce
  <2>1. tally.counted[k] + tally.twice[k]
          = buffer[k] + InFlight(k) + counters["mongo"][k] + counters["postgres"][k] + tally.lost[k]
    BY DEF UsageInv, CountedOnce
  <2>2. counters'["mongo"][k] + counters'["postgres"][k] = counters["mongo"][k] + counters["postgres"][k] + landed[k]
    BY <1>4, <1>5, <1>6 DEF Stores
  <2>3. flights[f].rest[k] + again[k] = landed[k] + back[k] + left[k] /\ buffer'[k] = buffer[k] + back[k]
    OBVIOUS
  <2>4. counters'["mongo"][k] \in Nat /\ counters'["postgres"][k] \in Nat
    BY <1>7, CountsTypes DEF UsageTypes, Stores
  <2>5. InFlight(k)' = InFlight(k) - flights[f].rest[k] + left[k]
    BY <1>3
  <2>6. tally'.counted[k] = tally.counted[k] /\ tally'.lost[k] = tally.lost[k] /\ tally'.twice[k] = tally.twice[k] + again[k]
    OBVIOUS
  <2>7. tally'.counted[k] + tally'.twice[k]
          = (buffer[k] + back[k]) + (InFlight(k) - flights[f].rest[k] + left[k])
              + (counters["mongo"][k] + counters["postgres"][k] + landed[k]) + tally.lost[k]
    BY <1>6, <2>1, <2>3, <2>6
  <2> QED
    BY <1>6, <2>2, <2>3, <2>4, <2>5, <2>6, <2>7
<1>10. \A k \in Keys : counters["mongo"][k] <= counters'["mongo"][k]
  BY <1>4, <1>5, <1>6 DEF Stores
<1>11. CopyKept'
  <2>1. \A k \in Keys : history[k] \in Nat /\ inMemory.doc[k] \in Nat /\ counters'["mongo"][k] \in Nat
    BY <1>0, <1>7, CountsTypes DEF UsageTypes, Stores, CopyDoc
  <2> QED
    BY <1>0, <1>6, <1>10, <2>1 DEF CopyKept
<1>12. MemoryKept'
  <2> SUFFICES ASSUME ~tally.overlapped
               PROVE  /\ Cardinality(Held(buffer) \cup pending)' <= MaxKeys
                      /\ \A g \in Flushers : Held(flights[g].rest)' \subseteq pending'
                      /\ \A g, h \in Flushers : flights'[g].rest # NoUsage /\ flights'[h].rest # NoUsage => g = h
    BY DEF MemoryKept, NoUsage
  <2>1. /\ Cardinality(Held(buffer) \cup pending) <= MaxKeys
        /\ \A g \in Flushers : Held(flights[g].rest) \subseteq pending
        /\ \A g \in Flushers : g # f => flights[g].rest = NoUsage
    BY <1>0 DEF MemoryKept
  <2>2. Held(left) \subseteq Held(flights[f].rest) /\ Held(back) \subseteq Held(flights[f].rest)
    BY <1>6 DEF Held
  <2>3. Held(buffer') \subseteq Held(buffer) \cup Held(back)
    BY <1>6 DEF Held
  <2>4. Held(buffer') \cup pending' \subseteq Held(buffer) \cup pending
    BY <2>1, <2>2, <2>3
  <2>5. Cardinality(Held(buffer') \cup pending') <= MaxKeys
    BY <1>0, <2>1, <2>4, HeldIsBounded
  <2>6. Held(NoUsage) = {}
    BY CountsTypes, NothingHeldIsNoUsage
  <2>7. \A g \in Flushers : flights'[g].rest = IF g = f THEN left ELSE NoUsage
    BY <1>2, <1>3, <2>1
  <2>8. \A g \in Flushers : Held(flights'[g].rest) \subseteq pending'
    BY <2>1, <2>2, <2>6, <2>7
  <2> QED
    BY <2>5, <2>7, <2>8 DEF Held
<1>13. SwitchKept'
  <2>1. NoSwitchYet => NoSwitchYet'
    <3> SUFFICES ASSUME NoSwitchYet PROVE NoSwitchYet'
      OBVIOUS
    <3>1. s # "postgres"
      BY DEF NoSwitchYet
    <3> QED
      BY <1>2, <1>3, <1>5, <3>1 DEF NoSwitchYet, Stores
  <2>2. ASSUME OneSwitch, tally'.faults = 0 PROVE OneSwitch'
    <3>1. Since(buffer', choice.since)
      BY <1>6, <2>2 DEF OneSwitch, Since
    <3>2. s = "postgres" => Since(landed, choice.since) /\ Since(left, choice.since)
      BY <1>6, <2>2 DEF OneSwitch, Since
    <3>3. Since(counters'["postgres"], choice.since)
      BY <1>4, <1>5, <1>6, <2>2, <3>2 DEF OneSwitch, Since, Stores
    <3>4. \A g \in Flushers : flights'[g].store = "postgres" => Since(flights'[g].rest, choice.since)
      BY <1>2, <1>3, <2>2, <3>2 DEF OneSwitch
    <3>5. flights'["switch"].store # "none" => flights'["switch"].goal = "postgres" /\ flights'["switch"].asked = choice.since
      BY <1>2, <1>3, <2>2, IdleTypes DEF OneSwitch
    <3> QED
      BY <2>2, <3>1, <3>3, <3>4, <3>5 DEF OneSwitch, Since
  <2> QED
    BY <1>0, <2>1, <2>2 DEF SwitchKept
<1>14. VerifiedIsWhole'
  BY DEF UsageInv, VerifiedIsWhole
<1> QED
  BY <1>7, <1>8, <1>9, <1>11, <1>12, <1>13, <1>14 DEF UsageInv

(* A flush under way is of a server that runs, and what it takes is some of what it holds. *)
LEMMA FlightHeld ==
    ASSUME UsageInv, NEW f \in Flushers
    PROVE  /\ flights[f].store \in Stores <=> flights[f].store # "none"
           /\ \A S \in Chunks(f) : S # {} /\ S \subseteq Held(flights[f].rest) /\ flights[f].rest # NoUsage
<1>1. flights[f].rest \in Counts /\ flights[f].store \in Stores \cup {"none"} /\ "none" \notin Stores
  BY FlightTypes DEF UsageInv, Stores
<1>2. Held(NoUsage) = {}
  BY CountsTypes, NothingHeldIsNoUsage
<1> QED
  BY <1>1, <1>2 DEF Chunks

LEMMA WriteChunkStep ==
    ASSUME UsageInv, NEW f \in Flushers, WriteChunk(f)
    PROVE  UsageInv'
<1> DEFINE r == flights[f].rest
<1>1. PICK S \in Chunks(f) :
         /\ counters' = [counters EXCEPT !["mongo"] = Plus(@, Only(r, S))]
         /\ flights' = [flights EXCEPT ![f].rest = Only(@, Keys \ S)]
         /\ pending' = IF S = Held(r) THEN {} ELSE pending
  BY DEF WriteChunk
<1>2. /\ process # "down" /\ flights[f].store = "mongo" /\ "mongo" \in Stores
      /\ UNCHANGED <<today, process, storage, choice, buffer, history, doneKeys, inMemory, tally>>
  BY IdleTypes DEF WriteChunk
<1>3. r \in Counts /\ S # {} /\ S \subseteq Held(r) /\ r # NoUsage
  BY FlightTypes, FlightHeld DEF UsageInv
<1>4. /\ Only(r, S) \in Counts /\ Only(r, Keys \ S) \in Counts /\ NoUsage \in Counts
      /\ \A k \in Keys : /\ Only(r, S)[k] = IF k \in S THEN r[k] ELSE 0
                         /\ Only(r, Keys \ S)[k] = IF k \in Keys \ S THEN r[k] ELSE 0
                         /\ NoUsage[k] = 0 /\ r[k] \in Nat
  BY <1>3, CountsTypes
<1>5. S = Held(r) => Only(r, Keys \ S) = NoUsage
  <2>1. S = Held(r) => \A k \in Keys : Only(r, Keys \ S)[k] = 0
    BY <1>3, <1>4, CountsTypes
  <2> QED
    BY <1>4, <2>1 DEF Counts, NoUsage
<1>6. tally \in TallyDoc /\ buffer \in Counts /\ tally.twice \in Counts
  BY DEF UsageInv, UsageTypes, TallyDoc
<1>7. \A k \in Keys : buffer[k] \in Nat /\ tally.twice[k] \in Nat
  BY <1>6, CountsTypes
<1> DEFINE landed == Only(r, S)
           left == Only(r, Keys \ S)
<1>8. \A k \in Keys : /\ r[k] + NoUsage[k] = landed[k] + NoUsage[k] + left[k]
                      /\ left[k] <= r[k] /\ NoUsage[k] <= r[k] /\ landed[k] <= r[k]
  BY <1>4
<1>9. /\ \A k \in Keys : buffer'[k] = buffer[k] + NoUsage[k]
      /\ \A k \in Keys : tally'.twice[k] = tally.twice[k] + NoUsage[k]
  BY <1>2, <1>4, <1>7
<1>10. flights' = [flights EXCEPT ![f].rest = left] /\ counters' = [counters EXCEPT !["mongo"] = Plus(@, landed)]
  BY <1>1
<1>11. landed \in Counts /\ left \in Counts /\ (pending' = pending \/ (pending' = {} /\ left = NoUsage))
  BY <1>1, <1>4, <1>5
<1>12. /\ buffer' \in Counts /\ tally' \in TallyDoc
       /\ tally'.counted = tally.counted /\ tally'.lost = tally.lost /\ tally'.switches = tally.switches
       /\ tally'.said = tally.said /\ tally'.short = tally.short /\ tally'.overlapped = tally.overlapped
       /\ (tally'.faults = 0 => tally.faults = 0 /\ \A k \in Keys : NoUsage[k] = 0)
       /\ UNCHANGED <<today, process, storage, choice, history, doneKeys, inMemory>>
  BY <1>2, <1>4, <1>6
<1> HIDE DEF landed, left
<1>13. Lands(f, "mongo", landed, NoUsage, left, NoUsage)
  BY <1>2, <1>3, <1>4, <1>8, <1>9, <1>10, <1>11, <1>12 DEF Lands
<1> QED
  BY <1>2, <1>13, LandStep

(* A failed write gives the flush back whole, and may have landed all the same. *)
LEMMA FailStep ==
    ASSUME UsageInv, NEW f \in Flushers, NEW s \in Stores, flights[f].store = s, process # "down",
           flights[f].rest # NoUsage, NEW landed \in Counts,
           \A k \in Keys : landed[k] <= flights[f].rest[k],
           counters' = [counters EXCEPT ![s] = Plus(@, landed)],
           tally' = [tally EXCEPT !.faults = @ + 1, !.twice = Plus(@, landed)],
           buffer' = Plus(buffer, flights[f].rest), Land(f),
           UNCHANGED <<today, process, storage, choice, history, doneKeys, inMemory>>
    PROVE  UsageInv'
<1> DEFINE r == flights[f].rest
<1>1. tally \in TallyDoc /\ buffer \in Counts /\ tally.twice \in Counts /\ r \in Counts /\ NoUsage \in Counts
  BY FlightTypes, CountsTypes DEF UsageInv, UsageTypes, TallyDoc
<1>2. /\ Plus(buffer, r) \in Counts /\ Plus(tally.twice, landed) \in Counts
      /\ \A k \in Keys : /\ Plus(buffer, r)[k] = buffer[k] + r[k] /\ NoUsage[k] = 0
                         /\ Plus(tally.twice, landed)[k] = tally.twice[k] + landed[k]
                         /\ r[k] \in Nat /\ landed[k] \in Nat
  BY <1>1, CountsTypes
<1>3. /\ tally' \in TallyDoc /\ tally'.twice = Plus(tally.twice, landed) /\ tally'.faults = tally.faults + 1
      /\ tally'.counted = tally.counted /\ tally'.lost = tally.lost /\ tally'.switches = tally.switches
      /\ tally'.said = tally.said /\ tally'.short = tally.short /\ tally'.overlapped = tally.overlapped
  <2> DEFINE more == Plus(tally.twice, landed)
             worse == [tally EXCEPT !.faults = @ + 1]
  <2>1. tally' = [worse EXCEPT !.twice = more]
    BY <1>1 DEF TallyDoc
  <2>2. more \in Counts
    BY <1>2
  <2> HIDE DEF more
  <2>3. /\ worse \in TallyDoc /\ worse.faults = tally.faults + 1
        /\ worse.counted = tally.counted /\ worse.lost = tally.lost /\ worse.switches = tally.switches
        /\ worse.said = tally.said /\ worse.short = tally.short /\ worse.overlapped = tally.overlapped
    BY <1>1 DEF TallyDoc
  <2> HIDE DEF worse
  <2>4. /\ tally' \in TallyDoc /\ tally'.twice = more /\ tally'.faults = worse.faults
        /\ tally'.counted = worse.counted /\ tally'.lost = worse.lost /\ tally'.switches = worse.switches
        /\ tally'.said = worse.said /\ tally'.short = worse.short /\ tally'.overlapped = worse.overlapped
    BY <2>1, <2>2, <2>3 DEF TallyDoc
  <2> QED
    BY <2>3, <2>4 DEF more
<1>4. tally'.faults # 0
  BY <1>1, <1>3 DEF TallyDoc
<1>5. \A k \in Keys : r[k] + landed[k] = landed[k] + r[k] + NoUsage[k]
  BY <1>2
<1>6. \A k \in Keys : NoUsage[k] <= r[k] /\ r[k] <= r[k] /\ landed[k] <= r[k]
  BY <1>2
<1>7. flights' = [flights EXCEPT ![f].rest = NoUsage] /\ pending' = {}
  BY DEF Land
<1>8. /\ \A k \in Keys : buffer'[k] = buffer[k] + r[k]
      /\ \A k \in Keys : tally'.twice[k] = tally.twice[k] + landed[k]
  BY <1>2, <1>3
<1>9. \A k \in Keys : /\ r[k] + landed[k] = landed[k] + r[k] + NoUsage[k]
                      /\ NoUsage[k] <= r[k] /\ r[k] <= r[k] /\ landed[k] <= r[k]
  BY <1>5, <1>6
<1>10. buffer' \in Counts /\ (tally'.faults = 0 => tally.faults = 0 /\ \A k \in Keys : r[k] = 0)
  BY <1>2, <1>4
<1>11. Lands(f, s, landed, r, NoUsage, landed)
  BY <1>1, <1>3, <1>7, <1>8, <1>9, <1>10 DEF Lands
<1> QED
  BY <1>11, LandStep

LEMMA ChunkFailsStep ==
    ASSUME UsageInv, NEW f \in Flushers, ChunkFails(f)
    PROVE  UsageInv'
<1> DEFINE r == flights[f].rest
<1>1. /\ process # "down" /\ flights[f].store = "mongo" /\ "mongo" \in Stores /\ Land(f)
      /\ UNCHANGED <<today, process, storage, choice, history, doneKeys, inMemory>>
  BY IdleTypes DEF ChunkFails
<1>2. PICK C \in Chunks(f) : \E S \in SUBSET C :
         /\ counters' = [counters EXCEPT !["mongo"] = Plus(@, Only(r, S))]
         /\ tally' = [tally EXCEPT !.faults = @ + 1, !.twice = Plus(@, Only(r, S))]
         /\ buffer' = Plus(buffer, GivenBack(f, C))
  BY Zenon DEF ChunkFails
<1>3. PICK S \in SUBSET C :
         /\ counters' = [counters EXCEPT !["mongo"] = Plus(@, Only(r, S))]
         /\ tally' = [tally EXCEPT !.faults = @ + 1, !.twice = Plus(@, Only(r, S))]
         /\ buffer' = Plus(buffer, r)
  BY <1>2, Zenon DEF GivenBack
<1>4. r \in Counts /\ r # NoUsage
  BY FlightTypes, FlightHeld DEF UsageInv
<1>5. Only(r, S) \in Counts /\ \A k \in Keys : Only(r, S)[k] <= r[k]
  BY <1>4, CountsTypes
<1> QED
  BY <1>1, <1>3, <1>4, <1>5, FailStep, Zenon

LEMMA RowsFailStep ==
    ASSUME UsageInv, NEW f \in Flushers, NEW committed \in BOOLEAN, RowsFail(f, committed)
    PROVE  UsageInv'
<1> DEFINE r == flights[f].rest
           landed == IF committed THEN r ELSE NoUsage
<1>1. /\ process # "down" /\ flights[f].store = "postgres" /\ "postgres" \in Stores /\ Land(f) /\ r # NoUsage
      /\ counters' = [counters EXCEPT !["postgres"] = Plus(@, landed)]
      /\ tally' = [tally EXCEPT !.faults = @ + 1, !.twice = Plus(@, landed)]
      /\ buffer' = Plus(buffer, r)
      /\ UNCHANGED <<today, process, storage, choice, history, doneKeys, inMemory>>
  BY IdleTypes DEF RowsFail
<1>2. r \in Counts
  BY FlightTypes DEF UsageInv
<1>3. landed \in Counts /\ \A k \in Keys : landed[k] <= r[k]
  BY <1>2, CountsTypes
<1> HIDE DEF landed
<1> QED
  BY <1>1, <1>3, FailStep, Zenon

LEMMA WriteRowsStep ==
    ASSUME UsageInv, NEW f \in Flushers, WriteRows(f)
    PROVE  UsageInv'
<1> DEFINE r == flights[f].rest
<1>1. /\ process # "down" /\ flights[f].store = "postgres" /\ "postgres" \in Stores /\ Land(f) /\ r # NoUsage
      /\ counters' = [counters EXCEPT !["postgres"] = Plus(@, r)]
      /\ UNCHANGED <<today, process, storage, choice, buffer, history, doneKeys, inMemory, tally>>
  BY IdleTypes DEF WriteRows
<1>2. r \in Counts /\ NoUsage \in Counts /\ tally \in TallyDoc /\ buffer \in Counts /\ tally.twice \in Counts
  BY FlightTypes, CountsTypes DEF UsageInv, UsageTypes, TallyDoc
<1>3. \A k \in Keys : NoUsage[k] = 0 /\ r[k] \in Nat /\ buffer[k] \in Nat /\ tally.twice[k] \in Nat
  BY <1>2, CountsTypes
<1>4. \A k \in Keys : /\ r[k] + NoUsage[k] = r[k] + NoUsage[k] + NoUsage[k]
                      /\ NoUsage[k] <= r[k] /\ NoUsage[k] <= r[k] /\ r[k] <= r[k]
  BY <1>3
<1>5. flights' = [flights EXCEPT ![f].rest = NoUsage] /\ pending' = {}
  BY <1>1 DEF Land
<1>6. /\ \A k \in Keys : buffer'[k] = buffer[k] + NoUsage[k]
      /\ \A k \in Keys : tally'.twice[k] = tally.twice[k] + NoUsage[k]
  BY <1>1, <1>3
<1>7. /\ buffer' \in Counts /\ tally' \in TallyDoc
      /\ tally'.counted = tally.counted /\ tally'.lost = tally.lost /\ tally'.switches = tally.switches
      /\ tally'.said = tally.said /\ tally'.short = tally.short /\ tally'.overlapped = tally.overlapped
      /\ (tally'.faults = 0 => tally.faults = 0 /\ \A k \in Keys : NoUsage[k] = 0)
      /\ UNCHANGED <<today, process, storage, choice, history, doneKeys, inMemory>>
  BY <1>1, <1>2, <1>3
<1>8. Lands(f, "postgres", r, NoUsage, NoUsage, NoUsage)
  BY <1>1, <1>2, <1>4, <1>5, <1>6, <1>7 DEF Lands
<1> QED
  BY <1>1, <1>8, LandStep

(* The steps that leave the counts where they are. *)

LEMMA NextDayStep ==
    ASSUME UsageInv, NextDay
    PROVE  UsageInv'
<1>1. /\ today' = today + 1 /\ today' \in UsageDays
      /\ UNCHANGED <<process, storage, choice, buffer, pending, flights, counters, history, doneKeys, inMemory, tally>>
  BY DEF NextDay
<1>2. UsageTypes' /\ today <= today' /\ today \in Nat
  BY <1>1 DEF UsageInv, UsageTypes
<1>3. CountedOnce' /\ CopyKept' /\ MemoryKept' /\ FlightsKept' /\ VerifiedIsWhole'
  BY <1>1 DEF UsageInv, CountedOnce, InFlight, CopyKept, MemoryKept, FlightsKept, VerifiedIsWhole, Held
<1>4. choice.since \in Nat
  BY DEF UsageInv, UsageTypes
<1>5. OneSwitch => OneSwitch'
  BY <1>1, <1>2, <1>4 DEF OneSwitch, Since, UsageInv, UsageTypes
<1>6. SwitchKept'
  BY <1>1, <1>5 DEF UsageInv, SwitchKept, NoSwitchYet
<1> QED
  BY <1>2, <1>3, <1>6 DEF UsageInv

LEMMA CountStep ==
    ASSUME UsageInv, NEW n \in Names, Count(n)
    PROVE  UsageInv'
<1> DEFINE k == <<today, n>>
<1>0. UsageTypes /\ SwitchKept
  BY DEF UsageInv
<1>1. /\ process = "up" /\ Room(k) /\ buffer' = [buffer EXCEPT ![k] = @ + 1]
      /\ tally' = [tally EXCEPT !.counted[k] = @ + 1]
      /\ UNCHANGED <<today, process, storage, choice, pending, flights, counters, history, doneKeys, inMemory>>
  BY Zenon DEF Count
<1>2. k \in Keys /\ k[1] = today
  BY <1>0 DEF Keys, UsageTypes
<1> HIDE DEF k
<1>3. /\ buffer \in Counts /\ buffer' \in Counts
      /\ \A q \in Keys : buffer[q] \in Nat /\ buffer'[q] = IF q = k THEN buffer[q] + 1 ELSE buffer[q]
  BY <1>0, <1>1, <1>2 DEF UsageTypes, Counts
<1>4. /\ tally' \in TallyDoc
      /\ \A q \in Keys : tally'.counted[q] = IF q = k THEN tally.counted[q] + 1 ELSE tally.counted[q]
      /\ tally'.twice = tally.twice /\ tally'.lost = tally.lost /\ tally'.faults = tally.faults
      /\ tally'.switches = tally.switches /\ tally'.said = tally.said /\ tally'.short = tally.short
      /\ tally'.overlapped = tally.overlapped
  <2> DEFINE c == [tally.counted EXCEPT ![k] = @ + 1]
  <2>1. tally \in TallyDoc /\ tally.counted \in Counts
    BY <1>0 DEF UsageTypes, TallyDoc
  <2>2. c \in Counts /\ \A q \in Keys : c[q] = IF q = k THEN tally.counted[q] + 1 ELSE tally.counted[q]
    BY <1>2, <2>1 DEF Counts
  <2>3. tally' = [tally EXCEPT !.counted = c]
    BY <1>1, <2>1 DEF TallyDoc
  <2> HIDE DEF c
  <2> QED
    BY <2>1, <2>2, <2>3 DEF TallyDoc
<1>5. UsageTypes'
  BY <1>0, <1>1, <1>3, <1>4 DEF UsageTypes
<1>6. CountedOnce'
  <2> SUFFICES ASSUME NEW q \in Keys
               PROVE  tally'.counted[q] + tally'.twice[q]
                        = buffer'[q] + InFlight(q)' + counters'["mongo"][q] + counters'["postgres"][q] + tally'.lost[q]
    BY DEF CountedOnce
  <2>1. tally.counted[q] + tally.twice[q]
          = buffer[q] + InFlight(q) + counters["mongo"][q] + counters["postgres"][q] + tally.lost[q]
    BY DEF UsageInv, CountedOnce
  <2>2. InFlight(q)' = InFlight(q) /\ InFlight(q) \in Nat
    <3>1. \A g \in Flushers : flights[g].rest[q] \in Nat
      BY <1>0, FlightTypes, CountsTypes
    <3> QED
      BY <1>1, <3>1 DEF InFlight, Flushers
  <2>3. /\ tally.counted[q] \in Nat /\ tally.twice[q] \in Nat /\ tally.lost[q] \in Nat
        /\ counters["mongo"][q] \in Nat /\ counters["postgres"][q] \in Nat
    <3>1. tally.counted \in Counts /\ tally.twice \in Counts /\ tally.lost \in Counts
      BY <1>0 DEF UsageTypes, TallyDoc
    <3> QED
      BY <1>0, <3>1, CountsTypes, CounterTypes
  <2>4. counters'["mongo"][q] = counters["mongo"][q] /\ counters'["postgres"][q] = counters["postgres"][q]
    BY <1>1
  <2>5. tally'.twice[q] = tally.twice[q] /\ tally'.lost[q] = tally.lost[q]
    BY <1>4
  <2>6. CASE q = k
    BY <1>3, <1>4, <2>1, <2>2, <2>3, <2>4, <2>5, <2>6
  <2>7. CASE q # k
    BY <1>3, <1>4, <2>1, <2>2, <2>3, <2>4, <2>5, <2>7
  <2> QED
    BY <2>6, <2>7
<1>7. CopyKept'
  BY <1>1 DEF UsageInv, CopyKept
<1>8. FlightsKept'
  BY <1>1 DEF UsageInv, FlightsKept
<1>9. MemoryKept'
  <2> SUFFICES ASSUME ~tally.overlapped PROVE Cardinality(Held(buffer') \cup pending) <= MaxKeys
    BY <1>1, <1>4 DEF UsageInv, MemoryKept, Held
  <2>1. Held(buffer') = Held(buffer) \cup {k}
    BY <1>2, <1>3 DEF Held
  <2>2. Cardinality(Held(buffer) \cup pending) <= MaxKeys
    BY DEF UsageInv, MemoryKept
  <2>3. CASE k \in Held(buffer)
    <3>1. Held(buffer') \cup pending = Held(buffer) \cup pending
      BY <2>1, <2>3
    <3> QED
      BY <2>2, <3>1
  <2>4. CASE k \notin Held(buffer)
    <3>1. Cardinality(Held(buffer) \cup pending) < MaxKeys
      BY <1>1, <2>4 DEF Room
    <3>2. IsFiniteSet(Held(buffer) \cup pending)
      <4>1. IsFiniteSet(Keys)
        BY UsageAssumption, FS_Product DEF Keys
      <4> QED
        BY <1>0, <4>1, CountsTypes, FS_Subset DEF UsageTypes
    <3>3. Held(buffer') \cup pending = (Held(buffer) \cup pending) \cup {k}
      BY <2>1
    <3>4. Cardinality((Held(buffer) \cup pending) \cup {k}) <= Cardinality(Held(buffer) \cup pending) + 1
      BY <3>2, FS_AddElement, FS_CardinalityType
    <3>5. /\ Cardinality(Held(buffer) \cup pending) \in Nat /\ MaxKeys \in Nat
          /\ Cardinality((Held(buffer) \cup pending) \cup {k}) \in Nat
      BY <3>2, FS_AddElement, FS_CardinalityType, UsageAssumption
    <3>6. Cardinality((Held(buffer) \cup pending) \cup {k}) <= MaxKeys
      BY <3>1, <3>4, <3>5
    <3> QED
      BY <3>3, <3>6
  <2> QED
    BY <2>3, <2>4
<1>10. SwitchKept'
  <2>1. NoSwitchYet => NoSwitchYet'
    BY <1>1, <1>4 DEF NoSwitchYet
  <2>2. OneSwitch => OneSwitch'
    BY <1>0, <1>1, <1>2, <1>3 DEF OneSwitch, Since, UsageTypes
  <2> QED
    BY <1>0, <1>1, <1>4, <2>1, <2>2 DEF SwitchKept
<1>11. VerifiedIsWhole'
  BY <1>4 DEF UsageInv, VerifiedIsWhole
<1> QED
  BY <1>5, <1>6, <1>7, <1>8, <1>9, <1>10, <1>11 DEF UsageInv

(* A flush with nothing left to write ends.                                     *)
LEMMA EndOfFlush ==
    ASSUME UsageInv, NEW f \in Flushers, DayEnded(f), process # "down",
           flights' = [flights EXCEPT ![f] = NoFlush],
           UNCHANGED <<today, process, choice, buffer, pending, counters, history, doneKeys, inMemory, tally>>
    PROVE  /\ CountedOnce' /\ CopyKept' /\ MemoryKept' /\ FlightsKept' /\ VerifiedIsWhole'
           /\ flights' \in [Flushers -> FlightDoc]
           /\ \A g \in Flushers : flights'[g] = IF g = f THEN NoFlush ELSE flights[g]
<1>0. UsageTypes /\ FlightsKept
  BY DEF UsageInv
<1>1. NoFlush \in FlightDoc /\ NoFlush.rest = NoUsage /\ NoFlush.store = "none" /\ flights[f].rest = NoUsage
  BY IdleTypes DEF DayEnded
<1>2. /\ flights' \in [Flushers -> FlightDoc]
      /\ \A g \in Flushers : flights'[g] = IF g = f THEN NoFlush ELSE flights[g]
  BY <1>0, <1>1, FlightMoves
<1>3. \A g \in Flushers : flights'[g].rest = flights[g].rest
  BY <1>1, <1>2
<1>4. CountedOnce'
  <2>1. \A k \in Keys : InFlight(k)' = InFlight(k)
    BY <1>3 DEF InFlight, Flushers
  <2> QED
    BY <2>1 DEF UsageInv, CountedOnce
<1>5. CopyKept' /\ VerifiedIsWhole'
  BY DEF UsageInv, CopyKept, VerifiedIsWhole
<1>6. FlightsKept'
  BY <1>0, <1>1, <1>2 DEF FlightsKept
<1>7. MemoryKept'
  <2>1. MemoryKept
    BY DEF UsageInv
  <2>2. \A g \in Flushers : Held(flights[g].rest)' = Held(flights[g].rest) /\ Held(buffer)' = Held(buffer)
    BY <1>3 DEF Held
  <2>3. NoUsage' = NoUsage
    BY DEF NoUsage
  <2> QED
    BY <1>3, <2>1, <2>2, <2>3 DEF MemoryKept
<1> QED
  BY <1>2, <1>4, <1>5, <1>6, <1>7

LEMMA TickEndsStep ==
    ASSUME UsageInv, TickEnds
    PROVE  UsageInv'
<1>1. /\ "tick" \in Flushers /\ DayEnded("tick") /\ process # "down"
      /\ flights' = [flights EXCEPT !["tick"] = NoFlush]
      /\ UNCHANGED <<today, process, choice, buffer, pending, counters, history, doneKeys, inMemory, tally>>
      /\ UNCHANGED storage
  BY IdleTypes DEF TickEnds
<1>2. /\ CountedOnce' /\ CopyKept' /\ MemoryKept' /\ FlightsKept' /\ VerifiedIsWhole'
      /\ flights' \in [Flushers -> FlightDoc]
      /\ \A g \in Flushers : flights'[g] = IF g = "tick" THEN NoFlush ELSE flights[g]
  BY <1>1, EndOfFlush
<1>3. UsageTypes'
  BY <1>1, <1>2 DEF UsageInv, UsageTypes
<1>4. NoSwitchYet => NoSwitchYet'
  BY <1>1, <1>2, IdleTypes DEF NoSwitchYet
<1>5. OneSwitch => OneSwitch'
  BY <1>1, <1>2, IdleTypes DEF OneSwitch, Since
<1>6. SwitchKept'
  BY <1>1, <1>4, <1>5 DEF UsageInv, SwitchKept
<1> QED
  BY <1>2, <1>3, <1>6 DEF UsageInv

LEMMA SwitchStep ==
    ASSUME UsageInv, Switch
    PROVE  UsageInv'
<1> DEFINE chosen == [mode |-> flights["switch"].goal, since |-> flights["switch"].asked]
<1>1. /\ "switch" \in Flushers /\ DayEnded("switch") /\ process # "down"
      /\ flights' = [flights EXCEPT !["switch"] = NoFlush]
      /\ UNCHANGED <<today, process, choice, buffer, pending, counters, history, doneKeys, inMemory, tally>>
      /\ storage' = chosen
  BY IdleTypes DEF Switch
<1>2. /\ CountedOnce' /\ CopyKept' /\ MemoryKept' /\ FlightsKept' /\ VerifiedIsWhole'
      /\ flights' \in [Flushers -> FlightDoc]
      /\ \A g \in Flushers : flights'[g] = IF g = "switch" THEN NoFlush ELSE flights[g]
  BY <1>1, EndOfFlush
<1>3. flights["switch"].store # "none" /\ chosen.mode = flights["switch"].goal /\ chosen.since = flights["switch"].asked
  BY <1>1 DEF DayEnded, Flying
<1>4. chosen \in [mode : Stores, since : Nat]
  BY <1>1, <1>3, FlightTypes DEF UsageInv, FlightsKept, Stores
<1> HIDE DEF chosen
<1>5. UsageTypes'
  BY <1>1, <1>2, <1>4 DEF UsageInv, UsageTypes
<1>6. ~NoSwitchYet
  BY <1>3 DEF NoSwitchYet
<1>7. OneSwitch => OneSwitch'
  BY <1>1, <1>2, <1>3, IdleTypes DEF OneSwitch, Since
<1>8. SwitchKept'
  BY <1>1, <1>6, <1>7 DEF UsageInv, SwitchKept
<1> QED
  BY <1>2, <1>5, <1>8 DEF UsageInv

(* What dies with the process is booked as lost.                                *)
LEMMA DiesStep ==
    ASSUME UsageInv, NEW s \in Nat, Dies,
           tally' = [[tally EXCEPT !.stops = s] EXCEPT !.lost = [k \in Keys |-> tally.lost[k] + buffer[k] + InFlight(k)]]
    PROVE  UsageInv'
<1> DEFINE lost == [k \in Keys |-> tally.lost[k] + buffer[k] + InFlight(k)]
           late == [tally EXCEPT !.stops = s]
<1>0. UsageTypes /\ SwitchKept
  BY DEF UsageInv
<1>1. /\ process' = "down" /\ buffer' = NoUsage /\ pending' = {} /\ inMemory' = NoCopy
      /\ flights' = [f \in Flushers |-> NoFlush]
      /\ UNCHANGED <<today, storage, choice, counters, history, doneKeys>>
  BY DEF Dies
<1>2. \A k \in Keys : /\ buffer[k] \in Nat /\ InFlight(k) \in Nat
                      /\ counters["mongo"][k] \in Nat /\ counters["postgres"][k] \in Nat
                      /\ tally.lost[k] \in Nat /\ tally.twice[k] \in Nat /\ tally.counted[k] \in Nat
  <2>1. \A k \in Keys : \A g \in Flushers : flights[g].rest[k] \in Nat
    BY <1>0, FlightTypes, CountsTypes
  <2>2. \A k \in Keys : InFlight(k) \in Nat
    BY <2>1 DEF InFlight, Flushers
  <2>3. buffer \in Counts /\ tally.lost \in Counts /\ tally.twice \in Counts /\ tally.counted \in Counts
    BY <1>0 DEF UsageTypes, TallyDoc
  <2> QED
    BY <1>0, <2>2, <2>3, CountsTypes, CounterTypes
<1>3. lost \in Counts /\ \A k \in Keys : lost[k] = tally.lost[k] + buffer[k] + InFlight(k)
  BY <1>2 DEF Counts
<1>4. tally' = [late EXCEPT !.lost = lost]
  OBVIOUS
<1> HIDE DEF lost
<1>5. /\ late \in TallyDoc /\ late.counted = tally.counted /\ late.twice = tally.twice /\ late.faults = tally.faults
      /\ late.switches = tally.switches /\ late.said = tally.said /\ late.short = tally.short
  BY <1>0 DEF UsageTypes, TallyDoc
<1> HIDE DEF late
<1>6. /\ tally' \in TallyDoc /\ tally'.lost = lost /\ tally'.counted = tally.counted /\ tally'.twice = tally.twice
      /\ tally'.faults = tally.faults /\ tally'.switches = tally.switches
      /\ tally'.said = tally.said /\ tally'.short = tally.short
  BY <1>3, <1>4, <1>5, Zenon DEF TallyDoc
<1>7. /\ flights' \in [Flushers -> FlightDoc]
      /\ \A g \in Flushers : flights'[g] = NoFlush /\ flights'[g].rest = NoUsage /\ flights'[g].store = "none"
      /\ inMemory' \in CopyDoc /\ inMemory'.pc = "idle" /\ inMemory'.doc = NoUsage
  BY <1>1, IdleTypes
<1>8. /\ NoUsage \in Counts /\ Held(NoUsage) = {} /\ \A k \in Keys : NoUsage[k] = 0
  BY CountsTypes, NothingHeldIsNoUsage
<1>9. UsageTypes'
  BY <1>0, <1>1, <1>6, <1>7, <1>8 DEF UsageTypes
<1>10. FlightsKept'
  <2>1. NoFlush' = NoFlush /\ NoUsage' = NoUsage /\ NoCopy' = NoCopy
    BY DEF NoFlush, NoUsage, NoCopy
  <2>2. "switch" \in Flushers /\ "stop" \in Flushers
    BY IdleTypes
  <2>3. process' = "down" /\ buffer' = NoUsage /\ pending' = {} /\ inMemory' = NoCopy
    BY <1>1
  <2> QED
    BY <1>7, <2>1, <2>2, <2>3 DEF FlightsKept
<1>11. CountedOnce'
  <2> SUFFICES ASSUME NEW k \in Keys
               PROVE  tally'.counted[k] + tally'.twice[k]
                        = buffer'[k] + InFlight(k)' + counters'["mongo"][k] + counters'["postgres"][k] + tally'.lost[k]
    BY DEF CountedOnce
  <2>1. tally.counted[k] + tally.twice[k]
          = buffer[k] + InFlight(k) + counters["mongo"][k] + counters["postgres"][k] + tally.lost[k]
    BY DEF UsageInv, CountedOnce
  <2>2. InFlight(k)' = 0 + 0 + 0
    BY <1>7, <1>8 DEF InFlight, Flushers
  <2>3. buffer'[k] = 0 /\ counters' = counters
    BY <1>1, <1>8
  <2>4. tally'.counted[k] = tally.counted[k] /\ tally'.twice[k] = tally.twice[k]
        /\ tally'.lost[k] = tally.lost[k] + buffer[k] + InFlight(k)
    BY <1>3, <1>6
  <2>5. tally.counted[k] + tally.twice[k]
          = 0 + (0 + 0 + 0) + counters["mongo"][k] + counters["postgres"][k] + (tally.lost[k] + buffer[k] + InFlight(k))
    BY <1>2, <2>1
  <2> QED
    BY <2>2, <2>3, <2>4, <2>5
<1>12. CopyKept'
  <2>1. \A k \in Keys : inMemory'.doc[k] = 0 /\ counters["mongo"][k] \in Nat
    BY <1>2, <1>7, <1>8
  <2> QED
    BY <1>1, <2>1 DEF UsageInv, CopyKept
<1>13. MemoryKept'
  <2>1. Held(buffer') \cup pending' = {} /\ Cardinality({}) = 0 /\ MaxKeys \in Nat
    BY <1>1, <1>8, FS_EmptySet, UsageAssumption
  <2>2. Cardinality(Held(buffer') \cup pending') <= MaxKeys
    BY <2>1
  <2>3. \A g \in Flushers : Held(flights'[g].rest) = {}
    BY <1>7, <1>8
  <2> QED
    BY <1>7, <2>2, <2>3 DEF MemoryKept, Held, NoUsage
<1>14. SwitchKept'
  <2>1. NoSwitchYet => NoSwitchYet'
    BY <1>1, <1>6, <1>7, IdleTypes DEF NoSwitchYet
  <2>2. OneSwitch => OneSwitch'
    BY <1>1, <1>7, <1>8, IdleTypes DEF OneSwitch, Since
  <2> QED
    BY <1>0, <1>1, <1>6, <2>1, <2>2 DEF SwitchKept
<1>15. VerifiedIsWhole'
  BY <1>6 DEF UsageInv, VerifiedIsWhole
<1> QED
  BY <1>9, <1>10, <1>11, <1>12, <1>13, <1>14, <1>15 DEF UsageInv

LEMMA ServerEndsStep ==
    ASSUME UsageInv, EndStop \/ CountingStops
    PROVE  UsageInv'
<1>1. tally \in TallyDoc /\ tally.stops \in Nat /\ tally.stops + 1 \in Nat
  BY DEF UsageInv, UsageTypes, TallyDoc
<1>2. CASE EndStop
  <2>1. tally' = [[tally EXCEPT !.stops = tally.stops]
                    EXCEPT !.lost = [k \in Keys |-> tally.lost[k] + buffer[k] + InFlight(k)]]
    BY <1>1, <1>2 DEF EndStop, TallyDoc
  <2>2. Dies
    BY <1>2 DEF EndStop
  <2> QED
    BY <1>1, <2>1, <2>2, DiesStep, Zenon
<1>3. CASE CountingStops
  <2>1. tally' = [[tally EXCEPT !.stops = tally.stops + 1]
                    EXCEPT !.lost = [k \in Keys |-> tally.lost[k] + buffer[k] + InFlight(k)]]
    BY <1>1, <1>3 DEF CountingStops, TallyDoc
  <2>2. Dies
    BY <1>3 DEF CountingStops
  <2> QED
    BY <1>1, <2>1, <2>2, DiesStep, Zenon
<1> QED
  BY <1>2, <1>3

LEMMA StartAgainStep ==
    ASSUME UsageInv, NEW readable \in BOOLEAN, StartAgain(readable)
    PROVE  UsageInv'
<1>0. UsageTypes /\ SwitchKept /\ FlightsKept
  BY DEF UsageInv
<1>1. /\ process = "down" /\ process' = "up"
      /\ storage' = IF readable THEN choice ELSE [mode |-> "mongo", since |-> 0]
      /\ tally' = [tally EXCEPT !.overlapped = FALSE, !.said = "none", !.short = {}]
      /\ UNCHANGED <<today, choice, buffer, pending, flights, counters, history, doneKeys, inMemory>>
  BY DEF StartAgain
<1>2. /\ tally' \in TallyDoc /\ tally'.counted = tally.counted /\ tally'.twice = tally.twice
      /\ tally'.lost = tally.lost /\ tally'.faults = tally.faults /\ tally'.switches = tally.switches
      /\ tally'.said = "none"
  BY <1>0, <1>1 DEF UsageTypes, TallyDoc
<1>3. /\ buffer = NoUsage /\ pending = {} /\ inMemory = NoCopy
      /\ \A g \in Flushers : flights[g] = NoFlush /\ flights[g].store = "none" /\ flights[g].rest = NoUsage
  BY <1>0, <1>1, IdleTypes DEF FlightsKept
<1>4. storage' \in [mode : Stores, since : Nat]
  BY <1>0, <1>1 DEF UsageTypes, Stores
<1>5. UsageTypes'
  BY <1>0, <1>1, <1>2, <1>4 DEF UsageTypes
<1>6. FlightsKept'
  BY <1>0, <1>1, <1>3, IdleTypes DEF FlightsKept
<1>7. CountedOnce'
  BY <1>1, <1>2 DEF UsageInv, CountedOnce, InFlight
<1>8. CopyKept'
  BY <1>1 DEF UsageInv, CopyKept
<1>9. MemoryKept'
  <2>1. Held(NoUsage) = {}
    BY CountsTypes, NothingHeldIsNoUsage
  <2>2. Held(buffer) \cup pending = {} /\ Cardinality({}) = 0 /\ MaxKeys \in Nat
    BY <1>3, <2>1, FS_EmptySet, UsageAssumption
  <2>3. Cardinality(Held(buffer) \cup pending) <= MaxKeys
    BY <2>2
  <2> QED
    BY <1>1, <1>3, <2>1, <2>3 DEF MemoryKept, Held, NoUsage
<1>10. SwitchKept'
  <2>1. tally.switches = 0 => storage'.mode = "mongo"
    BY <1>0, <1>1 DEF SwitchKept
  <2>2. NoSwitchYet /\ tally.switches = 0 => NoSwitchYet'
    BY <1>1, <1>2, <2>1 DEF NoSwitchYet
  <2>3. OneSwitch => OneSwitch'
    BY <1>0, <1>1, <1>3 DEF OneSwitch, Since
  <2> QED
    BY <1>0, <1>1, <1>2, <2>2, <2>3 DEF SwitchKept
<1>11. VerifiedIsWhole'
  BY <1>2 DEF VerifiedIsWhole
<1> QED
  BY <1>5, <1>6, <1>7, <1>8, <1>9, <1>10, <1>11 DEF UsageInv

(* The steps of the copy, which change neither buffer nor flushes.              *)
LEMMA CopyStep ==
    ASSUME UsageInv, process # "down", inMemory' \in CopyDoc, history' \in Counts, doneKeys' \subseteq Keys,
           tally' \in TallyDoc, tally'.counted = tally.counted, tally'.twice = tally.twice,
           tally'.lost = tally.lost, tally'.switches = tally.switches, tally'.overlapped = tally.overlapped,
           tally'.faults = 0 => tally.faults = 0, CopyKept', VerifiedIsWhole',
           tally'.faults = 0 /\ tally.switches = 0 => inMemory'.pc = "idle" /\ tally'.said # "copied",
           tally'.faults = 0 /\ tally.switches = 1 /\ inMemory'.pc # "idle" => inMemory'.until = choice.since,
           UNCHANGED <<today, process, storage, choice, buffer, pending, flights, counters>>
    PROVE  UsageInv'
<1>1. UsageTypes'
  BY DEF UsageInv, UsageTypes
<1>2. FlightsKept' /\ MemoryKept'
  BY DEF UsageInv, FlightsKept, MemoryKept, Held, NoUsage, NoFlush
<1>3. CountedOnce'
  BY DEF UsageInv, CountedOnce, InFlight
<1>4. SwitchKept'
  BY DEF UsageInv, SwitchKept, NoSwitchYet, OneSwitch, Since
<1> QED
  BY <1>1, <1>2, <1>3, <1>4 DEF UsageInv

LEMMA StartCopyStep ==
    ASSUME UsageInv, StartCopy
    PROVE  UsageInv'
<1>0. UsageTypes /\ SwitchKept /\ CopyKept
  BY DEF UsageInv
<1> DEFINE first == IF storage.since = 0 THEN today ELSE storage.since
<1>1. /\ process = "up" /\ storage.mode = "postgres" /\ inMemory.pc = "idle"
      /\ inMemory' = [NoCopy EXCEPT !.pc = "scan", !.until = first]
      /\ tally' = [tally EXCEPT !.said = "none", !.short = {}]
      /\ UNCHANGED <<today, process, storage, choice, buffer, pending, flights, counters, history, doneKeys>>
  BY DEF StartCopy
<1>2. /\ tally' \in TallyDoc /\ tally'.counted = tally.counted /\ tally'.twice = tally.twice
      /\ tally'.lost = tally.lost /\ tally'.faults = tally.faults /\ tally'.switches = tally.switches
      /\ tally'.overlapped = tally.overlapped /\ tally'.said = "none"
  BY <1>0, <1>1 DEF UsageTypes, TallyDoc
<1>3. first \in Nat
  BY <1>0 DEF UsageTypes
<1>4. tally.faults = 0 => tally.switches # 0
  BY <1>0, <1>1 DEF SwitchKept, NoSwitchYet
<1>5. tally.faults = 0 /\ tally.switches = 1 => first = choice.since
  BY <1>0, <1>1 DEF SwitchKept, OneSwitch, UsageTypes
<1> HIDE DEF first
<1>6. inMemory' \in CopyDoc /\ inMemory'.pc = "scan" /\ inMemory'.until = first /\ inMemory'.doc = NoUsage
  BY <1>1, <1>3, CountsTypes DEF NoCopy, CopyDoc
<1>7. CopyKept'
  <2>1. \A k \in Keys : NoUsage[k] = 0 /\ counters["mongo"][k] \in Nat
    BY <1>0, CountsTypes, CounterTypes
  <2> QED
    BY <1>0, <1>1, <1>6, <2>1 DEF CopyKept
<1>8. VerifiedIsWhole'
  BY <1>2 DEF VerifiedIsWhole
<1> QED
  BY <1>0, <1>1, <1>2, <1>4, <1>5, <1>6, <1>7, <1>8, CopyStep DEF UsageTypes

LEMMA ReadDocumentStep ==
    ASSUME UsageInv, NEW k \in Keys, ReadDocument(k)
    PROVE  UsageInv'
<1>0. UsageTypes /\ SwitchKept /\ CopyKept
  BY DEF UsageInv
<1> DEFINE read == Only(counters["mongo"], {k})
<1>1. /\ process # "down" /\ inMemory.pc = "scan"
      /\ inMemory' = [inMemory EXCEPT !.pc = "read", !.seen = @ \cup {k}, !.doc = read]
      /\ UNCHANGED <<today, process, storage, choice, buffer, pending, flights, counters, history, doneKeys>>
      /\ UNCHANGED tally
  BY DEF ReadDocument
<1>2. /\ read \in Counts
      /\ \A q \in Keys : read[q] <= counters["mongo"][q]
  <2>1. counters["mongo"] \in Counts
    BY <1>0, CounterTypes
  <2>2. \A q \in Keys : counters["mongo"][q] \in Nat /\ read[q] = IF q \in {k} THEN counters["mongo"][q] ELSE 0
    BY <2>1, CountsTypes
  <2> QED
    BY <2>1, <2>2, CountsTypes
<1> HIDE DEF read
<1>3. inMemory \in CopyDoc
  BY <1>0 DEF UsageTypes
<1>4. inMemory' \in CopyDoc /\ inMemory'.pc = "read" /\ inMemory'.until = inMemory.until /\ inMemory'.doc = read
  BY <1>1, <1>2, <1>3 DEF CopyDoc
<1>5. CopyKept'
  BY <1>0, <1>1, <1>2, <1>4 DEF CopyKept
<1>6. VerifiedIsWhole'
  BY <1>1 DEF UsageInv, VerifiedIsWhole
<1>7. /\ tally.faults = 0 => tally.switches # 0
      /\ tally.faults = 0 /\ tally.switches = 1 => inMemory.until = choice.since
  BY <1>0, <1>1 DEF SwitchKept, NoSwitchYet, OneSwitch
<1> QED
  BY <1>0, <1>1, <1>4, <1>5, <1>6, <1>7, CopyStep DEF UsageTypes

(* The transaction of a document takes what it holds once.                      *)
LEMMA CopiedKept ==
    ASSUME UsageInv, NEW done, done = doneKeys \cup Held(inMemory.doc),
           NEW copied, copied = Plus(history, Only(inMemory.doc, NewInLedger(Held(inMemory.doc))))
    PROVE  /\ copied \in Counts /\ done \subseteq Keys
           /\ \A k \in Keys : copied[k] <= counters["mongo"][k] /\ (k \notin done => copied[k] = 0)
<1> DEFINE new == Only(inMemory.doc, NewInLedger(Held(inMemory.doc)))
<1>0. UsageTypes /\ CopyKept
  BY DEF UsageInv
<1>1. inMemory.doc \in Counts /\ history \in Counts /\ doneKeys \subseteq Keys
  BY <1>0 DEF UsageTypes, CopyDoc
<1>2. /\ new \in Counts
      /\ \A k \in Keys : new[k] = IF k \in Held(inMemory.doc) \ doneKeys THEN inMemory.doc[k] ELSE 0
  BY <1>1, CountsTypes DEF NewInLedger
<1>3. copied \in Counts /\ \A k \in Keys : copied[k] = history[k] + new[k]
  BY <1>1, <1>2, CountsTypes
<1>4. \A k \in Keys : history[k] \in Nat /\ inMemory.doc[k] \in Nat /\ counters["mongo"][k] \in Nat
  BY <1>0, <1>1, CountsTypes, CounterTypes
<1>5. done \subseteq Keys
  BY <1>1, CountsTypes
<1> HIDE DEF new
<1>6. ASSUME NEW k \in Keys PROVE copied[k] <= counters["mongo"][k] /\ (k \notin done => copied[k] = 0)
  <2>1. /\ history[k] <= counters["mongo"][k] /\ inMemory.doc[k] <= counters["mongo"][k]
        /\ (k \notin doneKeys => history[k] = 0)
    BY <1>0 DEF CopyKept
  <2> QED
    BY <1>2, <1>3, <1>4, <2>1
<1> QED
  BY <1>3, <1>5, <1>6

LEMMA CopyDocumentStep ==
    ASSUME UsageInv, CopyDocument
    PROVE  UsageInv'
<1>0. UsageTypes /\ SwitchKept /\ CopyKept
  BY DEF UsageInv
<1>1. /\ process # "down" /\ inMemory.pc = "read"
      /\ history' = Plus(history, Only(inMemory.doc, NewInLedger(Held(inMemory.doc))))
      /\ doneKeys' = doneKeys \cup Held(inMemory.doc)
      /\ inMemory' = [inMemory EXCEPT !.pc = "scan", !.doc = NoUsage]
      /\ UNCHANGED <<today, process, storage, choice, buffer, pending, flights, counters>>
      /\ UNCHANGED tally
  BY DEF CopyDocument
<1>2. /\ history' \in Counts /\ doneKeys' \subseteq Keys
      /\ \A k \in Keys : history'[k] <= counters["mongo"][k] /\ (k \notin doneKeys' => history'[k] = 0)
  BY <1>1, CopiedKept
<1>3. inMemory \in CopyDoc /\ NoUsage \in Counts
  BY <1>0, CountsTypes DEF UsageTypes
<1>4. inMemory' \in CopyDoc /\ inMemory'.pc = "scan" /\ inMemory'.until = inMemory.until /\ inMemory'.doc = NoUsage
  BY <1>1, <1>3 DEF CopyDoc
<1>5. CopyKept'
  <2>1. \A k \in Keys : NoUsage[k] = 0 /\ counters["mongo"][k] \in Nat
    BY <1>0, CountsTypes, CounterTypes
  <2> QED
    BY <1>1, <1>2, <1>4, <2>1 DEF CopyKept
<1>6. VerifiedIsWhole'
  BY <1>1 DEF UsageInv, VerifiedIsWhole
<1>7. /\ tally.faults = 0 => tally.switches # 0
      /\ tally.faults = 0 /\ tally.switches = 1 => inMemory.until = choice.since
  BY <1>0, <1>1 DEF SwitchKept, NoSwitchYet, OneSwitch
<1> QED
  BY <1>0, <1>1, <1>2, <1>4, <1>5, <1>6, <1>7, CopyStep DEF UsageTypes

LEMMA CopyFailsStep ==
    ASSUME UsageInv, NEW committed \in BOOLEAN, CopyFails(committed)
    PROVE  UsageInv'
<1>0. UsageTypes /\ SwitchKept /\ CopyKept
  BY DEF UsageInv
<1>1. /\ process # "down" /\ inMemory' = NoCopy
      /\ \/ /\ history' = Plus(history, Only(inMemory.doc, NewInLedger(Held(inMemory.doc))))
            /\ doneKeys' = doneKeys \cup Held(inMemory.doc)
         \/ UNCHANGED <<history, doneKeys>>
      /\ tally' = [tally EXCEPT !.faults = @ + 1]
      /\ UNCHANGED <<today, process, storage, choice, buffer, pending, flights, counters>>
  BY DEF CopyFails
<1>2. /\ history' \in Counts /\ doneKeys' \subseteq Keys
      /\ \A k \in Keys : history'[k] <= counters["mongo"][k] /\ (k \notin doneKeys' => history'[k] = 0)
  <2>1. CASE UNCHANGED <<history, doneKeys>>
    BY <1>0, <2>1 DEF UsageTypes, CopyKept
  <2>2. CASE /\ history' = Plus(history, Only(inMemory.doc, NewInLedger(Held(inMemory.doc))))
             /\ doneKeys' = doneKeys \cup Held(inMemory.doc)
    BY <2>2, CopiedKept
  <2> QED
    BY <1>1, <2>1, <2>2
<1>3. inMemory' \in CopyDoc /\ inMemory'.pc = "idle" /\ inMemory'.doc = NoUsage
  BY <1>1, IdleTypes
<1>4. /\ tally' \in TallyDoc /\ tally'.counted = tally.counted /\ tally'.twice = tally.twice
      /\ tally'.lost = tally.lost /\ tally'.faults = tally.faults + 1 /\ tally'.switches = tally.switches
      /\ tally'.overlapped = tally.overlapped /\ tally.faults \in Nat
  BY <1>0, <1>1 DEF UsageTypes, TallyDoc
<1>5. tally'.faults # 0
  BY <1>4
<1>6. CopyKept'
  <2>1. \A k \in Keys : NoUsage[k] = 0 /\ counters["mongo"][k] \in Nat
    BY <1>0, CountsTypes, CounterTypes
  <2> QED
    BY <1>1, <1>2, <1>3, <2>1 DEF CopyKept
<1>7. VerifiedIsWhole'
  BY <1>5 DEF VerifiedIsWhole
<1> QED
  BY <1>0, <1>1, <1>2, <1>3, <1>4, <1>5, <1>6, <1>7, CopyStep DEF UsageTypes

(* The totals of two functions agree, one nowhere above the other: they are the same. *)
LEMMA EventsFinite ==
    ASSUME NEW c \in Counts, NEW n
    PROVE  IsFiniteSet(OldEvents(c, n))
<1> DEFINE S == {o \in Old : o[2] = n}
           row == [k \in S |-> {k} \X (1 .. c[k])]
           T == {{k} \X (1 .. c[k]) : k \in S}
<1>1. IsFiniteSet(Keys)
  BY UsageAssumption, FS_Product DEF Keys
<1>2. S \subseteq Keys /\ IsFiniteSet(S)
  BY <1>1, FS_Subset DEF Old
<1>3. row \in Surjection(S, T)
  BY DEF Surjection
<1>4. IsFiniteSet(T)
  BY <1>2, <1>3, FS_Surjection
<1>5. ASSUME NEW k \in S PROVE IsFiniteSet({k} \X (1 .. c[k]))
  <2>1. c[k] \in Nat
    BY <1>2, CountsTypes
  <2>2. IsFiniteSet({k})
    BY FS_Singleton
  <2>3. IsFiniteSet(1 .. c[k])
    BY <2>1, FS_Interval
  <2> QED
    BY <2>2, <2>3, FS_Product
<1>6. \A r \in T : IsFiniteSet(r)
  BY <1>5
<1>7. IsFiniteSet(UNION T)
  <2> HIDE DEF T
  <2> QED
    BY <1>4, <1>6, FS_UNION
<1> QED
  BY <1>7 DEF OldEvents

LEMMA SameTotals ==
    ASSUME NEW c \in Counts, NEW e \in Counts, \A k \in Old : c[k] <= e[k],
           \A n \in Names : OldTotal(c, n) = OldTotal(e, n)
    PROVE  \A k \in Old : c[k] = e[k]
<1> SUFFICES ASSUME NEW k \in Old PROVE c[k] = e[k]
  OBVIOUS
<1>1. k \in Keys /\ k[2] \in Names
  BY DEF Old, Keys
<1> DEFINE n == k[2]
<1>2. \A o \in Old : c[o] \in Nat /\ e[o] \in Nat
  BY CountsTypes DEF Old
<1>3. OldEvents(c, n) \subseteq OldEvents(e, n)
  <2> SUFFICES ASSUME NEW x \in OldEvents(c, n) PROVE x \in OldEvents(e, n)
    OBVIOUS
  <2>1. PICK o \in {o \in Old : o[2] = n} : x \in {o} \X (1 .. c[o])
    BY DEF OldEvents
  <2>2. x \in {o} \X (1 .. e[o])
    BY <1>2, <2>1
  <2> QED
    BY <2>1, <2>2 DEF OldEvents
<1>4. OldEvents(c, n) = OldEvents(e, n)
  <2>1. IsFiniteSet(OldEvents(e, n)) /\ Cardinality(OldEvents(e, n)) = Cardinality(OldEvents(c, n))
    BY <1>1, EventsFinite DEF OldTotal
  <2> QED
    BY <1>3, <2>1, FS_Subset
<1>5. CASE e[k] # 0
  <2>1. <<k, e[k]>> \in {k} \X (1 .. e[k])
    BY <1>2, <1>5
  <2>2. <<k, e[k]>> \in OldEvents(c, n)
    BY <1>4, <2>1 DEF OldEvents
  <2>3. PICK o \in {o \in Old : o[2] = n} : <<k, e[k]>> \in {o} \X (1 .. c[o])
    BY <2>2 DEF OldEvents
  <2> QED
    BY <1>2, <2>3
<1>6. CASE e[k] = 0
  BY <1>2, <1>6
<1> QED
  BY <1>5, <1>6

LEMMA VerifyStep ==
    ASSUME UsageInv, Verify
    PROVE  UsageInv'
<1>0. UsageTypes /\ SwitchKept /\ CopyKept
  BY DEF UsageInv
<1> DEFINE verdict == IF Verified THEN "copied" ELSE "differs"
           missing == {k \in Old : history[k] # counters["mongo"][k]}
<1>1. /\ process # "down" /\ inMemory.pc = "scan" /\ inMemory' = NoCopy
      /\ tally' = [tally EXCEPT !.said = verdict, !.short = missing]
      /\ UNCHANGED <<today, process, storage, choice, buffer, pending, flights, counters, history, doneKeys>>
  BY DEF Verify
<1>2. verdict \in {"none", "copied", "differs"} /\ (verdict = "copied" => Verified) /\ missing \in SUBSET Keys
  BY DEF Old
<1> HIDE DEF verdict, missing
<1>3. /\ tally' \in TallyDoc /\ tally'.counted = tally.counted /\ tally'.twice = tally.twice
      /\ tally'.lost = tally.lost /\ tally'.faults = tally.faults /\ tally'.switches = tally.switches
      /\ tally'.overlapped = tally.overlapped /\ tally'.said = verdict /\ tally'.short = missing
  <2>1. tally \in TallyDoc
    BY <1>0 DEF UsageTypes
  <2> DEFINE t == [tally EXCEPT !.said = verdict]
  <2>2. tally' = [t EXCEPT !.short = missing]
    BY <1>1, <2>1 DEF TallyDoc
  <2>3. /\ t \in TallyDoc /\ t.counted = tally.counted /\ t.twice = tally.twice
        /\ t.lost = tally.lost /\ t.faults = tally.faults /\ t.switches = tally.switches
        /\ t.overlapped = tally.overlapped /\ t.said = verdict
    BY <1>2, <2>1 DEF TallyDoc
  <2> HIDE DEF t
  <2> QED
    BY <1>2, <2>2, <2>3 DEF TallyDoc
<1>4. inMemory' \in CopyDoc /\ inMemory'.pc = "idle" /\ inMemory'.doc = NoUsage
  BY <1>1, IdleTypes
<1>5. CopyKept'
  <2>1. \A k \in Keys : NoUsage[k] = 0 /\ counters["mongo"][k] \in Nat
    BY <1>0, CountsTypes, CounterTypes
  <2> QED
    BY <1>0, <1>1, <1>4, <2>1 DEF CopyKept
<1>6. tally.faults = 0 => tally.switches # 0
  BY <1>0, <1>1 DEF SwitchKept, NoSwitchYet
<1>7. VerifiedIsWhole'
  <2> SUFFICES ASSUME verdict = "copied", tally.switches = 1, tally.faults = 0 PROVE missing = {}
    BY <1>3 DEF VerifiedIsWhole
  <2> DEFINE total == Plus(counters["postgres"], history)
  <2>1. OneSwitch /\ inMemory.until = choice.since
    BY <1>0, <1>1 DEF SwitchKept, OneSwitch
  <2>2. counters["postgres"] \in Counts /\ history \in Counts /\ counters["mongo"] \in Counts
    BY <1>0, CounterTypes DEF UsageTypes
  <2>3. \A k \in Keys : /\ counters["postgres"][k] \in Nat /\ history[k] \in Nat /\ counters["mongo"][k] \in Nat
                        /\ total[k] = counters["postgres"][k] + history[k]
    BY <2>2, CountsTypes
  <2>4. total \in Counts
    BY <2>2, CountsTypes
  <2>5. ASSUME NEW k \in Old PROVE total[k] = history[k] /\ total[k] <= counters["mongo"][k]
    <3>1. k \in Keys /\ k[1] < choice.since /\ k[1] \in Nat /\ choice.since \in Nat
      BY <1>0, <2>1, UsageAssumption DEF Old, UsageTypes, Keys
    <3>2. counters["postgres"][k] = 0
      BY <2>1, <2>3, <3>1 DEF OneSwitch, Since
    <3> QED
      BY <1>0, <2>3, <3>1, <3>2 DEF CopyKept
  <2>6. \A n \in Names : OldTotal(total, n) = OldTotal(counters["mongo"], n)
    BY <1>2 DEF Verified
  <2> HIDE DEF total
  <2>7. \A k \in Old : total[k] = counters["mongo"][k]
    BY <2>2, <2>4, <2>5, <2>6, SameTotals
  <2> QED
    BY <2>5, <2>7 DEF missing
<1> QED
  BY <1>0, <1>1, <1>3, <1>4, <1>5, <1>6, <1>7, CopyStep DEF UsageTypes

LEMMA UsageInvStep == UsageInv /\ [UsageNext]_usageVars => UsageInv'
<1> SUFFICES ASSUME UsageInv, [UsageNext]_usageVars PROVE UsageInv'
  OBVIOUS
<1>1. CASE UNCHANGED usageVars
  BY <1>1 DEF usageVars, UsageInv, UsageTypes, FlightsKept, CountedOnce, InFlight, CopyKept, MemoryKept, Held,
              SwitchKept, NoSwitchYet, OneSwitch, Since, VerifiedIsWhole, NoUsage, NoFlush, NoCopy
<1>2. CASE NextDay \/ MidnightPasses \/ TickEnds \/ Switch \/ BeginStop \/ EndStop \/ CountingStops
  BY <1>2, NextDayStep, MidnightStep, TickEndsStep, SwitchStep, BeginStopStep, ServerEndsStep
<1>3. CASE StartCopy \/ CopyDocument \/ Verify
  BY <1>3, StartCopyStep, CopyDocumentStep, VerifyStep
<1>4. CASE \E n \in Names : Count(n)
  BY <1>4, CountStep
<1>5. CASE \E f \in Flushers : WriteChunk(f) \/ ChunkFails(f) \/ WriteRows(f)
  BY <1>5, WriteChunkStep, ChunkFailsStep, WriteRowsStep
<1>6. CASE \E f \in Flushers, committed \in BOOLEAN : RowsFail(f, committed)
  BY <1>6, RowsFailStep
<1>7. CASE \E m \in Stores : AskSwitch(m)
  BY <1>7, AskSwitchStep
<1>8. CASE \E readable \in BOOLEAN : StartAgain(readable)
  BY <1>8, StartAgainStep
<1>9. CASE \E k \in Keys : ReadDocument(k)
  BY <1>9, ReadDocumentStep
<1>10. CASE \E committed \in BOOLEAN : CopyFails(committed)
  BY <1>10, CopyFailsStep
<1> QED
  BY <1>1, <1>2, <1>3, <1>4, <1>5, <1>6, <1>7, <1>8, <1>9, <1>10 DEF UsageNext

(* Each event is counted once, or counted again only by a write reported failed,  *)
(* or lost only with the process; the copy of the history takes each counter      *)
(* once; memory keeps its bound; and what is said to be copied is whole           *)
(* (_flush_once, switch_storage, the import of the history).                      *)
THEOREM UsageHolds == UsageSpec => []UsageSound
<1>1. UsageInv => UsageSound
  <2> SUFFICES ASSUME UsageInv PROVE UsageSound
    OBVIOUS
  <2>1. CopiedOnce
    BY DEF UsageInv, CopyKept, CopiedOnce
  <2>2. MemoryBounded
    <3> SUFFICES ASSUME ~tally.overlapped
                 PROVE  Cardinality(Held(buffer) \cup UNION {Held(flights[f].rest) : f \in Flushers}) <= MaxKeys
      BY DEF MemoryBounded
    <3>1. Held(buffer) \cup UNION {Held(flights[f].rest) : f \in Flushers} \subseteq Held(buffer) \cup pending
      BY DEF UsageInv, MemoryKept
    <3>2. Cardinality(Held(buffer) \cup pending) <= MaxKeys /\ UsageTypes
      BY DEF UsageInv, MemoryKept
    <3> QED
      BY <3>1, <3>2, HeldIsBounded
  <2> QED
    BY <2>1, <2>2 DEF UsageInv, UsageSound
<1> QED
  BY <1>1, UsageInvInit, UsageInvStep, PTL DEF UsageSpec

-----------------------------------------------------------------------------
(* The vetting of a nomination (Vetting).                                      *)

Applied == [status : {"pending", "gone"} \cup Resolved, votes : [Panel -> Votes],
            cleared : BOOLEAN, rejected : BOOLEAN, override : BOOLEAN, undecided : BOOLEAN,
            handled : BOOLEAN, tied : BOOLEAN, cert : Nat]

Deciders == {"candidate", "certificate", "stamp", "undo", "putback"}

Stages == Deciders \cup {"idle", "cast", "reread", "tally", "tie", "notie", "resweep", "sweep", "closeout", "handover",
                         "flip", "revert", "takeoff", "removed", "delete", "deactivate"}

Kinds == {"none", "vote", "resweep", "tiebreak", "closeout", "decision", "force", "revert", "soft", "hard"}

HandlerDoc == [pc : Stages, kind : Kinds, doc : Applied, who : SUBSET Panel, vote : Votes, row : SUBSET Nat]

UndoIsMarked == \A h \in Handlers : handlers[h].pc \in {"undo", "putback"} => "failed" \in marks

VettingTypes ==
    /\ app \in Applied /\ archive \in Applied
    /\ ballot \subseteq Nat /\ certs \subseteq Nat
    /\ active \subseteq Panel /\ policy \in Policies /\ ended \in BOOLEAN
    /\ handlers \in [Handlers -> HandlerDoc]
    /\ approved \in Nat /\ events \in Nat
    /\ UndoIsMarked

LEMMA BlankApplications ==
    /\ NoVotes \in [Panel -> Votes] /\ NoApp \in Applied /\ Submitted \in Applied
    /\ NoApp.status = "gone" /\ Submitted.status = "pending" /\ Submitted.votes = NoVotes
    /\ ~Submitted.rejected /\ ~Submitted.handled /\ NoApp.cert = 0
BY DEF NoVotes, Votes, NoApp, Submitted, Applied, Resolved

LEMMA Readings ==
    /\ Idle \in HandlerDoc /\ Idle.pc = "idle" /\ Idle.kind = "none" /\ Idle.doc = NoApp /\ Idle.row = {}
    /\ app \in Applied => \A pc \in Stages, kind \in Kinds :
           /\ Reading(pc, kind) \in HandlerDoc
           /\ Reading(pc, kind).pc = pc /\ Reading(pc, kind).kind = kind /\ Reading(pc, kind).doc = app
           /\ Reading(pc, kind).who = {} /\ Reading(pc, kind).vote = "none" /\ Reading(pc, kind).row = {}
<1>1. Idle \in HandlerDoc /\ Idle.pc = "idle" /\ Idle.kind = "none" /\ Idle.doc = NoApp /\ Idle.row = {}
  BY BlankApplications DEF Idle, HandlerDoc, Stages, Kinds, Votes
<1>2. ASSUME app \in Applied, NEW pc \in Stages, NEW kind \in Kinds
      PROVE /\ Reading(pc, kind) \in HandlerDoc
            /\ Reading(pc, kind).pc = pc /\ Reading(pc, kind).kind = kind /\ Reading(pc, kind).doc = app
            /\ Reading(pc, kind).who = {} /\ Reading(pc, kind).vote = "none" /\ Reading(pc, kind).row = {}
  <2>1. Idle.who = {} /\ Idle.vote = "none" /\ Idle.row = {}
    BY DEF Idle
  <2>2. Reading(pc, kind) = [[[Idle EXCEPT !.pc = pc] EXCEPT !.kind = kind] EXCEPT !.doc = app]
    BY DEF Reading
  <2>3. [Idle EXCEPT !.pc = pc] \in HandlerDoc
    BY <1>1 DEF HandlerDoc
  <2>4. [[Idle EXCEPT !.pc = pc] EXCEPT !.kind = kind] \in HandlerDoc
    BY <2>3 DEF HandlerDoc
  <2> QED
    BY <1>1, <1>2, <2>1, <2>2, <2>3, <2>4 DEF HandlerDoc
<1> QED
  BY <1>1, <1>2

\* What a handler does with its own record.
Acts(h, r) == r \in HandlerDoc /\ handlers' = [handlers EXCEPT ![h] = r]

LEMMA ActsOnly ==
    ASSUME VettingTypes, NEW h \in Handlers, NEW r, Acts(h, r)
    PROVE /\ handlers' \in [Handlers -> HandlerDoc] /\ handlers'[h] = r
          /\ \A g \in Handlers \ {h} : handlers'[g] = handlers[g]
BY DEF Acts, VettingTypes

LEMMA VettingTypesInit == VettingInit => VettingTypes
<1> SUFFICES ASSUME VettingInit PROVE VettingTypes
  OBVIOUS
<1>1. handlers = [h \in Handlers |-> Idle] /\ app = Submitted /\ archive = NoApp
  BY DEF VettingInit
<1>2. handlers \in [Handlers -> HandlerDoc] /\ \A h \in Handlers : handlers[h].pc = "idle"
  BY <1>1, Readings
<1>3. UndoIsMarked
  BY <1>2 DEF UndoIsMarked
<1>4. active \subseteq Panel /\ policy \in Policies /\ ended \in BOOLEAN /\ approved \in Nat /\ events \in Nat
      /\ ballot \subseteq Nat /\ certs \subseteq Nat
  BY DEF VettingInit, Policies
<1> QED
  BY <1>1, <1>2, <1>3, <1>4, BlankApplications DEF VettingTypes

\* Who acts, and what becomes of its record.
LEMMA Steps ==
    ASSUME VettingTypes, NEW h \in Handlers
    PROVE /\ \A pc \in Stages : Goto(h, pc) => /\ Acts(h, [handlers[h] EXCEPT !.pc = pc])
                                               /\ [handlers[h] EXCEPT !.pc = pc].pc = pc
          /\ Done(h) => Acts(h, Idle)
          /\ \A r \in HandlerDoc : Start(h, r) => Acts(h, r) /\ handlers[h].pc = "idle"
<1>1. handlers[h] \in HandlerDoc BY DEF VettingTypes
<1>2. ASSUME NEW pc \in Stages PROVE [handlers[h] EXCEPT !.pc = pc] \in HandlerDoc /\ [handlers[h] EXCEPT !.pc = pc].pc = pc
  BY <1>1 DEF HandlerDoc
<1>3. ASSUME NEW pc \in Stages, Goto(h, pc) PROVE handlers' = [handlers EXCEPT ![h] = [handlers[h] EXCEPT !.pc = pc]]
  BY <1>1, <1>3 DEF Goto, VettingTypes
<1> QED
  BY <1>2, <1>3, Readings DEF Done, Start, Acts

\* What a step may make of the application.
LEMMA AppTypes ==
    ASSUME app \in Applied, archive \in Applied
    PROVE /\ \A p \in Panel, v \in Votes : [app EXCEPT !.votes[p] = v] \in Applied
          /\ \A b \in BOOLEAN : [app EXCEPT !.tied = b] \in Applied /\ [app EXCEPT !.cleared = b] \in Applied
          /\ HandedOver \in Applied /\ Reversed \in Applied
          /\ \A s \in {"approved", "denied"}, b \in BOOLEAN :
                [app EXCEPT !.status = s, !.tied = FALSE, !.undecided = FALSE, !.handled = @ \/ b] \in Applied
          /\ \A c \in Nat : [app EXCEPT !.cert = c] \in Applied
          /\ \A s \in {"pending", "gone"} \cup Resolved : [app EXCEPT !.status = s] \in Applied
          /\ [app EXCEPT !.status = "denied", !.rejected = TRUE] \in Applied
          /\ \A b \in BOOLEAN : [app EXCEPT !.status = "pending", !.rejected = FALSE, !.cleared = b] \in Applied
          /\ \A s \in {"approved", "denied"} : [app EXCEPT !.status = s, !.override = TRUE, !.tied = FALSE] \in Applied
          /\ [app EXCEPT !.status = "pending", !.votes = NoVotes, !.override = FALSE, !.tied = FALSE, !.cert = 0] \in Applied
          /\ [app EXCEPT !.status = "removed", !.override = TRUE] \in Applied
          /\ RestoredApp(archive) \in Applied
<1>1. /\ \A p \in Panel, v \in Votes : [app EXCEPT !.votes[p] = v] \in Applied
      /\ \A b \in BOOLEAN : [app EXCEPT !.tied = b] \in Applied /\ [app EXCEPT !.cleared = b] \in Applied
      /\ \A c \in Nat : [app EXCEPT !.cert = c] \in Applied
      /\ \A s \in {"pending", "gone"} \cup Resolved : [app EXCEPT !.status = s] \in Applied
  BY DEF Applied
<1>2. HandedOver \in Applied
  BY DEF Applied, HandedOver
<1>3. Reversed \in Applied
  BY BlankApplications DEF Applied, Reversed
<1>4. \A s \in {"approved", "denied"}, b \in BOOLEAN :
          [app EXCEPT !.status = s, !.tied = FALSE, !.undecided = FALSE, !.handled = @ \/ b] \in Applied
  BY Zenon DEF Applied, Resolved
<1>5. /\ [app EXCEPT !.status = "denied", !.rejected = TRUE] \in Applied
      /\ [app EXCEPT !.status = "removed", !.override = TRUE] \in Applied
  BY DEF Applied, Resolved
<1>6. \A b \in BOOLEAN : [app EXCEPT !.status = "pending", !.rejected = FALSE, !.cleared = b] \in Applied
  BY DEF Applied
<1>7. \A s \in {"approved", "denied"} : [app EXCEPT !.status = s, !.override = TRUE, !.tied = FALSE] \in Applied
  BY DEF Applied, Resolved
<1>8. [app EXCEPT !.status = "pending", !.votes = NoVotes, !.override = FALSE, !.tied = FALSE, !.cert = 0] \in Applied
  BY BlankApplications DEF Applied
<1>9. RestoredApp(archive) \in Applied
  BY BlankApplications DEF Applied, RestoredApp
<1> QED
  BY <1>1, <1>2, <1>3, <1>4, <1>5, <1>6, <1>7, <1>8, <1>9, Zenon

Turns(h, pc, kind, doc, row) ==
    /\ handlers' \in [Handlers -> HandlerDoc]
    /\ \A g \in Handlers \ {h} : handlers'[g] = handlers[g]
    /\ handlers'[h].pc = pc /\ handlers'[h].kind = kind /\ handlers'[h].doc = doc /\ handlers'[h].row = row

Goes(h, pc) == Turns(h, pc, handlers[h].kind, handlers[h].doc, handlers[h].row)
Ends(h) == Turns(h, "idle", "none", NoApp, {})
Begins(h, pc, kind, row) == handlers[h].pc = "idle" /\ Turns(h, pc, kind, app, row)

LEMMA TurnsIf ==
    ASSUME VettingTypes, NEW h \in Handlers, NEW r, Acts(h, r)
    PROVE Turns(h, r.pc, r.kind, r.doc, r.row)
BY ActsOnly DEF Turns

LEMMA PlainTurns ==
    ASSUME VettingTypes, NEW h \in Handlers
    PROVE /\ \A pc \in Stages : Goto(h, pc) => Goes(h, pc)
          /\ Done(h) => Ends(h)
          /\ \A pc \in Stages, kind \in Kinds : Start(h, Reading(pc, kind)) => Begins(h, pc, kind, {})
<1>1. ASSUME NEW pc \in Stages, Goto(h, pc) PROVE Goes(h, pc)
  <2> DEFINE r == [handlers[h] EXCEPT !.pc = pc]
  <2>1. Acts(h, r) /\ r.pc = pc
    BY <1>1, Steps
  <2>2. r.kind = handlers[h].kind /\ r.doc = handlers[h].doc /\ r.row = handlers[h].row
    BY DEF VettingTypes, HandlerDoc
  <2> HIDE DEF r
  <2> QED
    BY <2>1, <2>2, TurnsIf DEF Goes
<1>2. ASSUME Done(h) PROVE Ends(h)
  <2>1. Acts(h, Idle)
    BY <1>2, Steps
  <2> QED
    BY <2>1, TurnsIf, Readings DEF Ends
<1>3. ASSUME NEW pc \in Stages, NEW kind \in Kinds, Start(h, Reading(pc, kind)) PROVE Begins(h, pc, kind, {})
  <2>1. app \in Applied
    BY DEF VettingTypes
  <2>2. /\ Reading(pc, kind) \in HandlerDoc /\ Reading(pc, kind).pc = pc /\ Reading(pc, kind).kind = kind
        /\ Reading(pc, kind).doc = app /\ Reading(pc, kind).row = {}
    BY <2>1, Readings
  <2>3. Acts(h, Reading(pc, kind)) /\ handlers[h].pc = "idle"
    BY <1>3, <2>2, Steps
  <2> QED
    BY <2>2, <2>3, TurnsIf DEF Begins
<1> QED
  BY <1>1, <1>2, <1>3

\* The same with one more field filled in.
LEMMA FilledTurns ==
    ASSUME VettingTypes, NEW h \in Handlers
    PROVE /\ \A pc \in Stages, kind \in Kinds :
              /\ \A row \in SUBSET Nat : Start(h, [Reading(pc, kind) EXCEPT !.row = row]) => Begins(h, pc, kind, row)
              /\ \A v \in Votes : Start(h, [Reading(pc, kind) EXCEPT !.vote = v]) => Begins(h, pc, kind, {})
              /\ \A p \in Panel, v \in Votes :
                    Start(h, [Reading(pc, kind) EXCEPT !.who = {p}, !.vote = v]) => Begins(h, pc, kind, {})
          /\ \A pc \in Stages : Start(h, [Idle EXCEPT !.pc = pc]) => handlers[h].pc = "idle" /\ Turns(h, pc, "none", NoApp, {})
          /\ \A pc \in Stages, p \in Panel :
                Start(h, [Idle EXCEPT !.pc = pc, !.who = {p}]) => handlers[h].pc = "idle" /\ Turns(h, pc, "none", NoApp, {})
<1>1. app \in Applied
  BY DEF VettingTypes
<1>2. ASSUME NEW pc \in Stages, NEW kind \in Kinds
      PROVE /\ \A row \in SUBSET Nat : Start(h, [Reading(pc, kind) EXCEPT !.row = row]) => Begins(h, pc, kind, row)
            /\ \A v \in Votes : Start(h, [Reading(pc, kind) EXCEPT !.vote = v]) => Begins(h, pc, kind, {})
            /\ \A p \in Panel, v \in Votes :
                    Start(h, [Reading(pc, kind) EXCEPT !.who = {p}, !.vote = v]) => Begins(h, pc, kind, {})
  <2> DEFINE q == Reading(pc, kind)
  <2>1. q \in HandlerDoc /\ q.pc = pc /\ q.kind = kind /\ q.doc = app /\ q.row = {}
    BY <1>1, Readings
  <2> HIDE DEF q
  <2>2. ASSUME NEW row \in SUBSET Nat, Start(h, [q EXCEPT !.row = row]) PROVE Begins(h, pc, kind, row)
    <3> DEFINE r == [q EXCEPT !.row = row]
    <3>1. r \in HandlerDoc /\ r.pc = pc /\ r.kind = kind /\ r.doc = app /\ r.row = row
      BY <2>1 DEF HandlerDoc
    <3> HIDE DEF r
    <3>2. Acts(h, r) /\ handlers[h].pc = "idle"
      BY <2>2, <3>1, Steps DEF r
    <3> QED
      BY <3>1, <3>2, TurnsIf DEF Begins
  <2>3. ASSUME NEW v \in Votes, Start(h, [q EXCEPT !.vote = v]) PROVE Begins(h, pc, kind, {})
    <3> DEFINE r == [q EXCEPT !.vote = v]
    <3>1. r \in HandlerDoc /\ r.pc = pc /\ r.kind = kind /\ r.doc = app /\ r.row = {}
      BY <2>1 DEF HandlerDoc
    <3> HIDE DEF r
    <3>2. Acts(h, r) /\ handlers[h].pc = "idle"
      BY <2>3, <3>1, Steps DEF r
    <3> QED
      BY <3>1, <3>2, TurnsIf DEF Begins
  <2>4. ASSUME NEW p \in Panel, NEW v \in Votes, Start(h, [q EXCEPT !.who = {p}, !.vote = v]) PROVE Begins(h, pc, kind, {})
    <3> DEFINE r == [q EXCEPT !.who = {p}, !.vote = v]
    <3>1. r \in HandlerDoc /\ r.pc = pc /\ r.kind = kind /\ r.doc = app /\ r.row = {}
      BY <2>1 DEF HandlerDoc
    <3> HIDE DEF r
    <3>2. Acts(h, r) /\ handlers[h].pc = "idle"
      BY <2>4, <3>1, Steps DEF r
    <3> QED
      BY <3>1, <3>2, TurnsIf DEF Begins
  <2> QED
    BY <2>2, <2>3, <2>4, Zenon DEF q
<1>3. ASSUME NEW pc \in Stages, Start(h, [Idle EXCEPT !.pc = pc])
      PROVE handlers[h].pc = "idle" /\ Turns(h, pc, "none", NoApp, {})
  <2> DEFINE r == [Idle EXCEPT !.pc = pc]
  <2>1. r \in HandlerDoc /\ r.pc = pc /\ r.kind = "none" /\ r.doc = NoApp /\ r.row = {}
    BY Readings DEF HandlerDoc
  <2> HIDE DEF r
  <2>2. Acts(h, r) /\ handlers[h].pc = "idle"
    BY <1>3, <2>1, Steps DEF r
  <2> QED
    BY <2>1, <2>2, TurnsIf
<1>4. ASSUME NEW pc \in Stages, NEW p \in Panel, Start(h, [Idle EXCEPT !.pc = pc, !.who = {p}])
      PROVE handlers[h].pc = "idle" /\ Turns(h, pc, "none", NoApp, {})
  <2> DEFINE r == [Idle EXCEPT !.pc = pc, !.who = {p}]
  <2>1. r \in HandlerDoc /\ r.pc = pc /\ r.kind = "none" /\ r.doc = NoApp /\ r.row = {}
    BY Readings DEF HandlerDoc
  <2> HIDE DEF r
  <2>2. Acts(h, r) /\ handlers[h].pc = "idle"
    BY <1>4, <2>1, Steps DEF r
  <2> QED
    BY <2>1, <2>2, TurnsIf
<1> QED
  BY <1>2, <1>3, <1>4, Zenon

\* What a step leaves alone.
StatusKept == UNCHANGED <<archive, active, policy, ended, approved, events, marks>>

\* The steps of a handler, by what they do to its record.
LEMMA ContinueMoves ==
    ASSUME VettingTypes, NEW h \in Handlers
    PROVE /\ CastVote(h) => \/ /\ Open /\ handlers[h].pc = "cast" /\ Goes(h, "reread")
                                /\ \E p \in Panel, v \in Votes : app' = [app EXCEPT !.votes[p] = v]
                             \/ (handlers[h].pc = "cast" /\ app' = app /\ Ends(h))
          /\ RereadApplication(h) => handlers[h].pc = "reread" /\ Turns(h, "tally", "vote", app, {})
          /\ Resweep(h) => /\ handlers[h].pc = "resweep"
                           /\ (Open /\ Turns(h, "tally", "resweep", app, {})) \/ (~Open /\ Ends(h))
          /\ Tally(h) => /\ handlers[h].pc = "tally"
                         /\ \/ (handlers[h].doc.status = "gone" \/ handlers[h].doc.undecided \/ Live = {}) /\ Ends(h)
                            \/ Goes(h, "flip")
                            \/ /\ TallyOutcome(policy, Live, handlers[h].doc.votes) = "none"
                               /\ (Goes(h, "tie") \/ Goes(h, "notie"))
          /\ FlagTie(h) => handlers[h].pc \in {"tie", "notie"} /\ Ends(h)
          /\ Sweep(h) => /\ handlers[h].pc = "sweep"
                         /\ (CloseoutDue /\ Turns(h, "closeout", "closeout", app, {})) \/ Ends(h)
          /\ TallyCloseout(h) => handlers[h].pc = "closeout" /\ (Goes(h, "handover") \/ Goes(h, "flip"))
          /\ HandOver(h) => handlers[h].pc = "handover" /\ Ends(h)
          /\ Flip(h) => /\ handlers[h].pc = "flip"
                        /\ \/ (~Open /\ Ends(h) /\ UNCHANGED <<app, approved>>)
                           \/ /\ Open /\ approved' = approved + 1 /\ app'.status = "approved"
                              /\ Turns(h, "candidate", handlers[h].kind, handlers[h].doc, {approved + 1})
                           \/ (Open /\ app'.status = "denied" /\ Ends(h) /\ approved' = approved)
<1>1. handlers[h] \in HandlerDoc /\ app \in Applied
  BY DEF VettingTypes
<1>2. CastVote(h) => \/ /\ Open /\ handlers[h].pc = "cast" /\ Goes(h, "reread")
                        /\ \E p \in Panel, v \in Votes : app' = [app EXCEPT !.votes[p] = v]
                     \/ (handlers[h].pc = "cast" /\ app' = app /\ Ends(h))
  <2>1. handlers[h].who \subseteq Panel /\ handlers[h].vote \in Votes
    BY <1>1 DEF HandlerDoc
  <2> QED
    BY <2>1, PlainTurns DEF CastVote, VoteFilter, Stages, Deciders
<1>3. RereadApplication(h) => handlers[h].pc = "reread" /\ Turns(h, "tally", "vote", app, {})
  <2> DEFINE q == Reading("tally", "vote")
             r == [q EXCEPT !.doc = Updated(h)]
  <2>1. q \in HandlerDoc /\ q.pc = "tally" /\ q.kind = "vote" /\ q.row = {}
    BY <1>1, Readings DEF Stages, Kinds
  <2>2. r \in HandlerDoc /\ r.pc = "tally" /\ r.kind = "vote" /\ r.doc = app /\ r.row = {}
    BY <1>1, <2>1 DEF HandlerDoc, Updated
  <2>3. RereadApplication(h) => handlers[h].pc = "reread" /\ handlers' = [handlers EXCEPT ![h] = r]
    BY DEF RereadApplication
  <2> HIDE DEF r
  <2> QED
    BY <2>2, <2>3, TurnsIf DEF Acts
<1>4. \A pc \in Stages, kind \in Kinds :
          handlers' = [handlers EXCEPT ![h] = Reading(pc, kind)] => Turns(h, pc, kind, app, {})
  <2> TAKE pc \in Stages, kind \in Kinds
  <2> DEFINE q == Reading(pc, kind)
  <2>1. q \in HandlerDoc /\ q.pc = pc /\ q.kind = kind /\ q.doc = app /\ q.row = {}
    BY <1>1, Readings
  <2> HIDE DEF q
  <2>2. handlers' = [handlers EXCEPT ![h] = q] => Turns(h, pc, kind, app, {})
    BY <2>1, TurnsIf DEF Acts
  <2> QED
    BY <2>2 DEF q
<1>5. \A pc \in Stages, v \in Votes : handlers' = [handlers EXCEPT ![h].pc = pc, ![h].vote = v] => Goes(h, pc)
  <2> TAKE pc \in Stages, v \in Votes
  <2> DEFINE r == [[handlers[h] EXCEPT !.pc = pc] EXCEPT !.vote = v]
  <2>1. r \in HandlerDoc /\ r.pc = pc /\ r.kind = handlers[h].kind /\ r.doc = handlers[h].doc /\ r.row = handlers[h].row
    BY <1>1 DEF HandlerDoc
  <2>2. handlers' = [handlers EXCEPT ![h].pc = pc, ![h].vote = v] => handlers' = [handlers EXCEPT ![h] = r]
    BY <1>1 DEF VettingTypes, HandlerDoc
  <2> HIDE DEF r
  <2> QED
    BY <2>1, <2>2, TurnsIf DEF Acts, Goes
<1>6. \A pc \in Stages, row \in SUBSET Nat : handlers' = [handlers EXCEPT ![h].pc = pc, ![h].row = row] =>
            Turns(h, pc, handlers[h].kind, handlers[h].doc, row)
  <2> TAKE pc \in Stages, row \in SUBSET Nat
  <2> DEFINE r == [[handlers[h] EXCEPT !.pc = pc] EXCEPT !.row = row]
  <2>1. r \in HandlerDoc /\ r.pc = pc /\ r.kind = handlers[h].kind /\ r.doc = handlers[h].doc /\ r.row = row
    BY <1>1 DEF HandlerDoc
  <2>2. handlers' = [handlers EXCEPT ![h].pc = pc, ![h].row = row] => handlers' = [handlers EXCEPT ![h] = r]
    BY <1>1 DEF VettingTypes, HandlerDoc
  <2> HIDE DEF r
  <2> QED
    BY <2>1, <2>2, TurnsIf DEF Acts
<1>7. Resweep(h) => handlers[h].pc = "resweep" /\ ((Open /\ Turns(h, "tally", "resweep", app, {})) \/ (~Open /\ Ends(h)))
  <2>1. handlers' = [handlers EXCEPT ![h] = Reading("tally", "resweep")] => Turns(h, "tally", "resweep", app, {})
    BY <1>4 DEF Stages, Kinds
  <2>2. CASE Open
    BY <2>1, <2>2 DEF Resweep
  <2>3. CASE ~Open
    BY <2>3, PlainTurns DEF Resweep
  <2> QED
    BY <2>2, <2>3
<1>8. Tally(h) => /\ handlers[h].pc = "tally"
                  /\ \/ (handlers[h].doc.status = "gone" \/ handlers[h].doc.undecided \/ Live = {}) /\ Ends(h)
                     \/ Goes(h, "flip")
                     \/ /\ TallyOutcome(policy, Live, handlers[h].doc.votes) = "none"
                        /\ (Goes(h, "tie") \/ Goes(h, "notie"))
  <2>1. TallyOutcome(policy, Live, handlers[h].doc.votes) \in {"none", "approve", "deny"}
    BY DEF TallyOutcome
  <2> QED
    BY <2>1, <1>5, PlainTurns DEF Tally, Stages, Deciders, Votes
<1>9. FlagTie(h) => handlers[h].pc \in {"tie", "notie"} /\ Ends(h)
  BY PlainTurns DEF FlagTie
<1>10. Sweep(h) => handlers[h].pc = "sweep" /\ ((CloseoutDue /\ Turns(h, "closeout", "closeout", app, {})) \/ Ends(h))
  BY <1>4, PlainTurns DEF Sweep, Stages, Kinds
<1>11. TallyCloseout(h) => handlers[h].pc = "closeout" /\ (Goes(h, "handover") \/ Goes(h, "flip"))
  <2>1. CastMajority(handlers[h].doc.votes) \in Votes
    BY DEF CastMajority, Votes
  <2> QED
    BY <2>1, <1>5 DEF TallyCloseout, Stages
<1>12. HandOver(h) => handlers[h].pc = "handover" /\ Ends(h)
  BY PlainTurns DEF HandOver
<1>13. ASSUME Flip(h)
       PROVE /\ handlers[h].pc = "flip"
             /\ \/ (~Open /\ Ends(h) /\ UNCHANGED <<app, approved>>)
                \/ /\ Open /\ approved' = approved + 1 /\ app'.status = "approved"
                   /\ Turns(h, "candidate", handlers[h].kind, handlers[h].doc, {approved + 1})
                \/ (Open /\ app'.status = "denied" /\ Ends(h) /\ approved' = approved)
  <2>1. handlers[h].pc = "flip"
    BY <1>13 DEF Flip
  <2>2. CASE ~Open
    BY <1>13, <2>1, <2>2, PlainTurns DEF Flip, FlipFilter
  <2>3. CASE Open /\ handlers[h].vote = "approve"
    <3>1. approved' = approved + 1 /\ app'.status = "approved"
          /\ handlers' = [handlers EXCEPT ![h].pc = "candidate", ![h].row = {approved + 1}]
      BY <1>1, <1>13, <2>3 DEF Flip, FlipFilter, Applied
    <3>2. approved + 1 \in Nat
      BY DEF VettingTypes
    <3> QED
      <4>1. {approved + 1} \in SUBSET Nat /\ "candidate" \in Stages
        BY <3>2 DEF Stages, Deciders
      <4> QED
        BY <2>1, <2>3, <3>1, <4>1, <1>6
  <2>4. CASE Open /\ handlers[h].vote # "approve"
    <3>1. approved' = approved /\ app'.status = "denied" /\ Done(h)
      BY <1>1, <1>13, <2>4 DEF Flip, FlipFilter, Applied
    <3> QED
      BY <2>1, <2>4, <3>1, PlainTurns
  <2> QED
    BY <2>2, <2>3, <2>4
<1> QED
  BY <1>2, <1>3, <1>7, <1>8, <1>9, <1>10, <1>11, <1>12, <1>13 DEF Turns

LEMMA DecideMoves ==
    ASSUME VettingTypes, NEW h \in Handlers
    PROVE /\ CreateCandidate(h) => handlers[h].pc = "candidate" /\ Goes(h, "certificate")
          /\ InsertCertificate(h) => handlers[h].pc = "certificate" /\ Goes(h, "stamp")
          /\ StampCertificate(h) => /\ handlers[h].pc = "stamp" /\ Ends(h)
                                    /\ app' \in Applied /\ app'.status = app.status
                                    /\ app.status # "gone" => app'.cert \in handlers[h].row
          /\ FailSideEffect(h) =>
                /\ handlers[h].pc \in {"candidate", "certificate", "stamp"}
                /\ handlers[h].kind = "force" => Ends(h)
                /\ handlers[h].kind # "force" => Goes(h, "undo")
          /\ UndoApproval(h) => handlers[h].pc = "undo" /\ Goes(h, "putback")
          /\ PutBack(h) => handlers[h].pc = "putback" /\ Ends(h)
          /\ Revert(h) => handlers[h].pc = "revert" /\ (Goes(h, "takeoff") \/ Goes(h, "idle") \/ Ends(h))
          /\ TakeOff(h) => handlers[h].pc = "takeoff" /\ Ends(h)
          /\ MarkRemoved(h) => handlers[h].pc = "removed" /\ Ends(h)
          /\ Delete(h) => handlers[h].pc = "delete" /\ (Goes(h, "takeoff") \/ Ends(h))
          /\ Deactivate(h) => handlers[h].pc = "deactivate" /\ Turns(h, "resweep", "none", NoApp, {})
          /\ HandlerDies(h) => Ends(h)
<1>1. handlers[h] \in HandlerDoc /\ app \in Applied
  BY DEF VettingTypes
<1>2. CreateCandidate(h) => handlers[h].pc = "candidate" /\ Goes(h, "certificate")
  BY PlainTurns DEF CreateCandidate, Stages, Deciders
<1>3. InsertCertificate(h) => handlers[h].pc = "certificate" /\ Goes(h, "stamp")
  BY PlainTurns DEF InsertCertificate, Stages, Deciders
<1>4. ASSUME StampCertificate(h)
      PROVE /\ handlers[h].pc = "stamp" /\ Ends(h)
            /\ app' \in Applied /\ app'.status = app.status
            /\ app.status # "gone" => app'.cert \in handlers[h].row
  <2>1. PICK c \in handlers[h].row : app' = IF app.status = "gone" THEN app ELSE [app EXCEPT !.cert = c]
    BY <1>4 DEF StampCertificate
  <2>2. c \in Nat
    BY <1>1 DEF HandlerDoc
  <2>3. app' \in Applied /\ app'.status = app.status /\ (app.status # "gone" => app'.cert \in handlers[h].row)
    BY <1>1, <2>1, <2>2 DEF Applied
  <2> QED
    BY <1>4, <2>3, PlainTurns DEF StampCertificate
<1>5. FailSideEffect(h) =>
                /\ handlers[h].pc \in {"candidate", "certificate", "stamp"}
                /\ handlers[h].kind = "force" => Ends(h)
                /\ handlers[h].kind # "force" => Goes(h, "undo")
  BY PlainTurns, Zenon DEF FailSideEffect, Stages, Deciders
<1>6. UndoApproval(h) => handlers[h].pc = "undo" /\ Goes(h, "putback")
  BY PlainTurns DEF UndoApproval, Stages, Deciders
<1>7. PutBack(h) => handlers[h].pc = "putback" /\ Ends(h)
  BY PlainTurns DEF PutBack
<1>8. ASSUME Revert(h)
      PROVE handlers[h].pc = "revert" /\ (Goes(h, "takeoff") \/ Goes(h, "idle") \/ Ends(h))
  <2>1. "takeoff" \in Stages /\ "idle" \in Stages
    BY DEF Stages
  <2>2. Goto(h, "takeoff") \/ Goto(h, "idle") \/ Done(h)
    BY <1>8 DEF Revert
  <2> QED
    BY <1>8, <2>1, <2>2, PlainTurns DEF Revert
<1>9. TakeOff(h) => handlers[h].pc = "takeoff" /\ Ends(h)
  BY PlainTurns DEF TakeOff
<1>10. MarkRemoved(h) => handlers[h].pc = "removed" /\ Ends(h)
  BY PlainTurns DEF MarkRemoved
<1>11. Delete(h) => handlers[h].pc = "delete" /\ (Goes(h, "takeoff") \/ Ends(h))
  BY PlainTurns DEF Delete, Stages
<1>12. Deactivate(h) => handlers[h].pc = "deactivate" /\ Turns(h, "resweep", "none", NoApp, {})
  <2> DEFINE r == [Idle EXCEPT !.pc = "resweep"]
  <2>1. r \in HandlerDoc /\ r.pc = "resweep" /\ r.kind = "none" /\ r.doc = NoApp /\ r.row = {}
    BY Readings DEF HandlerDoc, Stages
  <2>2. Deactivate(h) => handlers[h].pc = "deactivate" /\ handlers' = [handlers EXCEPT ![h] = r]
    BY DEF Deactivate
  <2> HIDE DEF r
  <2> QED
    BY <2>1, <2>2, TurnsIf DEF Acts
<1>13. HandlerDies(h) => Ends(h)
  BY PlainTurns DEF HandlerDies
<1> QED
  BY <1>2, <1>3, <1>4, <1>5, <1>6, <1>7, <1>8, <1>9, <1>10, <1>11, <1>12, <1>13

LEMMA BeginMoves ==
    ASSUME VettingTypes, NEW h \in Handlers
    PROVE /\ \A p \in Panel, v \in Votes : BeginVote(h, p, v) => Begins(h, "cast", "vote", {})
          /\ \A v \in Votes : TieBreak(h, v) => Begins(h, "flip", "tiebreak", {})
          /\ \A v \in Votes : CloseoutDecision(h, v) => Begins(h, "flip", "decision", {})
          /\ BeginCloseout(h) => Begins(h, "closeout", "closeout", {})
          /\ \A p \in Panel : Activate(h, p) => handlers[h].pc = "idle" /\ Turns(h, "resweep", "none", NoApp, {})
          /\ SetPolicy(h) => handlers[h].pc = "idle" /\ Turns(h, "resweep", "none", NoApp, {})
          /\ \A p \in Panel : BeginDeactivate(h, p) => handlers[h].pc = "idle" /\ Turns(h, "deactivate", "none", NoApp, {})
          /\ RemoveCandidate(h) => handlers[h].pc = "idle" /\ Turns(h, "removed", "none", NoApp, {})
          /\ ThenSweep(h) => handlers[h].pc = "idle" /\ Turns(h, "sweep", "none", NoApp, {})
          /\ \A mode \in {"soft", "hard"} : BeginDelete(h, mode) => Begins(h, "delete", mode, ballot)
          /\ ForceApprove(h) => Begins(h, "candidate", "force", {approved + 1})
          /\ BeginRevert(h) => handlers[h].pc = "idle" /\ \E row \in SUBSET ballot : Turns(h, "revert", "revert", app, row)
<1>1. \A p \in Panel, v \in Votes : BeginVote(h, p, v) => Begins(h, "cast", "vote", {})
  <2> SUFFICES ASSUME NEW p \in Panel, NEW v \in Votes, BeginVote(h, p, v) PROVE Begins(h, "cast", "vote", {})
    OBVIOUS
  <2>1. Start(h, [Reading("cast", "vote") EXCEPT !.who = {p}, !.vote = v])
    BY DEF BeginVote
  <2>2. "cast" \in Stages /\ "vote" \in Kinds
    BY DEF Stages, Kinds
  <2> QED
    BY <2>1, <2>2, FilledTurns, Zenon
<1>2. ASSUME NEW v \in Votes PROVE TieBreak(h, v) => Begins(h, "flip", "tiebreak", {})
  <2>1. TieBreak(h, v) => Start(h, [Reading("flip", "tiebreak") EXCEPT !.vote = v])
    BY DEF TieBreak
  <2>2. "flip" \in Stages /\ "tiebreak" \in Kinds
    BY DEF Stages, Kinds
  <2> QED
    BY <2>1, <2>2, FilledTurns, Zenon
<1>3. ASSUME NEW v \in Votes PROVE CloseoutDecision(h, v) => Begins(h, "flip", "decision", {})
  <2>1. CloseoutDecision(h, v) => Start(h, [Reading("flip", "decision") EXCEPT !.vote = v])
    BY DEF CloseoutDecision
  <2>2. "flip" \in Stages /\ "decision" \in Kinds
    BY DEF Stages, Kinds
  <2> QED
    BY <2>1, <2>2, FilledTurns, Zenon
<1>4. BeginCloseout(h) => Begins(h, "closeout", "closeout", {})
  <2>1. "closeout" \in Stages /\ "closeout" \in Kinds
    BY DEF Stages, Kinds
  <2> QED
    BY <2>1, PlainTurns DEF BeginCloseout
<1>5. /\ \A pc \in {"resweep", "removed", "sweep"} : Start(h, [Idle EXCEPT !.pc = pc]) =>
            handlers[h].pc = "idle" /\ Turns(h, pc, "none", NoApp, {})
      /\ \A p \in Panel : Start(h, [Idle EXCEPT !.pc = "deactivate", !.who = {p}]) =>
            handlers[h].pc = "idle" /\ Turns(h, "deactivate", "none", NoApp, {})
  <2>1. {"resweep", "removed", "sweep", "deactivate"} \subseteq Stages
    BY DEF Stages
  <2> QED
    BY <2>1, FilledTurns, Zenon
<1>6. \A p \in Panel : Activate(h, p) => handlers[h].pc = "idle" /\ Turns(h, "resweep", "none", NoApp, {})
  BY <1>5, Zenon DEF Activate
<1>7. SetPolicy(h) => handlers[h].pc = "idle" /\ Turns(h, "resweep", "none", NoApp, {})
  BY <1>5, Zenon DEF SetPolicy
<1>8. \A p \in Panel : BeginDeactivate(h, p) => handlers[h].pc = "idle" /\ Turns(h, "deactivate", "none", NoApp, {})
  BY <1>5, Zenon DEF BeginDeactivate
<1>9. RemoveCandidate(h) => handlers[h].pc = "idle" /\ Turns(h, "removed", "none", NoApp, {})
  BY <1>5, Zenon DEF RemoveCandidate
<1>10. ThenSweep(h) => handlers[h].pc = "idle" /\ Turns(h, "sweep", "none", NoApp, {})
  BY <1>5, Zenon DEF ThenSweep
<1>11. ASSUME NEW mode \in {"soft", "hard"} PROVE BeginDelete(h, mode) => Begins(h, "delete", mode, ballot)
  <2>1. "delete" \in Stages /\ mode \in Kinds /\ ballot \in SUBSET Nat
    BY DEF Stages, Kinds, VettingTypes
  <2>2. BeginDelete(h, mode) => Start(h, [Reading("delete", mode) EXCEPT !.row = ballot])
    BY DEF BeginDelete
  <2> QED
    BY <2>1, <2>2, FilledTurns, Zenon
<1>12. ForceApprove(h) => Begins(h, "candidate", "force", {approved + 1})
  <2>1. approved + 1 \in Nat
    BY DEF VettingTypes
  <2>2. "candidate" \in Stages /\ "force" \in Kinds /\ {approved + 1} \in SUBSET Nat
    BY <2>1 DEF Stages, Deciders, Kinds
  <2>3. ForceApprove(h) => Start(h, [Reading("candidate", "force") EXCEPT !.row = {approved + 1}])
    BY DEF ForceApprove
  <2> QED
    BY <2>2, <2>3, FilledTurns, Zenon
<1>13. BeginRevert(h) => handlers[h].pc = "idle" /\ \E row \in SUBSET ballot : Turns(h, "revert", "revert", app, row)
  <2> DEFINE row == IF app.status = "approved" THEN ballot ELSE {}
  <2>1. row \in SUBSET ballot /\ row \in SUBSET Nat /\ "revert" \in Stages /\ "revert" \in Kinds
    BY DEF Stages, Kinds, VettingTypes
  <2>2. BeginRevert(h) => Start(h, [Reading("revert", "revert") EXCEPT !.row = row])
    BY DEF BeginRevert
  <2> HIDE DEF row
  <2>3. BeginRevert(h) => Begins(h, "revert", "revert", row)
    BY <2>1, <2>2, FilledTurns, Zenon
  <2> QED
    BY <2>1, <2>3 DEF Begins
<1> QED
  BY <1>1, <1>2, <1>3, <1>4, <1>6, <1>7, <1>8, <1>9, <1>10, <1>11, <1>12, <1>13

LEMMA MarksGrow ==
    ASSUME VettingNext PROVE marks \subseteq marks'
BY DEF VettingNext, Finance, FinanceReject, FinanceReverse, FinanceReinstate, FinanceClear, ForceDeny, Overriding, Restore, Purge,
       WindowEnds, ExtendWindow, BeginVote, TieBreak, CloseoutDecision, Activate, BeginDeactivate, BeginDelete, BeginCloseout,
       Continue, CastVote, RereadApplication, Resweep, Tally, FlagTie, Sweep, TallyCloseout, HandOver, Flip, CreateCandidate,
       InsertCertificate, StampCertificate, UndoApproval, PutBack, Revert, TakeOff, MarkRemoved, Delete, Deactivate,
       ForceApprove, ForceClear, BeginRevert, RemoveCandidate, SetPolicy, FailSideEffect, HandlerDies

\* Nobody but a failure sends a handler to undo.
LEMMA UndoKept ==
    ASSUME VettingTypes, NEW h \in Handlers, NEW pc, NEW kind, NEW doc, NEW row, Turns(h, pc, kind, doc, row),
           pc \notin {"undo", "putback"}, marks \subseteq marks'
    PROVE UndoIsMarked'
BY DEF Turns, VettingTypes, UndoIsMarked

LEMMA ContinueTypes ==
    ASSUME VettingTypes, NEW h \in Handlers, Continue(h), marks \subseteq marks'
    PROVE VettingTypes'
<1>0. handlers[h] \in HandlerDoc /\ app \in Applied /\ archive \in Applied
  BY DEF VettingTypes
<1>1. ASSUME CastVote(h) PROVE VettingTypes'
  <2>1. (\E p \in Panel, v \in Votes : app' = [app EXCEPT !.votes[p] = v]) \/ app' = app
    BY <1>1, ContinueMoves
  <2>2. app' \in Applied
    <3>1. \A p \in Panel, v \in Votes : [app EXCEPT !.votes[p] = v] \in Applied
      BY <1>0, AppTypes, Zenon
    <3> QED
      BY <1>0, <2>1, <3>1
  <2>3. Goes(h, "reread") \/ Ends(h)
    BY <1>1, ContinueMoves
  <2> QED
    BY <1>1, <2>2, <2>3, UndoKept DEF CastVote, Goes, Ends, Turns, VettingTypes
<1>2. ASSUME RereadApplication(h) \/ Resweep(h) \/ Tally(h) \/ Sweep(h) \/ TallyCloseout(h) PROVE VettingTypes'
  <2>1. UNCHANGED <<app, archive, ballot, certs, active, policy, ended, approved, events, marks>>
    BY <1>2 DEF RereadApplication, Resweep, Tally, Sweep, TallyCloseout
  <2>2. \E pc \in Stages \ {"undo", "putback"} : \E kind, doc, row : Turns(h, pc, kind, doc, row)
    BY <1>2, ContinueMoves DEF Goes, Ends, Stages, Deciders
  <2> QED
    BY <2>1, <2>2, UndoKept DEF Turns, VettingTypes
<1>3. ASSUME FlagTie(h) \/ HandOver(h) PROVE VettingTypes'
  <2>1. Ends(h) /\ app' \in Applied
    BY <1>0, <1>3, ContinueMoves, AppTypes, Zenon DEF FlagTie, HandOver
  <2>2. UNCHANGED <<archive, ballot, certs, active, policy, ended, approved, events, marks>>
    BY <1>3 DEF FlagTie, HandOver
  <2> QED
    BY <2>1, <2>2, UndoKept DEF Ends, Turns, VettingTypes
<1>4. ASSUME Flip(h) PROVE VettingTypes'
  <2>1. app' \in Applied
    BY <1>0, <1>4, AppTypes, Zenon DEF Flip
  <2>2. approved' \in Nat /\ \E pc \in Stages \ {"undo", "putback"} : \E kind, doc, row : Turns(h, pc, kind, doc, row)
    BY <1>4, ContinueMoves DEF Ends, Stages, Deciders, VettingTypes
  <2>3. UNCHANGED <<archive, ballot, certs, active, policy, ended, events, marks>>
    BY <1>4 DEF Flip
  <2> QED
    BY <2>1, <2>2, <2>3, UndoKept DEF Turns, VettingTypes
<1>5. ASSUME CreateCandidate(h) \/ InsertCertificate(h) PROVE VettingTypes'
  <2>1. ballot' \subseteq Nat /\ certs' \subseteq Nat
    BY <1>0, <1>5 DEF CreateCandidate, InsertCertificate, VettingTypes, HandlerDoc
  <2>2. \E pc \in Stages \ {"undo", "putback"} : \E kind, doc, row : Turns(h, pc, kind, doc, row)
    BY <1>5, DecideMoves DEF Goes, Stages, Deciders
  <2>3. UNCHANGED <<app, archive, active, policy, ended, approved, events, marks>>
    BY <1>5 DEF CreateCandidate, InsertCertificate
  <2> QED
    BY <2>1, <2>2, <2>3, UndoKept DEF Turns, VettingTypes
<1>6. ASSUME StampCertificate(h) \/ PutBack(h) PROVE VettingTypes'
  <2>1. Ends(h)
    BY <1>6, DecideMoves
  <2>2. app' \in Applied
    <3>1. handlers[h].doc.status \in {"pending", "gone"} \cup Resolved
      BY <1>0 DEF HandlerDoc, Applied
    <3>2. PutBack(h) => app' \in Applied
      BY <1>0, <3>1, AppTypes, Zenon DEF PutBack
    <3> QED
      BY <1>6, <3>2, DecideMoves
  <2>3. UNCHANGED <<archive, ballot, certs, active, policy, ended, approved, events, marks>>
    BY <1>6 DEF StampCertificate, PutBack
  <2> QED
    BY <2>1, <2>2, <2>3, UndoKept DEF Ends, Turns, VettingTypes
<1>7. ASSUME UndoApproval(h) PROVE VettingTypes'
  <2>1. handlers[h].pc = "undo" /\ Goes(h, "putback")
    BY <1>7, DecideMoves
  <2>2. UndoIsMarked'
    BY <2>1 DEF Goes, Turns, UndoIsMarked, VettingTypes
  <2>3. ballot' \subseteq Nat /\ certs' \subseteq Nat
    BY <1>7 DEF UndoApproval, UndoneBallot, VettingTypes
  <2>4. UNCHANGED <<app, archive, active, policy, ended, approved, events>>
    BY <1>7 DEF UndoApproval
  <2> QED
    BY <2>1, <2>2, <2>3, <2>4 DEF Goes, Turns, VettingTypes
<1>8. ASSUME Revert(h) PROVE VettingTypes'
  <2>1. app' \in Applied
    BY <1>0, <1>8, AppTypes, Zenon DEF Revert
  <2>2. \E pc \in Stages \ {"undo", "putback"} : \E kind, doc, row : Turns(h, pc, kind, doc, row)
    BY <1>8, DecideMoves DEF Goes, Ends, Stages, Deciders
  <2>3. UNCHANGED <<archive, ballot, certs, active, policy, ended, approved, events, marks>>
    BY <1>8 DEF Revert
  <2> QED
    BY <2>1, <2>2, <2>3, UndoKept DEF Turns, VettingTypes
<1>9. ASSUME TakeOff(h) \/ MarkRemoved(h) PROVE VettingTypes'
  <2>1. app' \in Applied
    BY <1>0, <1>9, AppTypes, Zenon DEF TakeOff, MarkRemoved
  <2>2. Ends(h)
    BY <1>9, DecideMoves
  <2>3. ballot' \subseteq Nat /\ certs' \subseteq Nat
    BY <1>9 DEF TakeOff, MarkRemoved, VettingTypes
  <2>4. UNCHANGED <<archive, active, policy, ended, approved, events, marks>>
    BY <1>9 DEF TakeOff, MarkRemoved
  <2> QED
    BY <2>1, <2>2, <2>3, <2>4, UndoKept DEF Ends, Turns, VettingTypes
<1>10. ASSUME Delete(h) PROVE VettingTypes'
  <2>1. app' \in Applied /\ archive' \in Applied
    BY <1>0, <1>10, BlankApplications DEF Delete
  <2>2. \E pc \in Stages \ {"undo", "putback"} : \E kind, doc, row : Turns(h, pc, kind, doc, row)
    BY <1>10, DecideMoves DEF Goes, Ends, Stages, Deciders
  <2>3. UNCHANGED <<ballot, certs, active, policy, ended, approved, events, marks>>
    BY <1>10 DEF Delete
  <2> QED
    BY <2>1, <2>2, <2>3, UndoKept DEF Turns, VettingTypes
<1>11. ASSUME Deactivate(h) PROVE VettingTypes'
  <2>1. Turns(h, "resweep", "none", NoApp, {})
    BY <1>11, DecideMoves
  <2>2. active' \subseteq Panel
    BY <1>11 DEF Deactivate, VettingTypes
  <2>3. UNCHANGED <<app, archive, ballot, certs, policy, ended, approved, events, marks>>
    BY <1>11 DEF Deactivate
  <2> QED
    BY <2>1, <2>2, <2>3, UndoKept DEF Turns, VettingTypes
<1> QED
  BY <1>1, <1>2, <1>3, <1>4, <1>5, <1>6, <1>7, <1>8, <1>9, <1>10, <1>11 DEF Continue

LEMMA EventTypes == ASSUME VettingTypes, Event PROVE events' \in Nat
<1>1. events \in Nat /\ events' = events + 1
  BY DEF VettingTypes, Event
<1> QED
  BY <1>1

LEMMA BeginTypes ==
    ASSUME VettingTypes, NEW h \in Handlers, marks \subseteq marks',
           \/ \E p \in Panel, v \in Votes \ {"none"} : BeginVote(h, p, v)
           \/ \E v \in Votes \ {"none"} : TieBreak(h, v) \/ CloseoutDecision(h, v)
           \/ \E p \in Panel : Activate(h, p) \/ BeginDeactivate(h, p)
           \/ \E mode \in {"soft", "hard"} : BeginDelete(h, mode)
           \/ BeginCloseout(h)
           \/ ForceApprove(h) \/ ForceClear(h) \/ BeginRevert(h) \/ RemoveCandidate(h) \/ SetPolicy(h)
    PROVE VettingTypes'
<1>0. app \in Applied /\ archive \in Applied
  BY DEF VettingTypes
<1>1. CASE (\E p \in Panel, v \in Votes \ {"none"} : BeginVote(h, p, v))
           \/ (\E v \in Votes \ {"none"} : TieBreak(h, v) \/ CloseoutDecision(h, v)) \/ BeginCloseout(h)
  <2>1. UNCHANGED <<app, archive, ballot, certs, active, policy, ended, approved, events, marks>>
    BY <1>1, Zenon DEF BeginVote, TieBreak, CloseoutDecision, BeginCloseout
  <2>2. \E pc \in Stages \ {"undo", "putback"} : \E kind, doc, row : Turns(h, pc, kind, doc, row)
    BY <1>1, BeginMoves DEF Begins, Stages, Deciders
  <2> QED
    BY <2>1, <2>2, UndoKept DEF Turns, VettingTypes
<1>2. CASE \E p \in Panel : Activate(h, p) \/ BeginDeactivate(h, p)
  <2>1. UNCHANGED <<app, archive, ballot, certs, policy, ended, approved>> /\ active' \subseteq Panel /\ events' \in Nat
    BY <1>2, EventTypes, Zenon DEF Activate, BeginDeactivate, VettingTypes
  <2>2. \E pc \in Stages \ {"undo", "putback"} : \E kind, doc, row : Turns(h, pc, kind, doc, row)
    BY <1>2, BeginMoves DEF Stages, Deciders
  <2> QED
    BY <2>1, <2>2, UndoKept DEF Turns, VettingTypes
<1>3. CASE SetPolicy(h)
  <2>1. UNCHANGED <<app, archive, ballot, certs, active, ended, approved>> /\ policy' \in Policies /\ events' \in Nat
    BY <1>3, EventTypes DEF SetPolicy, VettingTypes
  <2>2. Turns(h, "resweep", "none", NoApp, {})
    BY <1>3, BeginMoves
  <2> QED
    BY <2>1, <2>2, UndoKept DEF Turns, VettingTypes
<1>4. CASE \E mode \in {"soft", "hard"} : BeginDelete(h, mode)
  <2>1. UNCHANGED <<app, ballot, certs, active, policy, ended, approved>> /\ archive' \in Applied /\ events' \in Nat
    BY <1>0, <1>4, EventTypes DEF BeginDelete, VettingTypes
  <2>2. \E pc \in Stages \ {"undo", "putback"} : \E kind, doc, row : Turns(h, pc, kind, doc, row)
    BY <1>4, BeginMoves DEF Begins, Stages, Deciders
  <2> QED
    BY <2>1, <2>2, UndoKept DEF Turns, VettingTypes
<1>5. CASE ForceApprove(h)
  <2>1. UNCHANGED <<archive, ballot, certs, active, policy, ended>> /\ approved' \in Nat /\ events' \in Nat
    BY <1>5, EventTypes DEF ForceApprove, Overriding, VettingTypes
  <2>2. app' \in Applied
    BY <1>0, <1>5, AppTypes, Zenon DEF ForceApprove
  <2>3. Turns(h, "candidate", "force", app, {approved + 1})
    BY <1>5, BeginMoves DEF Begins
  <2> QED
    BY <2>1, <2>2, <2>3, UndoKept DEF Turns, VettingTypes
<1>6. CASE ForceClear(h)
  <2>1. UNCHANGED <<archive, ballot, certs, active, policy, ended, approved>> /\ events' \in Nat
    BY <1>6, EventTypes DEF ForceClear, Overriding, VettingTypes
  <2>2. app' \in Applied
    BY <1>0, <1>6, AppTypes, Zenon DEF ForceClear
  <2>3. Turns(h, "sweep", "none", NoApp, {})
    BY <1>6, BeginMoves DEF ForceClear
  <2> QED
    BY <2>1, <2>2, <2>3, UndoKept DEF Turns, VettingTypes
<1>7. CASE BeginRevert(h) \/ RemoveCandidate(h)
  <2>1. /\ UNCHANGED <<app, archive, certs, active, policy, ended, approved>>
        /\ events' \in Nat /\ ballot' \subseteq Nat
    BY <1>7, EventTypes DEF BeginRevert, RemoveCandidate, Overriding, VettingTypes
  <2>2. \E pc \in Stages \ {"undo", "putback"} : \E kind, doc, row : Turns(h, pc, kind, doc, row)
    BY <1>7, BeginMoves DEF Stages, Deciders
  <2> QED
    BY <2>1, <2>2, UndoKept DEF Turns, VettingTypes
<1> QED
  BY <1>1, <1>2, <1>3, <1>4, <1>5, <1>6, <1>7

LEMMA VettingTypesStep ==
    ASSUME VettingTypes, VettingNext
    PROVE VettingTypes'
<1>0. app \in Applied /\ archive \in Applied /\ marks \subseteq marks'
  BY MarksGrow DEF VettingTypes
<1>1. ASSUME UNCHANGED handlers PROVE UndoIsMarked'
  BY <1>0, <1>1 DEF UndoIsMarked, VettingTypes
<1>2. CASE Finance
  <2>1. UNCHANGED <<archive, ballot, certs, active, policy, ended, approved>> /\ events' \in Nat
    BY <1>2, EventTypes DEF Finance, VettingTypes
  <2>2. app' \in Applied
    <3>1. \A target : (target = "cleared") \in BOOLEAN
      OBVIOUS
    <3> QED
      BY <1>0, <1>2, <3>1, AppTypes, Zenon DEF Finance, FinanceReject, FinanceReverse, FinanceClear, FinanceReinstate
  <2>3. UNCHANGED handlers \/ \E h \in Handlers : Turns(h, "sweep", "none", NoApp, {})
    BY <1>2, BeginMoves DEF Finance, FinanceReject, FinanceReverse, FinanceClear, FinanceReinstate
  <2> QED
    BY <1>0, <1>1, <2>1, <2>2, <2>3, UndoKept DEF Turns, VettingTypes
<1>3. CASE ForceDeny \/ Restore \/ Purge
  <2>1. UNCHANGED <<ballot, certs, active, policy, ended, handlers, approved>> /\ events' \in Nat
    BY <1>3, EventTypes, Zenon DEF ForceDeny, Restore, Purge, Overriding, VettingTypes
  <2>2. app' \in Applied /\ archive' \in Applied
    BY <1>0, <1>3, AppTypes, BlankApplications, Zenon DEF ForceDeny, Restore, Purge
  <2> QED
    BY <1>1, <2>1, <2>2 DEF VettingTypes
<1>4. CASE WindowEnds \/ ExtendWindow
  BY <1>1, <1>4, EventTypes DEF WindowEnds, ExtendWindow, VettingTypes
<1>5. ASSUME NEW h \in Handlers, FailSideEffect(h) PROVE VettingTypes'
  <2>1. UNCHANGED <<app, archive, ballot, certs, active, policy, ended, approved>> /\ events' \in Nat
    BY <1>5, EventTypes, Zenon DEF FailSideEffect
  <2>2. "failed" \in marks'
    BY <1>5, Zenon DEF FailSideEffect
  <2>3. Goes(h, "undo") \/ Ends(h)
    BY <1>5, DecideMoves
  <2> QED
    BY <2>1, <2>2, <2>3 DEF Goes, Ends, Turns, UndoIsMarked, VettingTypes
<1>6. ASSUME NEW h \in Handlers, HandlerDies(h) PROVE VettingTypes'
  <2>1. UNCHANGED <<app, archive, ballot, certs, active, policy, ended, approved>> /\ events' \in Nat
    BY <1>6, EventTypes DEF HandlerDies
  <2>2. Ends(h)
    BY <1>6, DecideMoves
  <2> QED
    BY <1>0, <2>1, <2>2, UndoKept DEF Ends, Turns, VettingTypes
<1> QED
  BY <1>0, <1>2, <1>3, <1>4, <1>5, <1>6, ContinueTypes, BeginTypes DEF VettingNext

Approving(h) == handlers[h].pc \in Deciders

LeftAlone == "forced" \notin marks /\ "denied approved" \notin marks

Weighing == {"tally", "closeout", "flip"}

Undecided == {"pending", "approved", "denied"}

Claims == {"revert", "takeoff", "removed", "delete"}

\* Unless the superadmin takes a hand, one handler at a time sees an approval through, and nothing
\* stands on the ballot before it does.
OneApproves ==
    LeftAlone =>
        /\ app.status \in Undecided
        /\ \A h \in Handlers : handlers[h].pc \notin Claims /\ handlers[h].kind # "force"
        /\ \A h \in Handlers : Approving(h) => app.status = "approved" /\ \A c, d \in handlers[h].row : c = d
        /\ \A h, g \in Handlers : Approving(h) /\ Approving(g) => h = g
        /\ app.status # "approved" => ballot = {}
        /\ \A h \in Handlers : handlers[h].pc \in {"candidate", "putback"} => ballot = {}
        /\ \A c, d \in ballot : c = d
        /\ \A h \in Handlers : handlers[h].pc \in Weighing \cup Deciders => handlers[h].doc.status \in Undecided

LEMMA OneApprovesInit == VettingInit => OneApproves
<1> SUFFICES ASSUME VettingInit PROVE OneApproves
  OBVIOUS
<1>1. app = Submitted /\ ballot = {} /\ handlers = [h \in Handlers |-> Idle]
  BY DEF VettingInit
<1>2. app.status = "pending" /\ \A h \in Handlers : handlers[h].pc = "idle" /\ handlers[h].kind = "none"
  BY <1>1, BlankApplications, Readings
<1> QED
  BY <1>1, <1>2 DEF OneApproves, Approving, Deciders, Claims, Weighing, Undecided

\* A step that decides nothing.
LEMMA OneApprovesIdle ==
    ASSUME OneApproves, VettingTypes, marks \subseteq marks', app'.status = app.status, ballot' = ballot,
           NEW h \in Handlers, NEW pc, NEW kind, NEW doc, NEW row, Turns(h, pc, kind, doc, row),
           pc \notin Deciders \cup Claims, kind # "force" \/ kind = handlers[h].kind,
           pc \in Weighing => doc = app \/ (doc = handlers[h].doc /\ handlers[h].pc \in Weighing)
    PROVE OneApproves'
<1> SUFFICES ASSUME LeftAlone' PROVE OneApproves'
  BY DEF OneApproves
<1>1. LeftAlone
  BY Zenon DEF LeftAlone
<1>2. \A g \in Handlers : Approving(g)' => g # h /\ Approving(g) /\ handlers'[g] = handlers[g]
  BY DEF Approving, Turns
<1>3. \A g \in Handlers : handlers'[g].pc \notin Claims /\ handlers'[g].kind # "force"
  BY <1>1 DEF OneApproves, Turns
<1>4. \A g \in Handlers : handlers'[g].pc \in {"candidate", "putback"} => ballot = {}
  BY <1>1 DEF OneApproves, Turns, Deciders
<1>5. \A g \in Handlers : handlers'[g].pc \in Weighing \cup Deciders => handlers'[g].doc.status \in Undecided
  BY <1>1 DEF OneApproves, Turns
<1> QED
  BY <1>1, <1>2, <1>3, <1>4, <1>5 DEF OneApproves

LEMMA OneApprovesDecides ==
    ASSUME OneApproves, VettingTypes, NEW h \in Handlers, marks \subseteq marks', LeftAlone',
           \/ Flip(h) \/ CreateCandidate(h) \/ InsertCertificate(h) \/ UndoApproval(h) \/ PutBack(h) \/ FailSideEffect(h)
    PROVE OneApproves'
<1>1. LeftAlone
  BY Zenon DEF LeftAlone
<1>2. CASE Flip(h)
  <2>1. ballot' = ballot
    BY <1>2 DEF Flip
  <2>2. CASE ~Open
    <3>1. app' = app /\ Ends(h)
      BY <1>2, <2>2, ContinueMoves
    <3> QED
      BY <2>1, <3>1, OneApprovesIdle DEF Ends, Deciders, Claims, Weighing
  <2>3. CASE Open
    <3>1. ballot = {} /\ \A g \in Handlers : ~Approving(g)
      BY <1>1, <2>3 DEF OneApproves, Open, Undecided
    <3>2. CASE /\ app'.status = "approved" 
               /\ Turns(h, "candidate", handlers[h].kind, handlers[h].doc, {approved + 1})
      <4>1. \A g \in Handlers : Approving(g)' => g = h
        BY <3>1, <3>2 DEF Turns, Approving
      <4>2. \A g \in Handlers : handlers'[g].pc \notin Claims /\ handlers'[g].kind # "force"
        BY <1>1, <3>2 DEF OneApproves, Turns, Claims
      <4>3. \A c, d \in handlers'[h].row : c = d
        BY <3>2 DEF Turns
      <4>4. \A g \in Handlers : handlers'[g].pc \in Weighing \cup Deciders => handlers'[g].doc.status \in Undecided
        BY <1>1, <1>2, <3>2, ContinueMoves DEF OneApproves, Turns, Weighing
      <4> QED
        BY <2>1, <3>1, <3>2, <4>1, <4>2, <4>3, <4>4 DEF OneApproves, Undecided
    <3>3. CASE app'.status = "denied" /\ Ends(h)
      <4>1. \A g \in Handlers : ~Approving(g)' /\ handlers'[g].pc \notin {"candidate", "putback"}
        BY <3>1, <3>3 DEF Ends, Turns, Approving, Deciders
      <4>2. \A g \in Handlers : handlers'[g].pc \notin Claims /\ handlers'[g].kind # "force"
        BY <1>1, <3>3 DEF OneApproves, Ends, Turns, Claims
      <4>3. \A g \in Handlers : handlers'[g].pc \in Weighing \cup Deciders => handlers'[g].doc.status \in Undecided
        BY <1>1, <3>3 DEF OneApproves, Ends, Turns, Weighing, Deciders
      <4> QED
        BY <2>1, <3>1, <3>3, <4>1, <4>2, <4>3 DEF OneApproves, Undecided
    <3> QED
      BY <1>2, <2>3, <3>2, <3>3, ContinueMoves
  <2> QED
    BY <2>2, <2>3
<1>3. ASSUME Approving(h), app' = app,
             NEW pc \in Deciders, Goes(h, pc),
             \A c, d \in ballot' : c = d, pc = "putback" => ballot' = {}, pc # "candidate"
      PROVE OneApproves'
  <2>1. app.status = "approved" /\ \A g \in Handlers : Approving(g) => g = h
    BY <1>1, <1>3 DEF OneApproves
  <2>2. \A g \in Handlers : Approving(g)' => g = h
    BY <1>3, <2>1 DEF Goes, Turns, Approving
  <2>3. \A g \in Handlers : handlers'[g].pc \notin Claims /\ handlers'[g].kind # "force"
    BY <1>1, <1>3 DEF OneApproves, Goes, Turns, Claims, Deciders
  <2>4. \A c, d \in handlers'[h].row : c = d
    BY <1>1, <1>3 DEF OneApproves, Goes, Turns
  <2>5. \A g \in Handlers : handlers'[g].pc \in {"candidate", "putback"} => ballot' = {}
    BY <1>3, <2>2 DEF Goes, Turns, Approving, Deciders
  <2>6. \A g \in Handlers : handlers'[g].pc \in Weighing \cup Deciders => handlers'[g].doc.status \in Undecided
    BY <1>1, <1>3 DEF OneApproves, Goes, Turns, Approving
  <2> QED
    BY <1>3, <2>1, <2>2, <2>3, <2>4, <2>5, <2>6 DEF OneApproves, Undecided
<1>4. CASE CreateCandidate(h)
  <2>1. handlers[h].pc = "candidate" /\ Goes(h, "certificate") /\ app' = app /\ ballot' = ballot \cup handlers[h].row
    BY <1>4, DecideMoves DEF CreateCandidate
  <2>2. Approving(h) /\ ballot = {} /\ \A c, d \in handlers[h].row : c = d
    BY <1>1, <2>1 DEF OneApproves, Approving, Deciders
  <2> QED
    BY <1>3, <2>1, <2>2 DEF Deciders
<1>5. CASE InsertCertificate(h)
  <2>1. handlers[h].pc = "certificate" /\ Goes(h, "stamp") /\ app' = app /\ ballot' = ballot
    BY <1>5, DecideMoves DEF InsertCertificate
  <2>2. Approving(h) /\ \A c, d \in ballot : c = d
    BY <1>1, <2>1 DEF OneApproves, Approving, Deciders
  <2> QED
    BY <1>3, <2>1, <2>2 DEF Deciders
<1>6. CASE UndoApproval(h)
  <2>1. handlers[h].pc = "undo" /\ Goes(h, "putback") /\ app' = app /\ ballot' = {}
    BY <1>6, DecideMoves DEF UndoApproval, UndoneBallot
  <2>2. Approving(h)
    BY <2>1 DEF Approving, Deciders
  <2> QED
    BY <1>3, <2>1, <2>2 DEF Deciders
<1>7. CASE FailSideEffect(h)
  <2>1. handlers[h].pc \in {"candidate", "certificate", "stamp"} /\ app' = app /\ ballot' = ballot
    BY <1>7, DecideMoves, Zenon DEF FailSideEffect
  <2>2. Approving(h) /\ handlers[h].kind # "force" /\ \A c, d \in ballot : c = d
    BY <1>1, <2>1 DEF OneApproves, Approving, Deciders
  <2>3. Goes(h, "undo")
    BY <1>7, <2>2, DecideMoves
  <2> QED
    BY <1>3, <2>1, <2>2, <2>3 DEF Deciders
<1>8. CASE PutBack(h)
  <2>1. handlers[h].pc = "putback" /\ Ends(h) /\ ballot' = ballot
    BY <1>8, DecideMoves DEF PutBack
  <2>2. ballot = {} /\ app.status = "approved" /\ \A g \in Handlers : Approving(g) => g = h
    BY <1>1, <2>1 DEF OneApproves, Approving, Deciders
  <2>3. \A g \in Handlers : ~Approving(g)' /\ handlers'[g].pc \notin {"candidate", "putback"}
    BY <2>1, <2>2 DEF Ends, Turns, Approving, Deciders
  <2>4. \A g \in Handlers : handlers'[g].pc \notin Claims /\ handlers'[g].kind # "force"
    BY <1>1, <2>1 DEF OneApproves, Ends, Turns, Claims
  <2>5. app'.status \in Undecided
    <3>1. app' = [app EXCEPT !.status = handlers[h].doc.status]
      BY <1>8, <2>2 DEF PutBack
    <3>2. handlers[h].doc.status \in Undecided
      BY <1>1, <2>1 DEF OneApproves, Deciders
    <3> QED
      BY <3>1, <3>2 DEF VettingTypes, Applied
  <2>6. \A g \in Handlers : handlers'[g].pc \in Weighing \cup Deciders => handlers'[g].doc.status \in Undecided
    BY <1>1, <2>1 DEF OneApproves, Ends, Turns, Weighing, Deciders
  <2> QED
    BY <2>1, <2>2, <2>3, <2>4, <2>5, <2>6 DEF OneApproves
<1> QED
  BY <1>2, <1>4, <1>5, <1>6, <1>7, <1>8

\* What the tally, the votes and the panel leave alone.
LEMMA StatusStays ==
    ASSUME VettingTypes, NEW h \in Handlers,
           CastVote(h) \/ RereadApplication(h) \/ Resweep(h) \/ Tally(h) \/ FlagTie(h) \/ Sweep(h) \/ TallyCloseout(h)
               \/ HandOver(h) \/ StampCertificate(h)
    PROVE /\ app'.status = app.status /\ app'.rejected = app.rejected /\ ballot' = ballot /\ marks' = marks
          /\ StampCertificate(h) \/ (app'.cert = app.cert /\ certs' = certs)
<1>0. app \in Applied
  BY DEF VettingTypes
<1>1. CASE CastVote(h)
  <2>1. (\E p \in Panel, v \in Votes : app' = [app EXCEPT !.votes[p] = v]) \/ app' = app
    BY <1>1, ContinueMoves
  <2> QED
    BY <1>0, <1>1, <2>1 DEF CastVote, Applied
<1>2. CASE RereadApplication(h) \/ Resweep(h) \/ Tally(h) \/ Sweep(h) \/ TallyCloseout(h)
  BY <1>2 DEF RereadApplication, Resweep, Tally, Sweep, TallyCloseout
<1>3. CASE FlagTie(h)
  BY <1>0, <1>3 DEF FlagTie, Applied
<1>4. CASE HandOver(h)
  BY <1>0, <1>4 DEF HandOver, HandedOver, Applied
<1>5. CASE StampCertificate(h)
  <2>1. PICK c \in handlers[h].row : app' = IF app.status = "gone" THEN app ELSE [app EXCEPT !.cert = c]
    BY <1>5 DEF StampCertificate
  <2> QED
    BY <1>0, <1>5, <2>1 DEF StampCertificate, Applied
<1> QED
  BY <1>1, <1>2, <1>3, <1>4, <1>5

\* Finance opens and closes what no handler is seeing through.
LEMMA FinanceMoves ==
    ASSUME VettingTypes, Finance
    PROVE /\ app.status \in {"pending", "denied"} /\ app'.status \in {"pending", "denied"}
          /\ UNCHANGED <<archive, ballot, certs, active, policy, ended, approved>>
          /\ UNCHANGED handlers \/ \E h \in Handlers : handlers[h].pc = "idle" /\ Turns(h, "sweep", "none", NoApp, {})
          /\ app.status = "denied" => marks' = marks \cup {"reinstated"}
          /\ marks' = marks \/ (marks' = marks \cup {"reinstated"} /\ app.status = "denied" /\ app.rejected /\ ~app'.rejected)
<1>0. app \in Applied
  BY DEF VettingTypes
<1>1. ASSUME FinanceReject \/ FinanceReverse, Event, UNCHANGED marks
      PROVE /\ app.status = "pending" /\ app'.status \in {"pending", "denied"} /\ UNCHANGED handlers
  BY <1>0, <1>1 DEF FinanceReject, FinanceReverse, Reversed, Open, Applied
<1>2. ASSUME NEW h \in Handlers, FinanceClear(h)
      PROVE app.status = "pending" /\ app'.status = "pending" /\ handlers[h].pc = "idle" /\ Turns(h, "sweep", "none", NoApp, {})
  BY <1>0, <1>2, BeginMoves DEF FinanceClear, Open, Applied
<1>3. ASSUME NEW h \in Handlers, NEW target, FinanceReinstate(h, target)
      PROVE /\ app.status = "denied" /\ app'.status = "pending" /\ app.rejected /\ ~app'.rejected
            /\ marks' = marks \cup {"reinstated"}
            /\ UNCHANGED handlers \/ (handlers[h].pc = "idle" /\ Turns(h, "sweep", "none", NoApp, {}))
  BY <1>0, <1>3, BeginMoves DEF FinanceReinstate, Applied
<1>4. UNCHANGED <<archive, ballot, certs, active, policy, ended, approved>>
  BY DEF Finance
<1> QED
  BY <1>1, <1>2, <1>3, <1>4 DEF Finance

LEMMA OneApprovesStep ==
    ASSUME OneApproves, VettingTypes, VettingNext
    PROVE OneApproves'
<1> SUFFICES ASSUME LeftAlone' PROVE OneApproves'
  BY DEF OneApproves
<1>0. marks \subseteq marks' /\ LeftAlone
  BY MarksGrow, Zenon DEF LeftAlone
<1>1. ~ForceDeny /\ ~Restore /\ ~Purge
  BY Zenon DEF ForceDeny, Restore, Purge, Overriding, LeftAlone
<1>2. ASSUME NEW h \in Handlers
      PROVE /\ ~ForceApprove(h) /\ ~ForceClear(h) /\ ~BeginRevert(h) /\ ~RemoveCandidate(h)
            /\ \A mode \in {"soft", "hard"} : ~BeginDelete(h, mode)
  BY Zenon DEF ForceApprove, ForceClear, BeginRevert, RemoveCandidate, BeginDelete, Overriding, LeftAlone
<1>3. CASE Finance
  <2>1. ballot' = ballot /\ app.status # "approved" /\ app'.status \in Undecided /\ app'.status # "approved"
    BY <1>3, FinanceMoves DEF Undecided
  <2>2. ballot = {} /\ \A g \in Handlers : ~Approving(g)
    BY <1>0, <2>1 DEF OneApproves
  <2>3. UNCHANGED handlers \/ \E h \in Handlers : Turns(h, "sweep", "none", NoApp, {})
    BY <1>3, FinanceMoves
  <2>4. \A g \in Handlers : handlers'[g] = handlers[g] \/ (handlers'[g].pc = "sweep" /\ handlers'[g].kind = "none")
    BY <2>3 DEF Turns
  <2>5. \A g \in Handlers : /\ ~Approving(g)' /\ handlers'[g].pc \notin Claims \cup {"candidate", "putback"}
                            /\ handlers'[g].kind # "force"
    BY <1>0, <2>2, <2>4 DEF OneApproves, Approving, Deciders, Claims
  <2>6. \A g \in Handlers : handlers'[g].pc \in Weighing \cup Deciders => handlers'[g].doc.status \in Undecided
    BY <1>0, <2>4 DEF OneApproves, Weighing, Deciders
  <2> QED
    BY <2>1, <2>2, <2>5, <2>6 DEF OneApproves
<1>4. CASE WindowEnds \/ ExtendWindow
  <2>1. UNCHANGED <<app, ballot, handlers>>
    BY <1>4 DEF WindowEnds, ExtendWindow
  <2> QED
    BY <1>0, <2>1 DEF OneApproves, Approving
<1>5. ASSUME NEW h \in Handlers,
             \/ \E p \in Panel, v \in Votes \ {"none"} : BeginVote(h, p, v)
             \/ \E v \in Votes \ {"none"} : TieBreak(h, v) \/ CloseoutDecision(h, v)
             \/ \E p \in Panel : Activate(h, p) \/ BeginDeactivate(h, p)
             \/ BeginCloseout(h) \/ SetPolicy(h)
      PROVE OneApproves'
  <2>1. app' = app /\ ballot' = ballot
    BY <1>5, Zenon DEF BeginVote, TieBreak, CloseoutDecision, Activate, BeginDeactivate, BeginCloseout, SetPolicy
  <2>2. \E pc, kind, doc, row : /\ Turns(h, pc, kind, doc, row) /\ pc \notin Deciders \cup Claims /\ kind # "force"
                                /\ pc \in Weighing => doc = app
    BY <1>5, BeginMoves DEF Begins, Deciders, Claims, Weighing
  <2> QED
    BY <1>0, <2>1, <2>2, OneApprovesIdle
<1>6. ASSUME NEW h \in Handlers,
             CastVote(h) \/ RereadApplication(h) \/ Resweep(h) \/ Tally(h) \/ FlagTie(h) \/ Sweep(h) \/ TallyCloseout(h)
               \/ HandOver(h) \/ StampCertificate(h)
      PROVE OneApproves'
  <2>1. app'.status = app.status /\ ballot' = ballot
    BY <1>6, StatusStays
  <2>2. \E pc, kind, doc, row : /\ Turns(h, pc, kind, doc, row) /\ pc \notin Deciders \cup Claims
                                /\ kind # "force" \/ kind = handlers[h].kind
                                /\ pc \in Weighing => doc = app \/ (doc = handlers[h].doc /\ handlers[h].pc \in Weighing)
    <3>1. CASE CastVote(h) \/ FlagTie(h) \/ HandOver(h) \/ StampCertificate(h)
      BY <3>1, ContinueMoves, DecideMoves DEF Goes, Ends, Deciders, Claims, Weighing
    <3>2. CASE RereadApplication(h) \/ Resweep(h) \/ Sweep(h)
      BY <3>2, ContinueMoves DEF Ends, Deciders, Claims, Weighing
    <3>3. CASE Tally(h) \/ TallyCloseout(h)
      BY <3>3, ContinueMoves DEF Goes, Ends, Deciders, Claims, Weighing
    <3> QED
      BY <1>6, <3>1, <3>2, <3>3
  <2> QED
    BY <1>0, <2>1, <2>2, OneApprovesIdle
<1>7. ASSUME NEW h \in Handlers, Revert(h) \/ TakeOff(h) \/ MarkRemoved(h) \/ Delete(h) PROVE FALSE
  BY <1>0, <1>7, DecideMoves DEF OneApproves, Claims
<1>8. ASSUME NEW h \in Handlers, Deactivate(h) \/ HandlerDies(h) PROVE OneApproves'
  <2>1. app' = app /\ ballot' = ballot
    BY <1>8 DEF Deactivate, HandlerDies
  <2>2. Turns(h, "resweep", "none", NoApp, {}) \/ Turns(h, "idle", "none", NoApp, {})
    BY <1>8, DecideMoves DEF Ends
  <2> QED
    BY <1>0, <2>1, <2>2, OneApprovesIdle DEF Deciders, Claims, Weighing
<1> QED
  BY <1>0, <1>1, <1>2, <1>3, <1>4, <1>5, <1>6, <1>7, <1>8, OneApprovesDecides DEF VettingNext, Continue

\* What is approved is on the ballot with a certificate, or about to be, or about to be undone.
Completed ==
    /\ app.status = "approved" => (\E h \in Handlers : Approving(h)) \/ (ballot # {} /\ app.cert \in certs)
    /\ \A h \in Handlers : /\ handlers[h].pc \in {"candidate", "certificate", "stamp"} => handlers[h].row # {}
                           /\ handlers[h].pc \in {"certificate", "stamp"} => ballot # {}
                           /\ handlers[h].pc = "stamp" => handlers[h].row \subseteq certs
                           /\ handlers[h].pc \in {"undo", "putback"} => handlers[h].doc.status # "approved"

DecidedOnce == \A h \in Handlers : handlers[h].doc.status = "approved" => app.status = "approved" /\ ~Approving(h)

ApprovalComplete == marks \subseteq {"failed"} => Completed /\ (marks = {} => DecidedOnce)

LEMMA ApprovalCompleteInit == VettingInit => ApprovalComplete
<1> SUFFICES ASSUME VettingInit PROVE ApprovalComplete
  OBVIOUS
<1>1. app = Submitted /\ handlers = [h \in Handlers |-> Idle]
  BY DEF VettingInit
<1>2. app.status = "pending" /\ \A h \in Handlers : handlers[h].pc = "idle" /\ handlers[h].doc.status = "gone"
  BY <1>1, BlankApplications, Readings
<1> QED
  BY <1>2 DEF ApprovalComplete, Completed, DecidedOnce, Approving

LEMMA CompleteIdle ==
    ASSUME Completed, marks = {} => DecidedOnce, VettingTypes, marks' = marks,
           app'.status = app.status, app'.cert = app.cert, ballot' = ballot, certs' = certs,
           NEW h \in Handlers, NEW pc, NEW kind, NEW doc, NEW row, Turns(h, pc, kind, doc, row),
           pc \notin Deciders, ~Approving(h), doc \in {app, handlers[h].doc, NoApp}
    PROVE Completed' /\ (marks' = {} => DecidedOnce')
<1>1. \A g \in Handlers : Approving(g)' <=> Approving(g)
  BY DEF Turns, Approving
<1>2. \A g \in Handlers : g # h => handlers'[g] = handlers[g]
  BY DEF Turns
<1>3. handlers'[h].pc \notin Deciders
  BY DEF Turns
<1>4. Completed'
  BY <1>1, <1>2, <1>3 DEF Completed, Deciders
<1>5. ASSUME marks = {} PROVE DecidedOnce'
  <2>1. handlers'[h].doc.status = "approved" => app.status = "approved"
    BY <1>5, BlankApplications DEF Turns, DecidedOnce
  <2> QED
    BY <1>1, <1>2, <1>5, <2>1 DEF DecidedOnce
<1> QED
  BY <1>4, <1>5

LEMMA CompleteStep ==
    ASSUME ApprovalComplete, OneApproves, VettingTypes, VettingNext
    PROVE ApprovalComplete'
<1> SUFFICES ASSUME marks' \subseteq {"failed"} PROVE Completed' /\ (marks' = {} => DecidedOnce')
  BY DEF ApprovalComplete
<1>0. /\ marks \subseteq marks' /\ LeftAlone /\ LeftAlone'
      /\ Completed /\ (marks = {} => DecidedOnce)
  BY MarksGrow, Zenon DEF LeftAlone, ApprovalComplete
<1>1. ~ForceDeny /\ ~Restore /\ ~Purge /\ ~ExtendWindow
  <2>1. ForceDeny => "denied approved" \in marks' \/ "forced" \in marks'
    BY Zenon DEF ForceDeny, Overriding
  <2>2. Restore \/ Purge \/ ExtendWindow => "forced" \in marks' \/ "extended" \in marks'
    BY DEF Restore, Purge, Overriding, ExtendWindow
  <2> QED
    BY <2>1, <2>2, Zenon
<1>2. ASSUME NEW h \in Handlers
      PROVE /\ ~ForceApprove(h) /\ ~ForceClear(h) /\ ~BeginRevert(h) /\ ~RemoveCandidate(h) /\ ~HandlerDies(h)
            /\ \A mode \in {"soft", "hard"} : ~BeginDelete(h, mode)
  BY DEF ForceApprove, ForceClear, BeginRevert, RemoveCandidate, BeginDelete, Overriding, HandlerDies
<1>3. CASE Finance
  <2>1. UNCHANGED <<ballot, certs, marks>> /\ app.status # "approved" /\ app'.status # "approved"
    BY <1>3, FinanceMoves
  <2>2. UNCHANGED handlers \/ \E h \in Handlers : Turns(h, "sweep", "none", NoApp, {})
    BY <1>3, FinanceMoves
  <2>3. \A g \in Handlers : handlers'[g] = handlers[g] \/ (handlers'[g].pc = "sweep" /\ handlers'[g].doc = NoApp)
    BY <2>2 DEF Turns
  <2>4. Completed'
    BY <1>0, <2>1, <2>3 DEF Completed
  <2>5. marks = {} => DecidedOnce'
    BY <1>0, <2>1, <2>3, BlankApplications DEF DecidedOnce
  <2> QED
    BY <2>1, <2>4, <2>5
<1>4. CASE WindowEnds
  BY <1>0, <1>4 DEF WindowEnds, Completed, DecidedOnce, Approving
<1>5. ASSUME NEW h \in Handlers,
             \/ \E p \in Panel, v \in Votes \ {"none"} : BeginVote(h, p, v)
             \/ \E v \in Votes \ {"none"} : TieBreak(h, v) \/ CloseoutDecision(h, v)
             \/ \E p \in Panel : Activate(h, p) \/ BeginDeactivate(h, p)
             \/ BeginCloseout(h) \/ SetPolicy(h)
      PROVE Completed' /\ (marks' = {} => DecidedOnce')
  <2>1. UNCHANGED <<app, ballot, certs, marks>>
    BY <1>5, Zenon DEF BeginVote, TieBreak, CloseoutDecision, Activate, BeginDeactivate, BeginCloseout, SetPolicy
  <2>2. \E pc, kind, doc, row : /\ Turns(h, pc, kind, doc, row) /\ pc \notin Deciders /\ handlers[h].pc = "idle"
                                /\ doc \in {app, NoApp}
    BY <1>5, BeginMoves DEF Begins, Deciders
  <2>3. ~Approving(h)
    BY <2>2 DEF Approving, Deciders
  <2> QED
    BY <1>0, <2>1, <2>2, <2>3, CompleteIdle
<1>6. ASSUME NEW h \in Handlers,
             CastVote(h) \/ RereadApplication(h) \/ Resweep(h) \/ Tally(h) \/ FlagTie(h) \/ Sweep(h) \/ TallyCloseout(h)
               \/ HandOver(h) \/ Deactivate(h)
      PROVE Completed' /\ (marks' = {} => DecidedOnce')
  <2>1. handlers[h].pc \notin Deciders
    BY <1>6, ContinueMoves, DecideMoves DEF Deciders
  <2>2. app'.status = app.status /\ app'.cert = app.cert /\ UNCHANGED <<ballot, certs, marks>>
    <3>1. CASE Deactivate(h)
      BY <3>1 DEF Deactivate
    <3>2. CASE ~Deactivate(h)
      <4>1. ~StampCertificate(h)
        BY <2>1 DEF StampCertificate, Deciders
      <4> QED
        BY <1>6, <3>2, <4>1, StatusStays
    <3> QED
      BY <3>1, <3>2
  <2>3. \E pc, kind, doc, row : /\ Turns(h, pc, kind, doc, row) /\ pc \notin Deciders
                                /\ doc \in {app, handlers[h].doc, NoApp}
    <3>1. CASE CastVote(h) \/ FlagTie(h) \/ HandOver(h) \/ Deactivate(h)
      BY <3>1, ContinueMoves, DecideMoves DEF Goes, Ends, Deciders
    <3>2. CASE RereadApplication(h) \/ Resweep(h) \/ Sweep(h)
      BY <3>2, ContinueMoves DEF Ends, Deciders
    <3>3. CASE Tally(h) \/ TallyCloseout(h)
      BY <3>3, ContinueMoves DEF Goes, Ends, Deciders
    <3> QED
      BY <1>6, <3>1, <3>2, <3>3
  <2> QED
    BY <1>0, <2>1, <2>2, <2>3, CompleteIdle DEF Approving
<1>7. ASSUME NEW h \in Handlers, Revert(h) \/ TakeOff(h) \/ MarkRemoved(h) \/ Delete(h) PROVE FALSE
  BY <1>0, <1>7, DecideMoves DEF OneApproves, Claims
<1>8. ASSUME NEW h \in Handlers, Flip(h) PROVE Completed' /\ (marks' = {} => DecidedOnce')
  <2>1. UNCHANGED <<ballot, certs, marks>> /\ handlers[h].pc = "flip"
    BY <1>8 DEF Flip
  <2>2. CASE ~Open
    <3>1. app' = app /\ Turns(h, "idle", "none", NoApp, {}) /\ ~Approving(h)
      BY <1>8, <2>1, <2>2, ContinueMoves DEF Ends, Approving, Deciders
    <3> QED
      BY <1>0, <2>1, <3>1, CompleteIdle DEF Deciders
  <2>3. CASE Open
    <3>1. marks = {} => \A g \in Handlers : handlers[g].doc.status # "approved"
      BY <1>0, <2>3 DEF DecidedOnce, Open
    <3>2. CASE /\ app'.status = "approved"
               /\ Turns(h, "candidate", handlers[h].kind, handlers[h].doc, {approved + 1})
      <4>1. Approving(h)' /\ handlers'[h].row # {} /\ handlers'[h].pc = "candidate"
        BY <3>2 DEF Turns, Approving, Deciders
      <4>2. Completed'
        BY <1>0, <2>1, <3>2, <4>1 DEF Completed, Turns
      <4>3. marks = {} => DecidedOnce'
        BY <3>1, <3>2 DEF DecidedOnce, Turns
      <4> QED
        BY <2>1, <4>2, <4>3
    <3>3. CASE app'.status = "denied" /\ Ends(h)
      <4>1. Completed'
        BY <1>0, <2>1, <3>3 DEF Completed, Ends, Turns
      <4>2. marks = {} => DecidedOnce'
        BY <3>1, <3>3, BlankApplications DEF DecidedOnce, Ends, Turns
      <4> QED
        BY <2>1, <4>1, <4>2
    <3> QED
      BY <1>8, <2>3, <3>2, <3>3, ContinueMoves
  <2> QED
    BY <2>2, <2>3
<1>9. ASSUME NEW h \in Handlers, Approving(h)
      PROVE app.status = "approved" /\ \A g \in Handlers : Approving(g) => g = h
  BY <1>0, <1>9 DEF OneApproves
<1>10. ASSUME NEW h \in Handlers, CreateCandidate(h) \/ InsertCertificate(h)
       PROVE Completed' /\ (marks' = {} => DecidedOnce')
  <2>1. Approving(h) /\ app' = app /\ marks' = marks /\ ballot \subseteq ballot' /\ certs \subseteq certs'
    BY <1>10 DEF Approving, Deciders, CreateCandidate, InsertCertificate
  <2>2. CASE CreateCandidate(h)
    <3>1. Goes(h, "certificate") /\ handlers[h].row # {} /\ ballot' # {}
      BY <1>0, <2>2, DecideMoves DEF CreateCandidate, Completed
    <3> QED
      BY <1>0, <2>1, <3>1 DEF Completed, DecidedOnce, Goes, Turns, Approving, Deciders
  <2>3. CASE InsertCertificate(h)
    <3>1. Goes(h, "stamp") /\ handlers[h].row # {} /\ ballot' # {} /\ handlers[h].row \subseteq certs'
      BY <1>0, <2>3, DecideMoves DEF InsertCertificate, Completed
    <3> QED
      BY <1>0, <2>1, <3>1 DEF Completed, DecidedOnce, Goes, Turns, Approving, Deciders
  <2> QED
    BY <1>10, <2>2, <2>3
<1>11. ASSUME NEW h \in Handlers, StampCertificate(h) PROVE Completed' /\ (marks' = {} => DecidedOnce')
  <2>1. /\ handlers[h].pc = "stamp" /\ Ends(h) /\ app'.status = app.status /\ UNCHANGED <<ballot, certs, marks>>
        /\ app.status # "gone" => app'.cert \in handlers[h].row
    BY <1>11, DecideMoves DEF StampCertificate
  <2>2. Approving(h) /\ ballot # {} /\ handlers[h].row \subseteq certs
    BY <1>0, <2>1 DEF Completed, Approving, Deciders
  <2>3. ballot' # {} /\ app'.cert \in certs'
    BY <1>9, <2>1, <2>2
  <2>4. Completed'
    BY <1>0, <2>1, <2>3 DEF Completed, Ends, Turns
  <2>5. marks = {} => DecidedOnce'
    BY <1>0, <2>1, BlankApplications DEF DecidedOnce, Ends, Turns, Approving, Deciders
  <2> QED
    BY <2>1, <2>4, <2>5
<1>12. ASSUME NEW h \in Handlers, FailSideEffect(h) PROVE Completed' /\ (marks' = {} => DecidedOnce')
  <2>1. /\ handlers[h].pc \in {"candidate", "certificate", "stamp"} /\ UNCHANGED <<app, ballot, certs>>
        /\ marks' = marks \cup {IF "failed" \in marks THEN "failed again" ELSE "failed"}
    BY <1>12, DecideMoves, Zenon DEF FailSideEffect
  <2>2. marks = {} /\ marks' # {}
    BY <1>0, <2>1, Zenon
  <2>3. Approving(h) /\ handlers[h].kind # "force" /\ handlers[h].doc.status # "approved"
    BY <1>0, <2>1, <2>2 DEF OneApproves, DecidedOnce, Approving, Deciders
  <2>4. Goes(h, "undo")
    BY <1>12, <2>3, DecideMoves
  <2> QED
    BY <1>0, <2>1, <2>2, <2>3, <2>4 DEF Completed, Goes, Turns, Approving, Deciders
<1>13. ASSUME NEW h \in Handlers, UndoApproval(h) PROVE Completed' /\ (marks' = {} => DecidedOnce')
  <2>1. handlers[h].pc = "undo" /\ Goes(h, "putback") /\ app' = app /\ marks' = marks
    BY <1>13, DecideMoves DEF UndoApproval
  <2>2. Approving(h) /\ marks # {} /\ handlers[h].doc.status # "approved"
    BY <1>0, <2>1 DEF Completed, Approving, Deciders, VettingTypes, UndoIsMarked
  <2>3. \A g \in Handlers : g # h => handlers'[g] = handlers[g] /\ ~Approving(g)
    BY <1>9, <2>1, <2>2 DEF Goes, Turns
  <2>4. Completed'
    BY <2>1, <2>2, <2>3 DEF Completed, Goes, Turns, Approving, Deciders
  <2> QED
    BY <2>1, <2>2, <2>4
<1>14. ASSUME NEW h \in Handlers, PutBack(h) PROVE Completed' /\ (marks' = {} => DecidedOnce')
  <2>1. handlers[h].pc = "putback" /\ Ends(h) /\ UNCHANGED <<ballot, certs, marks>>
    BY <1>14, DecideMoves DEF PutBack
  <2>2. Approving(h) /\ marks # {} /\ handlers[h].doc.status # "approved"
    BY <1>0, <2>1 DEF Completed, Approving, Deciders, VettingTypes, UndoIsMarked
  <2>3. app'.status # "approved"
    BY <1>14, <2>2 DEF PutBack, VettingTypes, Applied
  <2>4. Completed'
    BY <1>0, <2>1, <2>3 DEF Completed, Ends, Turns
  <2> QED
    BY <2>1, <2>2, <2>4
<1> QED
  BY <1>0, <1>1, <1>2, <1>3, <1>4, <1>5, <1>6, <1>7, <1>8, <1>10, <1>11, <1>12, <1>13, <1>14 DEF VettingNext, Continue

\* Without votes, or without a panel, nothing is decided.
LEMMA NobodyDecides ==
    ASSUME NEW pol, NEW keys \in SUBSET Panel
    PROVE /\ TallyOutcome(pol, keys, NoVotes) = "none"
          /\ \A votes : keys = {} => TallyOutcome(pol, keys, votes) = "none"
<1>1. IsFiniteSet(keys)
  BY FS_Subset, VettingAssumption DEF VettingAssumption
<1>2. Cardinality(keys) \in Nat /\ (keys = {} => Cardinality(keys) = 0)
  BY <1>1, FS_CardinalityType, FS_EmptySet
<1>3. For(NoVotes, keys, "approve") = 0 /\ For(NoVotes, keys, "deny") = 0
  <2>1. {p \in keys : NoVotes[p] = "approve"} = {} /\ {p \in keys : NoVotes[p] = "deny"} = {}
    BY DEF NoVotes
  <2> QED
    BY <2>1, FS_EmptySet DEF For
<1>4. TallyOutcome(pol, keys, NoVotes) = "none"
  <2>1. CASE Cardinality(keys) = 0
    BY <2>1 DEF TallyOutcome
  <2>2. CASE Cardinality(keys) # 0
    <3>1. Cardinality(keys) > 0 /\ Cardinality(keys) \div 2 >= 0
      BY <1>2, <2>2
    <3> QED
      BY <1>2, <1>3, <2>2, <3>1 DEF TallyOutcome
  <2> QED
    BY <2>1, <2>2
<1>5. ASSUME NEW votes, keys = {} PROVE TallyOutcome(pol, keys, votes) = "none"
  BY <1>2, <1>5 DEF TallyOutcome
<1> QED
  BY <1>4, <1>5

Decisive == TallyOutcome(policy, Live, app.votes) # "none"

ToDecide == app.status = "pending" /\ ~app.undecided

\* This handler is about to tally the votes as they stand, or to decide.
Looks(h) ==
    \/ handlers[h].pc \in {"reread", "resweep", "flip"}
    \/ /\ handlers[h].pc = "tally" /\ handlers[h].doc.votes = app.votes
       /\ handlers[h].doc.status # "gone" /\ ~handlers[h].doc.undecided

\* Inside the window a majority does not escape: who stored the vote, or changed the panel, looks again.
MajoritySeen ==
    /\ \A h \in Handlers : handlers[h].pc \notin {"closeout", "handover"}
    /\ ToDecide /\ Decisive => \E h \in Handlers : Looks(h)

MajorityIsSeen == marks \subseteq {"forced"} /\ ~ended => MajoritySeen

VotesStand == app'.votes = app.votes /\ app'.status = app.status /\ app'.undecided = app.undecided

LEMMA SeenStill ==
    ASSUME MajoritySeen, VotesStand, policy' = policy, Live' = Live,
           NEW h \in Handlers, NEW pc, NEW kind, NEW doc, NEW row, Turns(h, pc, kind, doc, row),
           pc \notin {"closeout", "handover"}, ~Looks(h)
    PROVE MajoritySeen'
<1>1. \A g \in Handlers : Looks(g) => g # h /\ Looks(g)'
  BY DEF Turns, Looks, VotesStand
<1>2. \A g \in Handlers : handlers'[g].pc \notin {"closeout", "handover"}
  BY DEF Turns, MajoritySeen
<1>3. ToDecide' = ToDecide /\ Decisive' = Decisive
  BY DEF VotesStand, ToDecide, Decisive
<1> QED
  BY <1>1, <1>2, <1>3 DEF MajoritySeen

LEMMA SeenByOne ==
    ASSUME MajoritySeen, NEW h \in Handlers, NEW pc, NEW kind, NEW doc, NEW row, Turns(h, pc, kind, doc, row),
           pc \notin {"closeout", "handover"}, Looks(h)' \/ ~ToDecide' \/ ~Decisive'
    PROVE MajoritySeen'
BY DEF Turns, MajoritySeen

LEMMA SeenSteps ==
    ASSUME MajoritySeen, VettingTypes, NEW h \in Handlers, ~ended, ~ended', "failed" \notin marks, Continue(h)
    PROVE MajoritySeen'
<1>0. app \in Applied /\ handlers[h] \in HandlerDoc /\ handlers[h].pc \notin {"closeout", "handover", "undo", "putback"}
  BY DEF VettingTypes, UndoIsMarked, MajoritySeen
<1>1. CASE CastVote(h)
  <2>1. policy' = policy /\ Live' = Live
    BY <1>1 DEF CastVote, Live
  <2>2. CASE Goes(h, "reread")
    BY <2>2, SeenByOne DEF Goes, Turns, Looks
  <2>3. CASE app' = app /\ Ends(h) /\ handlers[h].pc = "cast"
    BY <2>1, <2>3, SeenStill DEF Ends, Looks, VotesStand
  <2> QED
    BY <1>1, <2>2, <2>3, ContinueMoves
<1>2. CASE RereadApplication(h) \/ Resweep(h)
  <2>1. app' = app
    BY <1>2 DEF RereadApplication, Resweep
  <2>2. CASE \E kind : Turns(h, "tally", kind, app, {})
    <3>1. ToDecide => Looks(h)'
      BY <1>0, <2>1, <2>2 DEF ToDecide, Looks, Turns
    <3>2. ToDecide' = ToDecide
      BY <2>1 DEF ToDecide
    <3> QED
      BY <2>2, <3>1, <3>2, SeenByOne
  <2>3. CASE ~Open /\ Ends(h)
    BY <2>1, <2>3, SeenByOne DEF Ends, Open, ToDecide
  <2> QED
    BY <1>2, <2>2, <2>3, ContinueMoves
<1>3. CASE Tally(h)
  <2>1. app' = app /\ policy' = policy /\ Live' = Live /\ Live \subseteq Panel
    BY <1>3 DEF Tally, Live, VettingTypes
  <2>2. VotesStand /\ Decisive' = Decisive
    BY <2>1 DEF VotesStand, Decisive
  <2>3. CASE Goes(h, "flip")
    BY <2>3, SeenByOne DEF Goes, Turns, Looks
  <2>4. CASE (handlers[h].doc.status = "gone" \/ handlers[h].doc.undecided \/ Live = {}) /\ Ends(h)
    <3>1. Looks(h) => ~Decisive
      BY <1>3, <2>1, <2>4, NobodyDecides DEF Looks, Decisive, Tally
    <3> QED
      BY <2>1, <2>2, <2>4, <3>1, SeenByOne, SeenStill DEF Ends
  <2>5. CASE TallyOutcome(policy, Live, handlers[h].doc.votes) = "none" /\ (Goes(h, "tie") \/ Goes(h, "notie"))
    <3>1. Looks(h) => ~Decisive
      BY <1>3, <2>5 DEF Looks, Decisive, Tally
    <3>2. ASSUME NEW pc \in {"tie", "notie"}, Goes(h, pc) PROVE MajoritySeen'
      BY <2>1, <2>2, <3>1, <3>2, SeenByOne, SeenStill DEF Goes
    <3> QED
      BY <2>5, <3>2
  <2> QED
    BY <1>3, <2>3, <2>4, <2>5, ContinueMoves
<1>4. CASE FlagTie(h) \/ StampCertificate(h)
  <2>1. Ends(h) /\ ~Looks(h)
    BY <1>4, ContinueMoves, DecideMoves DEF Looks
  <2>2. policy' = policy /\ Live' = Live
    BY <1>4 DEF FlagTie, StampCertificate, Live
  <2>3. VotesStand
    <3>1. CASE FlagTie(h)
      BY <1>0, <3>1 DEF FlagTie, VotesStand, Applied
    <3>2. CASE StampCertificate(h)
      <4>1. PICK c \in handlers[h].row : app' = IF app.status = "gone" THEN app ELSE [app EXCEPT !.cert = c]
        BY <3>2 DEF StampCertificate
      <4> QED
        BY <1>0, <4>1 DEF VotesStand, Applied
    <3> QED
      BY <1>4, <3>1, <3>2
  <2> QED
    BY <2>1, <2>2, <2>3, SeenStill DEF Ends
<1>5. CASE Sweep(h) \/ CreateCandidate(h) \/ InsertCertificate(h) \/ TakeOff(h)
  <2>1. app' = app /\ policy' = policy /\ Live' = Live
    BY <1>5 DEF Sweep, CreateCandidate, InsertCertificate, TakeOff, Live
  <2>2. ~CloseoutDue
    BY DEF CloseoutDue
  <2>3. ~Looks(h) /\ (Ends(h) \/ Goes(h, "certificate") \/ Goes(h, "stamp"))
    BY <1>5, <2>2, ContinueMoves, DecideMoves DEF Looks
  <2> QED
    BY <2>1, <2>3, SeenStill DEF Ends, Goes, VotesStand
<1>6. CASE Flip(h)
  <2>1. (~Open /\ app' = app) \/ app'.status \in {"approved", "denied"}
    BY <1>6, ContinueMoves
  <2>2. \E pc, kind, doc, row : Turns(h, pc, kind, doc, row) /\ pc \in {"idle", "candidate"}
    BY <1>6, ContinueMoves DEF Ends
  <2> QED
    BY <2>1, <2>2, SeenByOne DEF Open, ToDecide
<1>7. CASE Revert(h)
  <2>1. handlers[h].pc = "revert" /\ policy' = policy /\ Live' = Live /\ Live \subseteq Panel /\ ~Looks(h)
    BY <1>7 DEF Revert, Live, Looks, VettingTypes
  <2>2. \E pc, kind, doc, row : Turns(h, pc, kind, doc, row) /\ pc \in {"takeoff", "idle"}
    BY <1>7, DecideMoves DEF Goes, Ends
  <2>3. CASE app' = app
    BY <2>1, <2>2, <2>3, SeenStill DEF VotesStand
  <2>4. CASE app' # app
    <3>1. app' = [app EXCEPT !.status = "pending", !.votes = NoVotes, !.override = FALSE, !.tied = FALSE, !.cert = 0]
      BY <1>7, <2>4 DEF Revert
    <3>2. app'.votes = NoVotes
      BY <1>0, <3>1 DEF Applied
    <3>3. ~Decisive'
      BY <2>1, <3>2, NobodyDecides DEF Decisive
    <3> QED
      BY <2>2, <3>3, SeenByOne
  <2> QED
    BY <2>3, <2>4
<1>8. CASE MarkRemoved(h) \/ Delete(h)
  <2>1. ~Looks(h) /\ (Goes(h, "takeoff") \/ Ends(h))
    BY <1>8, DecideMoves DEF Looks
  <2>2. policy' = policy /\ Live' = Live
    BY <1>8 DEF MarkRemoved, Delete, Live
  <2>3. app' = app \/ app'.status \in {"removed", "gone"}
    BY <1>0, <1>8, BlankApplications DEF MarkRemoved, Delete, Applied
  <2>4. CASE app' = app
    BY <2>1, <2>2, <2>4, SeenStill DEF VotesStand, Goes, Ends
  <2>5. CASE app'.status \in {"removed", "gone"}
    BY <2>1, <2>5, SeenByOne DEF ToDecide, Goes, Ends
  <2> QED
    BY <2>3, <2>4, <2>5
<1>9. CASE Deactivate(h)
  BY <1>9, DecideMoves, SeenByOne DEF Looks, Turns
<1>10. ~TallyCloseout(h) /\ ~HandOver(h) /\ ~UndoApproval(h) /\ ~PutBack(h)
  BY <1>0, ContinueMoves, DecideMoves
<1> QED
  BY <1>1, <1>2, <1>3, <1>4, <1>5, <1>6, <1>7, <1>8, <1>9, <1>10 DEF Continue

LEMMA WindowStays ==
    ASSUME VettingNext, ~WindowEnds, ~ExtendWindow
    PROVE ended' = ended
BY DEF VettingNext, Finance, ForceDeny, Restore, Purge, Overriding, BeginVote, TieBreak,
       CloseoutDecision, Activate, BeginDeactivate, BeginDelete, BeginCloseout, Continue, CastVote, RereadApplication,
         Resweep, Tally, FlagTie, Sweep, TallyCloseout, HandOver, Flip, CreateCandidate, InsertCertificate,
         StampCertificate, UndoApproval, PutBack, Revert, TakeOff, MarkRemoved, Delete, Deactivate, ForceApprove,
         ForceClear, BeginRevert, RemoveCandidate, SetPolicy, FailSideEffect, HandlerDies

LEMMA MajorityIsSeenStep ==
    ASSUME MajorityIsSeen, VettingTypes, VettingNext
    PROVE MajorityIsSeen'
<1> SUFFICES ASSUME marks' \subseteq {"forced"}, ~ended' PROVE MajoritySeen'
  BY DEF MajorityIsSeen
<1>0. app \in Applied /\ archive \in Applied /\ marks \subseteq {"forced"} /\ "failed" \notin marks
  BY MarksGrow DEF VettingTypes
<1>1. ~ended /\ ~WindowEnds /\ ~ExtendWindow
  <2>1. ~WindowEnds
    BY DEF WindowEnds
  <2>2. ExtendWindow => "extended" \in marks'
    BY DEF ExtendWindow
  <2>3. ~ExtendWindow
    BY <2>2
  <2> QED
    BY <2>1, <2>3, WindowStays
<1>2. MajoritySeen
  BY <1>0, <1>1 DEF MajorityIsSeen
<1>3. ASSUME UNCHANGED handlers, ~ToDecide' \/ ~Decisive' PROVE MajoritySeen'
  BY <1>2, <1>3 DEF MajoritySeen
<1>4. ASSUME NEW votes, app'.votes = NoVotes, policy' \in Policies, Live' \subseteq Panel PROVE ~Decisive'
  BY <1>4, NobodyDecides DEF Decisive
<1>5. CASE Finance
  <2>1. "reinstated" \notin marks'
    OBVIOUS
  <2>2. UNCHANGED <<active, policy, ended>> /\ Live' = Live /\ Live \subseteq Panel
    BY <1>5 DEF Finance, Live, VettingTypes
  <2>3. CASE FinanceReject
    <3>1. app'.status = "denied" /\ UNCHANGED handlers
      BY <1>0, <2>3 DEF FinanceReject, Applied
    <3> QED
      BY <1>3, <3>1 DEF ToDecide
  <2>4. CASE FinanceReverse
    <3>1. app'.votes = NoVotes /\ UNCHANGED handlers
      BY <1>0, <2>4 DEF FinanceReverse, Reversed, Applied
    <3>2. ~Decisive'
      BY <2>2, <3>1, NobodyDecides DEF Decisive
    <3> QED
      BY <1>3, <3>1, <3>2
  <2>5. ASSUME NEW h \in Handlers, FinanceClear(h) PROVE MajoritySeen'
    <3>1. handlers[h].pc = "idle" /\ Turns(h, "sweep", "none", NoApp, {})
      BY <2>5, BeginMoves DEF FinanceClear
    <3>2. VotesStand
      BY <1>0, <2>5 DEF FinanceClear, VotesStand, Applied
    <3> QED
      BY <1>2, <2>2, <3>1, <3>2, SeenStill DEF Looks
  <2>6. ASSUME NEW h \in Handlers, NEW target, FinanceReinstate(h, target) PROVE FALSE
    BY <2>1, <2>6 DEF FinanceReinstate
  <2> QED
    BY <1>5, <2>3, <2>4, <2>5, <2>6 DEF Finance
<1>6. CASE ForceDeny
  <2>1. app'.status = "denied" /\ UNCHANGED handlers
    BY <1>0, <1>6, Zenon DEF ForceDeny, Applied
  <2> QED
    BY <1>3, <2>1 DEF ToDecide
<1>7. CASE Restore
  <2>1. app'.votes = NoVotes /\ UNCHANGED handlers /\ Live' \subseteq Panel
    BY <1>0, <1>7 DEF Restore, RestoredApp, Overriding, Live, VettingTypes, Applied
  <2>2. ~Decisive'
    BY <2>1, NobodyDecides DEF Decisive
  <2> QED
    BY <1>3, <2>1, <2>2
<1>8. CASE Purge
  <2>1. UNCHANGED <<app, handlers, policy, active, ended>>
    BY <1>8 DEF Purge, Overriding
  <2> QED
    BY <1>2, <2>1 DEF MajoritySeen, ToDecide, Decisive, Looks, Live
<1>9. ASSUME NEW h \in Handlers,
             \/ \E p \in Panel, v \in Votes \ {"none"} : BeginVote(h, p, v)
             \/ \E v \in Votes \ {"none"} : TieBreak(h, v) \/ CloseoutDecision(h, v)
             \/ \E p \in Panel : BeginDeactivate(h, p)
             \/ \E mode \in {"soft", "hard"} : BeginDelete(h, mode)
             \/ ForceClear(h) \/ BeginRevert(h) \/ RemoveCandidate(h)
      PROVE MajoritySeen'
  <2>1. policy' = policy /\ Live' = Live
    <3>1. CASE ForceClear(h) \/ BeginRevert(h) \/ RemoveCandidate(h)
      BY <3>1 DEF ForceClear, BeginRevert, RemoveCandidate, Overriding, Live
    <3>2. CASE ~(ForceClear(h) \/ BeginRevert(h) \/ RemoveCandidate(h))
      <4>1. UNCHANGED <<policy, active, ended>>
        BY <1>9, <3>2, Zenon DEF BeginVote, TieBreak, CloseoutDecision, BeginDeactivate, BeginDelete
      <4> QED
        BY <4>1 DEF Live
    <3> QED
      BY <3>1, <3>2
  <2>2. VotesStand
    <3>1. CASE ForceClear(h)
      BY <1>0, <3>1 DEF ForceClear, VotesStand, Applied
    <3>2. CASE ~ForceClear(h)
      <4>1. app' = app
        BY <1>9, <3>2, Zenon DEF BeginVote, TieBreak, CloseoutDecision, BeginDeactivate, BeginDelete, BeginRevert, RemoveCandidate
      <4> QED
        BY <4>1 DEF VotesStand
    <3> QED
      BY <3>1, <3>2
  <2>3. \E pc, kind, doc, row : /\ Turns(h, pc, kind, doc, row) /\ handlers[h].pc = "idle"
                                /\ pc \notin {"closeout", "handover"}
    <3>1. ForceClear(h) => ThenSweep(h)
      BY DEF ForceClear
    <3> QED
      BY <1>9, <3>1, BeginMoves DEF Begins
  <2> QED
    BY <1>2, <2>1, <2>2, <2>3, SeenStill DEF Looks
<1>10. ASSUME NEW h \in Handlers, SetPolicy(h) \/ \E p \in Panel : Activate(h, p) PROVE MajoritySeen'
  <2>1. Turns(h, "resweep", "none", NoApp, {})
    BY <1>10, BeginMoves
  <2> QED
    BY <1>2, <2>1, SeenByOne DEF Looks, Turns
<1>11. ASSUME NEW h \in Handlers, ForceApprove(h) PROVE MajoritySeen'
  <2>1. app'.status = "approved"
    BY <1>0, <1>11 DEF ForceApprove, Applied
  <2>2. Turns(h, "candidate", "force", app, {approved + 1})
    BY <1>11, BeginMoves DEF Begins
  <2> QED
    BY <1>2, <2>1, <2>2, SeenByOne DEF ToDecide
<1>12. ASSUME NEW h \in Handlers, BeginCloseout(h) \/ FailSideEffect(h) \/ HandlerDies(h) PROVE FALSE
  <2>1. ~BeginCloseout(h)
    BY <1>1 DEF BeginCloseout, CloseoutDue
  <2>2. FailSideEffect(h) => "failed" \in marks'
    BY Zenon DEF FailSideEffect
  <2>3. HandlerDies(h) => "died" \in marks'
    BY DEF HandlerDies
  <2> QED
    BY <1>12, <2>1, <2>2, <2>3
<1> QED
  BY <1>0, <1>1, <1>2, <1>5, <1>6, <1>7, <1>8, <1>9, <1>10, <1>11, <1>12, SeenSteps DEF VettingNext

\* What is open and was handed over still waits for the Chair; what Finance turned away does too, if it
\* comes back.
Handed ==
    /\ app.status = "pending" => ~app.rejected
    /\ app.handled /\ (app.status = "pending" \/ app.rejected) => app.undecided

HandedOrDue == marks \subseteq {"extended", "reinstated"} => Handed

LEMMA HandedStep ==
    ASSUME HandedOrDue, OneApproves, VettingTypes, VettingNext
    PROVE HandedOrDue'
<1> SUFFICES ASSUME marks' \subseteq {"extended", "reinstated"} PROVE Handed'
  BY DEF HandedOrDue
<1>0. app \in Applied /\ marks \subseteq {"extended", "reinstated"} /\ marks \subseteq marks' /\ LeftAlone
      /\ "failed" \notin marks
  BY MarksGrow, Zenon DEF VettingTypes, LeftAlone
<1>1. Handed
  BY <1>0 DEF HandedOrDue
<1>2. ~ForceDeny /\ ~Restore /\ ~Purge
  <2>1. ForceDeny => "denied approved" \in marks' \/ "forced" \in marks'
    BY Zenon DEF ForceDeny, Overriding
  <2>2. Restore \/ Purge => "forced" \in marks'
    BY DEF Restore, Purge, Overriding
  <2> QED
    BY <2>1, <2>2, Zenon
<1>3. ASSUME NEW h \in Handlers
      PROVE /\ ~ForceApprove(h) /\ ~ForceClear(h) /\ ~BeginRevert(h) /\ ~RemoveCandidate(h)
            /\ \A mode \in {"soft", "hard"} : ~BeginDelete(h, mode)
  BY DEF ForceApprove, ForceClear, BeginRevert, RemoveCandidate, BeginDelete, Overriding
<1>4. ASSUME NEW h \in Handlers, Revert(h) \/ TakeOff(h) \/ MarkRemoved(h) \/ Delete(h) \/ UndoApproval(h) \/ PutBack(h)
      PROVE FALSE
  BY <1>0, <1>4, DecideMoves DEF OneApproves, Claims, VettingTypes, UndoIsMarked
<1>5. ASSUME app'.status = app.status, app'.rejected = app.rejected, app'.handled = app.handled,
             app'.undecided = app.undecided
      PROVE Handed'
  BY <1>1, <1>5 DEF Handed
<1>6. CASE Finance
  <2>1. CASE FinanceReject \/ FinanceReverse
    <3>1. CASE FinanceReject
      BY <1>0, <1>1, <3>1 DEF FinanceReject, Handed, Open, Applied
    <3>2. CASE FinanceReverse
      BY <1>0, <1>1, <3>2 DEF FinanceReverse, Reversed, Handed, Open, Applied
    <3> QED
      BY <2>1, <3>1, <3>2
  <2>2. ASSUME NEW h \in Handlers, FinanceClear(h) PROVE Handed'
    BY <1>0, <1>5, <2>2 DEF FinanceClear, Applied
  <2>3. ASSUME NEW h \in Handlers, NEW target, FinanceReinstate(h, target) PROVE Handed'
    BY <1>0, <1>1, <2>3 DEF FinanceReinstate, Handed, Applied
  <2> QED
    BY <1>6, <2>1, <2>2, <2>3 DEF Finance
<1>7. CASE WindowEnds \/ ExtendWindow
  BY <1>5, <1>7 DEF WindowEnds, ExtendWindow
<1>8. ASSUME NEW h \in Handlers,
             \/ \E p \in Panel, v \in Votes \ {"none"} : BeginVote(h, p, v)
             \/ \E v \in Votes \ {"none"} : TieBreak(h, v) \/ CloseoutDecision(h, v)
             \/ \E p \in Panel : Activate(h, p) \/ BeginDeactivate(h, p)
             \/ BeginCloseout(h) \/ SetPolicy(h) \/ FailSideEffect(h) \/ HandlerDies(h)
             \/ RereadApplication(h) \/ Resweep(h) \/ Tally(h) \/ Sweep(h) \/ TallyCloseout(h)
             \/ CreateCandidate(h) \/ InsertCertificate(h) \/ Deactivate(h)
      PROVE Handed'
  <2>1. app' = app
    BY <1>8, Zenon DEF BeginVote, TieBreak, CloseoutDecision, Activate, BeginDeactivate, BeginCloseout, SetPolicy, FailSideEffect,
           HandlerDies, RereadApplication, Resweep, Tally, Sweep, TallyCloseout, CreateCandidate, InsertCertificate, Deactivate
  <2> QED
    BY <1>5, <2>1
<1>9. ASSUME NEW h \in Handlers, CastVote(h) PROVE Handed'
  <2>1. (\E p \in Panel, v \in Votes : app' = [app EXCEPT !.votes[p] = v]) \/ app' = app
    BY <1>9, ContinueMoves
  <2> QED
    BY <1>0, <1>5, <2>1 DEF Applied
<1>10. ASSUME NEW h \in Handlers, FlagTie(h) PROVE Handed'
  BY <1>0, <1>5, <1>10 DEF FlagTie, Applied
<1>11. ASSUME NEW h \in Handlers, HandOver(h) PROVE Handed'
  BY <1>0, <1>1, <1>11 DEF HandOver, HandedOver, Handed, Open, Applied
<1>12. ASSUME NEW h \in Handlers, StampCertificate(h) PROVE Handed'
  <2>1. PICK c \in handlers[h].row : app' = IF app.status = "gone" THEN app ELSE [app EXCEPT !.cert = c]
    BY <1>12 DEF StampCertificate
  <2> QED
    BY <1>0, <1>5, <2>1 DEF Applied
<1>13. ASSUME NEW h \in Handlers, Flip(h) PROVE Handed'
  <2>1. CASE ~Open
    BY <1>5, <1>13, <2>1, ContinueMoves
  <2>2. CASE Open
    <3>1. app'.status \in {"approved", "denied"}
      BY <1>13, <2>2, ContinueMoves
    <3>2. app'.rejected = app.rejected /\ ~app.rejected
      BY <1>0, <1>1, <1>13, <2>2 DEF Flip, FlipFilter, Handed, Open, Applied
    <3> QED
      BY <3>1, <3>2 DEF Handed
  <2> QED
    BY <2>1, <2>2
<1> QED
  BY <1>0, <1>2, <1>3, <1>4, <1>6, <1>7, <1>8, <1>9, <1>10, <1>11, <1>12, <1>13 DEF VettingNext, Continue

VettingInv == VettingTypes /\ OneApproves /\ ApprovalComplete /\ MajorityIsSeen /\ HandedOrDue

LEMMA VettingInvInit == VettingInit => VettingInv
<1> SUFFICES ASSUME VettingInit PROVE VettingInv
  OBVIOUS
<1>1. app = Submitted /\ handlers = [h \in Handlers |-> Idle] /\ active = Panel
  BY DEF VettingInit
<1>2. app.votes = NoVotes /\ ~app.rejected /\ ~app.handled /\ \A h \in Handlers : handlers[h].pc = "idle"
  BY <1>1, BlankApplications, Readings
<1>3. MajorityIsSeen
  <2>1. Live \subseteq Panel
    BY <1>1 DEF Live
  <2>2. ~Decisive
    BY <1>2, <2>1, NobodyDecides DEF Decisive
  <2> QED
    BY <1>2, <2>2 DEF MajorityIsSeen, MajoritySeen
<1>4. HandedOrDue
  BY <1>2 DEF HandedOrDue, Handed
<1> QED
  BY <1>3, <1>4, VettingTypesInit, OneApprovesInit, ApprovalCompleteInit DEF VettingInv

LEMMA VettingInvStep == VettingInv /\ [VettingNext]_vettingVars => VettingInv'
<1> SUFFICES ASSUME VettingInv, [VettingNext]_vettingVars PROVE VettingInv'
  OBVIOUS
<1>1. CASE VettingNext
  BY <1>1, VettingTypesStep, OneApprovesStep, CompleteStep, MajorityIsSeenStep, HandedStep DEF VettingInv
<1>2. CASE UNCHANGED vettingVars
  <2>1. VettingTypes'
    BY <1>2 DEF vettingVars, VettingInv, VettingTypes, UndoIsMarked
  <2>2. OneApproves'
    BY <1>2, Zenon DEF vettingVars, VettingInv, OneApproves, LeftAlone, Approving
  <2>3. ApprovalComplete'
    BY <1>2 DEF vettingVars, VettingInv, ApprovalComplete, Completed, DecidedOnce, Approving
  <2>4. MajorityIsSeen'
    BY <1>2 DEF vettingVars, VettingInv, MajorityIsSeen, MajoritySeen, ToDecide, Decisive, Looks, Live
  <2>5. HandedOrDue'
    BY <1>2 DEF vettingVars, VettingInv, HandedOrDue, Handed
  <2> QED
    BY <2>1, <2>2, <2>3, <2>4, <2>5 DEF VettingInv
<1> QED
  BY <1>1, <1>2

LEMMA AtMostOne ==
    ASSUME NEW S, \A c, d \in S : c = d
    PROVE Cardinality(S) <= 1
<1>1. CASE S = {}
  <2>1. Cardinality(S) = 0
    BY <1>1, FS_EmptySet
  <2> QED
    BY <2>1
<1>2. CASE S # {}
  <2>1. PICK c : S = {c}
    BY <1>2
  <2>2. Cardinality(S) = 1
    BY <2>1, FS_Singleton
  <2> QED
    BY <2>2
<1> QED
  BY <1>1, <1>2

LEMMA VettingInvSound == VettingInv => VettingSound
<1> SUFFICES ASSUME VettingInv PROVE VettingSound
  OBVIOUS
<1>1. OneCandidate
  <2> SUFFICES ASSUME marks \cap {"forced", "denied approved"} = {} PROVE Cardinality(ballot) <= 1
    BY Zenon DEF OneCandidate
  <2>1. \A c, d \in ballot : c = d
    BY Zenon DEF VettingInv, OneApproves, LeftAlone
  <2> QED
    BY <2>1, AtMostOne, Zenon
<1>2. BallotMatchesStatus
  <2> SUFFICES ASSUME Quiet, marks \subseteq {"failed"}
              PROVE /\ (ballot # {}) <=> (app.status = "approved")
                    /\ app.status = "approved" => app.cert \in certs
    BY DEF BallotMatchesStatus
  <2>1. \A h \in Handlers : ~Approving(h)
    BY DEF Quiet, Approving, Deciders
  <2>2. app.status # "approved" => ballot = {}
    BY Zenon DEF VettingInv, OneApproves, LeftAlone
  <2> QED
    BY <2>1, <2>2 DEF VettingInv, ApprovalComplete, Completed
<1>3. NoMajorityLeftOpen
  BY DEF NoMajorityLeftOpen, VettingInv, MajorityIsSeen, MajoritySeen, Quiet, Open, ToDecide, Decisive, Looks
<1>4. LeftOpenIsDue
  BY DEF LeftOpenIsDue, VettingInv, HandedOrDue, Handed, Open, CloseoutDue
<1> QED
  BY <1>1, <1>2, <1>3, <1>4 DEF VettingSound, BallotAgrees, DecisionsTaken

\* Whoever decides, undoes or closes vetting: the ballot shows who is approved, and every decision
\* that is due is taken (_apply_application_outcome, _resolve_application, _maybe_close_vetting).
THEOREM VettingHolds == VettingSpec => []VettingSound
<1>1. VettingInv => VettingSound
  BY VettingInvSound
<1> QED
  BY <1>1, VettingInvInit, VettingInvStep, PTL DEF VettingSpec

-----------------------------------------------------------------------------
(* The milestone snapshots (Milestones). *)

Todos == {<<>>, <<"open">>, <<"close">>, <<"certified">>, <<"open", "certified">>, <<"close", "certified">>}

CallSteps == {"idle", "look", "next", "assets", "lock", "manifest", "extend"}

CallDoc == [pc : CallSteps, todo : Todos, flags : Flags, until : Nat, left : SUBSET Nat]

ReportDoc == [made : {"no", "unmeasured", "fits", "over"}, approved : BOOLEAN]

PastDoc == [owed : [Labels -> Nat], switchings : Nat, faults : Nat, outages : Nat,
            shortened : BOOLEAN, unheld : BOOLEAN]

MilestoneTypes ==
    /\ day \in Nat /\ election \in Flags /\ resultsEnd \in Nat /\ recorded \in Flags
    /\ store \in Seq(Snapshot)
    /\ milestoneRun \in CallDoc /\ report \in ReportDoc /\ past \in PastDoc

AtWork == {"assets", "lock", "manifest", "extend"}

Turnings == ToSet(Turned(recorded, milestoneRun.flags))

Sane(flags) == ~(flags.open /\ flags.certified)

\* What a call has still to do is part of what has turned, with the certification last.
TodoKept ==
    milestoneRun.pc \in AtWork \cup {"next"} =>
        /\ Sane(milestoneRun.flags)
        /\ ToSet(milestoneRun.todo) \subseteq Turnings
        /\ milestoneRun.todo # <<>> /\ "certified" \in Turnings => "certified" \in ToSet(milestoneRun.todo)

\* The snapshot a call is about is the newest.
WorkKept ==
    /\ milestoneRun.pc \in AtWork =>
         /\ milestoneRun.todo # <<>> /\ Len(store) > 0 /\ store[Mine].label = Head(milestoneRun.todo)
         /\ store[Mine].whole <=> milestoneRun.pc = "extend"
    /\ milestoneRun.pc = "extend" => Head(milestoneRun.todo) = "certified" /\ milestoneRun.left \subseteq DOMAIN store
    /\ milestoneRun.pc \in {"assets", "manifest"} => store[Mine].file # "copied"

Dated(s) == store[s].on <= day /\ store[s].lock >= store[s].on + LockDays

InOrder(s, t) == s <= t => store[s].on <= store[t].on

StoreKept ==
    /\ \A s \in DOMAIN store : Dated(s)
    /\ \A s, t \in DOMAIN store : InOrder(s, t)

\* The turns that the call under way has already made a snapshot for.
Made ==
    IF milestoneRun.pc \in {"next", "assets", "lock", "manifest"} THEN Turnings \ ToSet(milestoneRun.todo)
    ELSE IF milestoneRun.pc = "extend" THEN Turnings \ ToSet(Tail(milestoneRun.todo)) ELSE {}

OwedKept ==
    \A l \in Labels : past.owed[l] + (IF l \in Made THEN 1 ELSE 0) <= Cardinality(CompleteSnapshot(l))

\* The last certification's snapshot, and whatever was whole by then locked for as long after it.
CoveredBy(c) ==
    /\ \A d \in CompleteSnapshot("certified") : store[d].on <= store[c].on
    /\ \A s \in DOMAIN store :
         store[s].whole /\ store[s].on <= store[c].on => store[s].lock >= store[c].on + LockDays

Covered == \E c \in CompleteSnapshot("certified") : CoveredBy(c)

NothingOwed == \A l \in Labels : past.owed[l] = 0

LockedSoFar ==
    /\ milestoneRun.until >= store[Mine].on + LockDays
    /\ \A s \in DOMAIN store \ milestoneRun.left : store[s].lock >= milestoneRun.until

CoverKept ==
    /\ recorded = NoFlags => NothingOwed
    /\ recorded # NoFlags /\ recorded.certified /\ past.owed["certified"] > 0 => Covered
    /\ milestoneRun.pc = "next" /\ "certified" \in Turnings \ ToSet(milestoneRun.todo) => Covered
    /\ milestoneRun.pc = "extend" => LockedSoFar

ElectionSane == Sane(election)

MilestoneInv ==
    /\ MilestoneTypes /\ ElectionSane /\ TodoKept /\ WorkKept /\ StoreKept /\ FilesAreLocked
    /\ OwedKept /\ CoverKept

-----------------------------------------------------------------------------

LEMMA MilestoneBounds ==
    LockDays \in Nat /\ UnknownDays \in Nat /\ ResultsEnd \subseteq Nat
BY MilestonesAssumption

LEMMA TodoFacts ==
    ASSUME NEW todo \in Todos
    PROVE  /\ todo \in Seq(Labels)
           /\ ToSet(<<>>) = {}
           /\ todo # <<>> => /\ Head(todo) \in Labels /\ Tail(todo) \in Todos
                             /\ ToSet(Tail(todo)) = ToSet(todo) \ {Head(todo)}
                             /\ Head(todo) \in ToSet(todo)
                             /\ Head(todo) = "certified" => Tail(todo) = <<>>
<1>0. ToSet(<<>>) = {}
  BY DEF ToSet
<1>1. CASE todo = <<>>
  BY <1>0, <1>1
<1>2. ASSUME NEW a \in Labels, todo = <<a>> PROVE Head(todo) = a /\ Tail(todo) = <<>> /\ ToSet(todo) = {a} /\ todo \in Seq(Labels)
  BY <1>2 DEF ToSet
<1>3. ASSUME NEW a \in Labels, NEW b \in Labels, todo = <<a, b>>
      PROVE  Head(todo) = a /\ Tail(todo) = <<b>> /\ ToSet(todo) = {a, b} /\ ToSet(<<b>>) = {b} /\ todo \in Seq(Labels)
  <2>1. ToSet(todo) = {a, b}
    BY <1>3 DEF ToSet
  <2>2. ToSet(<<b>>) = {b}
    BY DEF ToSet
  <2> QED
    BY <1>3, <2>1, <2>2
<1> QED
  BY <1>0, <1>1, <1>2, <1>3 DEF Todos, Labels

LEMMA Joined ==
    ASSUME NEW a \in Labels, NEW b \in Labels
    PROVE  <<a>> \o <<b>> = <<a, b>> /\ <<a>> \o <<>> = <<a>> /\ <<>> \o <<a>> = <<a>> /\ <<>> \o <<>> = <<>>
<1> DEFINE s == <<a>> \o <<b>>
           t == <<a, b>>
<1>1. s \in Seq(Labels) /\ Len(s) = 2 /\ s[1] = a /\ s[2] = b
  OBVIOUS
<1>2. t \in Seq(Labels) /\ Len(t) = 2 /\ t[1] = a /\ t[2] = b
  OBVIOUS
<1>3. s = t
  <2> HIDE DEF s, t
  <2>1. \A i \in 1 .. Len(s) : s[i] = t[i]
    BY <1>1, <1>2
  <2> QED
    BY <1>1, <1>2, <2>1, SeqEqual
<1>4. <<a>> \o <<>> = <<a>> /\ <<>> \o <<a>> = <<a>> /\ <<>> \o <<>> = <<>>
  OBVIOUS
<1> QED
  BY <1>3, <1>4

LEMMA TurnedFacts ==
    ASSUME NEW old \in Flags, NEW new \in Flags
    PROVE  /\ Turned(old, new) \in Todos
           /\ old = NoFlags => Turned(old, new) = <<>>
           /\ ToSet(Turned(old, new)) \subseteq Labels
           /\ "certified" \in ToSet(Turned(old, new)) <=> old # NoFlags /\ ~old.certified /\ new.certified
<1>1. CASE old = NoFlags
  BY <1>1 DEF Turned, ToSet, Todos
<1>2. CASE old # NoFlags
  <2> DEFINE a == IF ~old.open /\ new.open THEN <<"open">> ELSE <<>>
             b == IF old.open /\ ~new.open THEN <<"close">> ELSE <<>>
             c == IF ~old.certified /\ new.certified THEN <<"certified">> ELSE <<>>
  <2>1. Turned(old, new) = (a \o b) \o c
    BY <1>2 DEF Turned
  <2>2. (a = <<"open">> /\ b = <<>>) \/ (a = <<>> /\ b = <<"close">>) \/ (a = <<>> /\ b = <<>>)
    BY DEF Flags
  <2>3. a \o b \in {<<>>, <<"open">>, <<"close">>}
    BY <2>2, Joined DEF Labels
  <2>4. c = <<>> \/ c = <<"certified">>
    OBVIOUS
  <2>5. \A x \in Labels : x # "certified" => "certified" \notin ToSet(<<x>>) /\ "certified" \in ToSet(<<x, "certified">>)
    BY DEF ToSet
  <2>6. "certified" \notin ToSet(<<>>) /\ "certified" \in ToSet(<<"certified">>)
    BY DEF ToSet
  <2>7. /\ Turned(old, new) \in Todos
        /\ "certified" \in ToSet(Turned(old, new)) <=> c # <<>>
    <3> HIDE DEF a, b
    <3>1. CASE c = <<>>
      BY <3>1, <2>1, <2>3, <2>5, <2>6, Joined DEF Todos, Labels
    <3>2. CASE c = <<"certified">>
      BY <3>2, <2>1, <2>3, <2>5, <2>6, Joined DEF Todos, Labels
    <3> QED
      BY <3>1, <3>2, <2>4
  <2>8. ToSet(Turned(old, new)) \subseteq Labels
    <3>1. Turned(old, new) \in Seq(Labels)
      BY <2>7, TodoFacts
    <3> QED
      BY <3>1 DEF ToSet
  <2> QED
    BY <1>2, <2>7, <2>8
<1> QED
  BY <1>1, <1>2

\* Files and locks change in place.
LEMMA Replaced ==
    ASSUME store \in Seq(Snapshot), NEW s \in DOMAIN store, NEW r \in Snapshot, store' = [store EXCEPT ![s] = r]
    PROVE  /\ store' \in Seq(Snapshot) /\ Len(store') = Len(store) /\ DOMAIN store' = DOMAIN store
           /\ store'[s] = r /\ \A t \in DOMAIN store \ {s} : store'[t] = store[t]
OBVIOUS

LEMMA StoreFacts ==
    ASSUME store \in Seq(Snapshot)
    PROVE  /\ DOMAIN store = 1 .. Len(store) /\ Len(store) \in Nat
           /\ Len(store) > 0 => Mine \in DOMAIN store
           /\ \A s \in DOMAIN store : store[s] \in Snapshot /\ store[s].on \in Nat /\ store[s].lock \in Nat
           /\ \A s \in DOMAIN store : store[s].label \in Labels /\ store[s].whole \in BOOLEAN
           /\ \A l \in Labels : CompleteSnapshot(l) \subseteq DOMAIN store /\ IsFiniteSet(CompleteSnapshot(l))
                             /\ Cardinality(CompleteSnapshot(l)) \in Nat
<1>1. DOMAIN store = 1 .. Len(store) /\ Len(store) \in Nat
  OBVIOUS
<1>2. \A s \in DOMAIN store : store[s] \in Snapshot
  OBVIOUS
<1>3. IsFiniteSet(DOMAIN store)
  BY <1>1, FS_Interval
<1>4. \A l \in Labels : CompleteSnapshot(l) \subseteq DOMAIN store
  BY DEF CompleteSnapshot
<1>5. \A l \in Labels : IsFiniteSet(CompleteSnapshot(l)) /\ Cardinality(CompleteSnapshot(l)) \in Nat
  BY <1>3, <1>4, FS_Subset, FS_CardinalityType
<1> QED
  BY <1>1, <1>2, <1>4, <1>5 DEF Snapshot, Mine

\* What is whole, and how it is locked, is the same while the store is.
LEMMA StoreStays ==
    ASSUME MilestoneInv, UNCHANGED store
    PROVE  /\ \A l \in Labels : CompleteSnapshot(l)' = CompleteSnapshot(l)
           /\ Covered => Covered'
           /\ FilesAreLocked'
           /\ day' \in Nat /\ day <= day' => StoreKept'
<1>1. \A l : CompleteSnapshot(l)' = CompleteSnapshot(l)
  BY DEF CompleteSnapshot
<1>2. Covered => Covered'
  BY <1>1 DEF Covered, CoveredBy
<1>3. FilesAreLocked'
  BY DEF MilestoneInv, FilesAreLocked
<1>4. ASSUME day' \in Nat, day <= day' PROVE StoreKept'
  <2>1. \A s \in DOMAIN store : store[s].on \in Nat
    BY StoreFacts DEF MilestoneInv, MilestoneTypes
  <2>2. \A s \in DOMAIN store : Dated(s)'
    BY <1>4, <2>1 DEF MilestoneInv, MilestoneTypes, StoreKept, Dated
  <2>3. \A s, t \in DOMAIN store : InOrder(s, t)'
    BY DEF MilestoneInv, StoreKept, InOrder
  <2> QED
    BY <2>2, <2>3 DEF StoreKept
<1> QED
  BY <1>1, <1>2, <1>3, <1>4

\* The call goes on later, has not begun, or is given up.
LEMMA CallWaits ==
    ASSUME MilestoneInv, MilestoneTypes', ElectionSane', UNCHANGED <<store, recorded>>,
           past'.owed = past.owed, day <= day',
           milestoneRun' = milestoneRun \/ milestoneRun'.pc \in {"idle", "look"}
    PROVE  MilestoneInv'
<1>1. /\ \A l \in Labels : CompleteSnapshot(l)' = CompleteSnapshot(l)
      /\ Covered => Covered'
  BY StoreStays DEF MilestoneTypes
<1>0. FilesAreLocked' /\ StoreKept'
  BY StoreStays DEF MilestoneTypes
<1>2. CASE milestoneRun' = milestoneRun
  <2>1. TodoKept'
    BY <1>2 DEF MilestoneInv, TodoKept, Turnings
  <2>2. WorkKept'
    BY <1>2 DEF MilestoneInv, WorkKept, Mine
  <2>3. Made' = Made
    BY <1>2 DEF Made, Turnings
  <2>4. OwedKept'
    BY <1>1, <2>3 DEF MilestoneInv, OwedKept
  <2>5. CoverKept'
    BY <1>1, <1>2 DEF MilestoneInv, CoverKept, NothingOwed, LockedSoFar, Turnings, Mine
  <2> QED
    BY <1>0, <2>1, <2>2, <2>4, <2>5 DEF MilestoneInv
<1>3. CASE milestoneRun'.pc \in {"idle", "look"}
  <2>1. TodoKept' /\ WorkKept'
    BY <1>3 DEF TodoKept, WorkKept, AtWork
  <2>2. Made' = {}
    BY <1>3 DEF Made
  <2>3. OwedKept'
    <3>1. \A l \in Labels : past.owed[l] \in Nat /\ Cardinality(CompleteSnapshot(l)) \in Nat
      BY StoreFacts DEF MilestoneInv, MilestoneTypes, PastDoc
    <3> QED
      BY <1>1, <2>2, <3>1 DEF MilestoneInv, OwedKept
  <2>4. CoverKept'
    BY <1>1, <1>3 DEF MilestoneInv, CoverKept, NothingOwed
  <2> QED
    BY <1>0, <2>1, <2>3, <2>4 DEF MilestoneInv
<1> QED
  BY <1>2, <1>3

LEMMA NoCallTypes ==
    NoCall \in CallDoc /\ NoCall.pc = "idle"
    /\ [NoCall EXCEPT !.pc = "look"] \in CallDoc /\ [NoCall EXCEPT !.pc = "look"].pc = "look"
BY DEF NoCall, CallDoc, CallSteps, Todos, Flags, NoFlags

LEMMA QuietStep ==
    ASSUME MilestoneInv, PassDay \/ SwitchElection \/ LoseServer \/ ApproveAssets \/ MeasureFirst \/ UploadFails
    PROVE  MilestoneInv'
<1>0. MilestoneTypes /\ ElectionSane
  BY DEF MilestoneInv
<1>1. CASE PassDay
  <2>1. MilestoneTypes'
    BY <1>0, <1>1 DEF PassDay, MilestoneTypes
  <2> QED
    BY <1>0, <1>1, <2>1, CallWaits DEF PassDay, MilestoneTypes, ElectionSane, Sane
<1>2. CASE SwitchElection
  <2>1. past' \in PastDoc /\ past'.owed = past.owed
    BY <1>0, <1>2 DEF SwitchElection, MilestoneTypes, PastDoc
  <2>2. election' \in Flags /\ ElectionSane'
    BY <1>0, <1>2 DEF SwitchElection, MilestoneTypes, Flags, ElectionSane, Sane
  <2>3. UNCHANGED <<day, resultsEnd, recorded, store, milestoneRun, report>>
    BY <1>2 DEF SwitchElection
  <2>4. MilestoneTypes' /\ day <= day'
    BY <1>0, <2>1, <2>2, <2>3 DEF MilestoneTypes
  <2> QED
    BY <2>1, <2>2, <2>3, <2>4, CallWaits
<1>3. CASE LoseServer
  <2>1. past' \in PastDoc /\ past'.owed = past.owed
    BY <1>0, <1>3 DEF LoseServer, MilestoneTypes, PastDoc
  <2>2. milestoneRun' = NoCall /\ UNCHANGED <<day, election, resultsEnd, recorded, store, report>>
    BY <1>3 DEF LoseServer
  <2>3. MilestoneTypes' /\ day <= day' /\ ElectionSane'
    BY <1>0, <2>1, <2>2, NoCallTypes DEF MilestoneTypes, ElectionSane, Sane
  <2> QED
    BY <2>1, <2>2, <2>3, NoCallTypes, CallWaits
<1>4. CASE ApproveAssets
  <2>1. report' \in ReportDoc
    BY <1>0, <1>4 DEF ApproveAssets, MilestoneTypes, ReportDoc
  <2>2. UNCHANGED <<day, election, resultsEnd, recorded, store, milestoneRun, past>>
    BY <1>4 DEF ApproveAssets
  <2>3. MilestoneTypes' /\ day <= day' /\ ElectionSane'
    BY <1>0, <2>1, <2>2 DEF MilestoneTypes, ElectionSane, Sane
  <2> QED
    BY <2>2, <2>3, CallWaits
<1>5. CASE MeasureFirst
  <2>1. report' \in ReportDoc
    BY <1>0, <1>5 DEF MeasureFirst, MilestoneTypes, ReportDoc
  <2>2. milestoneRun' = [NoCall EXCEPT !.pc = "look"] /\ UNCHANGED <<day, election, resultsEnd, recorded, store, past>>
    BY <1>5 DEF MeasureFirst
  <2>3. MilestoneTypes' /\ day <= day' /\ ElectionSane'
    BY <1>0, <2>1, <2>2, NoCallTypes DEF MilestoneTypes, ElectionSane, Sane
  <2> QED
    BY <2>2, <2>3, NoCallTypes, CallWaits
<1>6. CASE UploadFails
  <2>1. past' \in PastDoc /\ past'.owed = past.owed
    BY <1>0, <1>6 DEF UploadFails, MilestoneTypes, PastDoc
  <2>2. milestoneRun' = NoCall /\ UNCHANGED <<day, election, resultsEnd, recorded, store, report>>
    BY <1>6 DEF UploadFails, GivenUp
  <2>3. MilestoneTypes' /\ day <= day' /\ ElectionSane'
    BY <1>0, <2>1, <2>2, NoCallTypes DEF MilestoneTypes, ElectionSane, Sane
  <2> QED
    BY <2>1, <2>2, <2>3, NoCallTypes, CallWaits
<1> QED
  BY <1>1, <1>2, <1>3, <1>4, <1>5, <1>6

LEMMA DetectStep ==
    ASSUME MilestoneInv, DetectMilestones
    PROVE  MilestoneInv'
<1>0. MilestoneTypes /\ ElectionSane
  BY DEF MilestoneInv
<1>1. /\ milestoneRun' = [milestoneRun EXCEPT !.pc = "next", !.flags = Current, !.todo = Turned(recorded, Current)]
      /\ UNCHANGED <<day, election, resultsEnd, recorded, store, report, past>> /\ milestoneRun.pc = "look"
  BY DEF DetectMilestones
<1>2. Current \in Flags /\ Sane(Current)
  BY <1>0 DEF Current, MilestoneTypes, Flags, ElectionSane, Sane
<1>3. Turned(recorded, Current) \in Todos
  BY <1>0, <1>2, TurnedFacts DEF MilestoneTypes
<1>4. /\ milestoneRun' \in CallDoc /\ milestoneRun'.pc = "next" /\ milestoneRun'.flags = Current
      /\ milestoneRun'.todo = Turned(recorded, Current)
  BY <1>0, <1>1, <1>2, <1>3 DEF MilestoneTypes, CallDoc, CallSteps
<1>5. Turnings' = ToSet(milestoneRun'.todo)
  BY <1>1, <1>4 DEF Turnings
<1>6. /\ \A l \in Labels : CompleteSnapshot(l)' = CompleteSnapshot(l)
      /\ Covered => Covered'
  BY <1>0, <1>1, StoreStays DEF MilestoneTypes
<1>12. FilesAreLocked' /\ StoreKept'
  BY <1>0, <1>1, StoreStays DEF MilestoneTypes
<1>7. MilestoneTypes' /\ ElectionSane'
  BY <1>0, <1>1, <1>4 DEF MilestoneTypes, ElectionSane, Sane
<1>8. TodoKept'
  BY <1>2, <1>4, <1>5 DEF TodoKept, ElectionSane, Sane
<1>9. WorkKept'
  BY <1>4 DEF WorkKept, AtWork
<1>10. OwedKept'
  <2>1. Made' = {}
    BY <1>4, <1>5 DEF Made
  <2>2. \A l \in Labels : past.owed[l] \in Nat /\ Cardinality(CompleteSnapshot(l)) \in Nat
    BY <1>0, StoreFacts DEF MilestoneTypes, PastDoc
  <2> QED
    BY <1>1, <1>6, <2>1, <2>2 DEF MilestoneInv, OwedKept
<1>11. CoverKept'
  BY <1>1, <1>4, <1>5, <1>6 DEF MilestoneInv, CoverKept, NothingOwed
<1> QED
  BY <1>7, <1>8, <1>9, <1>10, <1>11, <1>12 DEF MilestoneInv

LEMMA BeginStep ==
    ASSUME MilestoneInv, BeginSnapshot
    PROVE  MilestoneInv'
<1>0. MilestoneTypes /\ ElectionSane
  BY DEF MilestoneInv
<1> DEFINE label == Head(milestoneRun.todo)
           lock == RetainUntil(ReleaseHint(label))
           new == [label |-> label, on |-> day, whole |-> FALSE, file |-> "none", lock |-> lock]
           n == Len(store) + 1
<1>1. /\ milestoneRun.pc = "next" /\ milestoneRun.todo # <<>> /\ store' = Append(store, new)
      /\ milestoneRun' = [milestoneRun EXCEPT !.pc = "assets"]
      /\ UNCHANGED <<day, election, resultsEnd, recorded, report, past>>
  BY DEF BeginSnapshot
<1>2. label \in Labels
  BY <1>0, <1>1, TodoFacts DEF MilestoneTypes, CallDoc
<1>3. lock \in Nat /\ lock >= day + LockDays
  BY <1>0, MilestoneBounds DEF MilestoneTypes, RetainUntil, ReleaseHint, Latest
<1>4. new \in Snapshot /\ new.label = label /\ new.on = day /\ new.lock = lock /\ ~new.whole /\ new.file = "none"
  BY <1>0, <1>2, <1>3 DEF MilestoneTypes, Snapshot
<1>5. /\ milestoneRun' \in CallDoc /\ milestoneRun'.pc = "assets" /\ milestoneRun'.todo = milestoneRun.todo
      /\ milestoneRun'.flags = milestoneRun.flags
  BY <1>0, <1>1 DEF MilestoneTypes, CallDoc, CallSteps
<1> HIDE DEF new, lock
<1>6. /\ store' \in Seq(Snapshot) /\ Len(store') = n /\ n \in Nat /\ DOMAIN store' = DOMAIN store \cup {n}
      /\ n \notin DOMAIN store /\ store'[n] = new /\ \A s \in DOMAIN store : store'[s] = store[s] /\ s <= n
  BY <1>0, <1>1, <1>4 DEF MilestoneTypes
<1> HIDE DEF n
<1>7. \A l \in Labels : CompleteSnapshot(l)' = CompleteSnapshot(l)
  BY <1>4, <1>6 DEF CompleteSnapshot
<1>8. Covered => Covered'
  BY <1>4, <1>6, <1>7, StoreFacts, <1>0 DEF Covered, CoveredBy, MilestoneTypes, Labels
<1>9. FilesAreLocked'
  BY <1>4, <1>6 DEF MilestoneInv, FilesAreLocked
<1>10. StoreKept'
  <2>1. \A s \in DOMAIN store' : Dated(s)'
    BY <1>0, <1>1, <1>3, <1>4, <1>6 DEF MilestoneInv, MilestoneTypes, StoreKept, Dated
  <2>2. \A s, t \in DOMAIN store' : InOrder(s, t)'
    BY <1>0, <1>1, <1>4, <1>6, StoreFacts DEF MilestoneInv, MilestoneTypes, StoreKept, InOrder, Dated
  <2> QED
    BY <2>1, <2>2 DEF StoreKept
<1>11. MilestoneTypes' /\ ElectionSane'
  BY <1>0, <1>1, <1>5, <1>6 DEF MilestoneTypes, ElectionSane, Sane
<1>12. Turnings' = Turnings
  BY <1>1, <1>5 DEF Turnings
<1>13. TodoKept'
  BY <1>1, <1>5, <1>12 DEF MilestoneInv, TodoKept, ElectionSane, Sane, AtWork
<1>14. WorkKept'
  <2>1. Mine' = n /\ n > 0
    BY <1>6 DEF Mine, n
  <2> QED
    BY <1>1, <1>4, <1>5, <1>6, <2>1 DEF WorkKept, AtWork
<1>15. Made' = Made
  BY <1>1, <1>5, <1>12 DEF Made
<1>16. OwedKept'
  BY <1>1, <1>7, <1>15 DEF MilestoneInv, OwedKept
<1>17. CoverKept'
  BY <1>1, <1>5, <1>8 DEF MilestoneInv, CoverKept, NothingOwed
<1> QED
  BY <1>9, <1>10, <1>11, <1>13, <1>14, <1>16, <1>17 DEF MilestoneInv

LEMMA AssetStep ==
    ASSUME MilestoneInv, CopyAsset \/ LockAsset
    PROVE  MilestoneInv'
<1>0. MilestoneTypes /\ ElectionSane /\ WorkKept
  BY DEF MilestoneInv
<1>1. milestoneRun.pc \in {"assets", "lock"} /\ Len(store) > 0 /\ store[Mine].whole = FALSE /\ Mine \in DOMAIN store
  BY <1>0, StoreFacts DEF CopyAsset, LockAsset, WorkKept, AtWork, MilestoneTypes
<1>2. PICK file \in {"none", "copied", "locked"}, step \in {"lock", "manifest"} :
        /\ store' = [store EXCEPT ![Mine] = [store[Mine] EXCEPT !.file = file]]
        /\ milestoneRun' = [milestoneRun EXCEPT !.pc = step]
        /\ step = "manifest" => file # "copied"
  <2>1. CASE CopyAsset /\ Holding
    <3>1. store' = store /\ milestoneRun' = [milestoneRun EXCEPT !.pc = "manifest"] /\ milestoneRun.pc = "assets"
      BY <2>1 DEF CopyAsset
    <3>2. store[Mine].file # "copied" /\ store[Mine] \in Snapshot
      BY <1>0, <1>1, <3>1, StoreFacts DEF WorkKept, MilestoneTypes
    <3>3. store[Mine] = [store[Mine] EXCEPT !.file = store[Mine].file] /\ store[Mine].file \in {"none", "copied", "locked"}
      BY <3>2 DEF Snapshot
    <3>4. store = [store EXCEPT ![Mine] = store[Mine]]
      BY <1>0, <1>1 DEF MilestoneTypes
    <3> QED
      BY <3>1, <3>2, <3>3, <3>4
  <2>2. CASE CopyAsset /\ ~Holding
    BY <2>2 DEF CopyAsset
  <2>3. CASE LockAsset
    BY <2>3 DEF LockAsset, AssetDone
  <2> QED
    BY <2>1, <2>2, <2>3
<1> DEFINE r == [store[Mine] EXCEPT !.file = file]
<1>3. UNCHANGED <<day, election, resultsEnd, recorded, report>> /\ past' \in PastDoc /\ past'.owed = past.owed
  BY <1>0 DEF CopyAsset, LockAsset, MilestoneTypes, PastDoc
<1>4. /\ r \in Snapshot /\ r.label = store[Mine].label /\ r.on = store[Mine].on /\ r.lock = store[Mine].lock
      /\ r.whole = FALSE /\ r.file = file
  BY <1>0, <1>1, StoreFacts DEF MilestoneTypes, Snapshot
<1>5. /\ milestoneRun' \in CallDoc /\ milestoneRun'.pc = step /\ milestoneRun'.todo = milestoneRun.todo
      /\ milestoneRun'.flags = milestoneRun.flags
  BY <1>0, <1>2 DEF MilestoneTypes, CallDoc, CallSteps
<1> HIDE DEF r
<1>6. /\ store' \in Seq(Snapshot) /\ Len(store') = Len(store) /\ DOMAIN store' = DOMAIN store
      /\ store'[Mine] = r /\ \A t \in DOMAIN store \ {Mine} : store'[t] = store[t]
  <2>1. store' = [store EXCEPT ![Mine] = r]
    BY <1>2 DEF r
  <2> QED
    BY <1>0, <1>1, <1>4, <2>1, Replaced DEF MilestoneTypes
<1>7. \A s \in DOMAIN store : /\ store'[s].label = store[s].label /\ store'[s].on = store[s].on
                             /\ store'[s].lock = store[s].lock /\ store'[s].whole = store[s].whole
  BY <1>1, <1>4, <1>6
<1>8. \A l \in Labels : CompleteSnapshot(l)' = CompleteSnapshot(l)
  BY <1>6, <1>7 DEF CompleteSnapshot
<1>9. Covered => Covered'
  <2>1. ASSUME NEW c \in CompleteSnapshot("certified"), CoveredBy(c) PROVE CoveredBy(c)'
    <3>1. c \in DOMAIN store /\ \A d \in CompleteSnapshot("certified") : d \in DOMAIN store
      BY DEF CompleteSnapshot
    <3> QED
      BY <1>6, <1>7, <1>8, <2>1, <3>1 DEF CoveredBy, Labels
  <2> QED
    BY <1>8, <2>1 DEF Covered, Labels
<1>10. FilesAreLocked'
  BY <1>4, <1>6 DEF MilestoneInv, FilesAreLocked
<1>11. StoreKept'
  BY <1>3, <1>6, <1>7 DEF MilestoneInv, StoreKept, Dated, InOrder
<1>12. MilestoneTypes' /\ ElectionSane'
  BY <1>0, <1>3, <1>5, <1>6 DEF MilestoneTypes, ElectionSane, Sane
<1>13. Turnings' = Turnings
  BY <1>3, <1>5 DEF Turnings
<1>14. TodoKept'
  BY <1>1, <1>5, <1>13 DEF MilestoneInv, TodoKept, ElectionSane, Sane, AtWork
<1>15. WorkKept'
  <2>1. Mine' = Mine
    BY <1>6 DEF Mine
  <2> QED
    BY <1>0, <1>1, <1>2, <1>4, <1>5, <1>6, <2>1 DEF WorkKept, AtWork
<1>16. Made' = Made
  BY <1>1, <1>5, <1>13 DEF Made
<1>17. OwedKept'
  BY <1>3, <1>8, <1>16 DEF MilestoneInv, OwedKept
<1>18. CoverKept'
  BY <1>3, <1>5, <1>9 DEF MilestoneInv, CoverKept, NothingOwed
<1> QED
  BY <1>10, <1>11, <1>12, <1>14, <1>15, <1>17, <1>18 DEF MilestoneInv

\* The manifest makes the newest snapshot whole: one more of its kind.
LEMMA ManifestStep ==
    ASSUME MilestoneInv, WriteManifest
    PROVE  MilestoneInv'
<1>0. MilestoneTypes /\ ElectionSane /\ WorkKept /\ TodoKept /\ StoreKept
  BY DEF MilestoneInv
<1> DEFINE label == Head(milestoneRun.todo)
           r == [store[Mine] EXCEPT !.whole = TRUE]
           n == Mine
<1>1. /\ milestoneRun.pc = "manifest" /\ UNCHANGED <<day, election, resultsEnd, recorded, report, past>>
      /\ store' = [store EXCEPT ![n] = r]
  BY DEF WriteManifest
<1>2. /\ Len(store) > 0 /\ n \in DOMAIN store /\ store[n].whole = FALSE /\ store[n].label = label
      /\ store[n].file # "copied" /\ milestoneRun.todo # <<>>
  BY <1>0, <1>1, StoreFacts DEF WorkKept, AtWork, MilestoneTypes
<1>3. /\ label \in Labels /\ Tail(milestoneRun.todo) \in Todos /\ label \in ToSet(milestoneRun.todo)
      /\ ToSet(Tail(milestoneRun.todo)) = ToSet(milestoneRun.todo) \ {label}
      /\ label \in Turnings
  BY <1>0, <1>1, <1>2, TodoFacts DEF MilestoneTypes, CallDoc, TodoKept, AtWork
<1>4. /\ r \in Snapshot /\ r.label = label /\ r.on = store[n].on /\ r.lock = store[n].lock
      /\ r.whole = TRUE /\ r.file = store[n].file
  BY <1>0, <1>2, StoreFacts DEF MilestoneTypes, Snapshot
<1> HIDE DEF r, n
<1>5. /\ store' \in Seq(Snapshot) /\ Len(store') = Len(store) /\ DOMAIN store' = DOMAIN store
      /\ store'[n] = r /\ \A t \in DOMAIN store \ {n} : store'[t] = store[t]
  BY <1>0, <1>1, <1>2, <1>4, Replaced DEF MilestoneTypes
<1>6. \A s \in DOMAIN store : /\ store'[s].label = store[s].label /\ store'[s].on = store[s].on
                             /\ store'[s].lock = store[s].lock /\ store'[s].file = store[s].file
  BY <1>2, <1>4, <1>5
<1>7. \A l \in Labels : /\ n \notin CompleteSnapshot(l)
                        /\ CompleteSnapshot(l)' = CompleteSnapshot(l) \cup (IF l = label THEN {n} ELSE {})
  BY <1>2, <1>4, <1>5 DEF CompleteSnapshot
<1>8. FilesAreLocked'
  BY <1>2, <1>4, <1>5 DEF MilestoneInv, FilesAreLocked
<1>9. StoreKept'
  BY <1>0, <1>1, <1>5, <1>6 DEF StoreKept, Dated, InOrder
<1>10. /\ milestoneRun' \in CallDoc /\ milestoneRun'.flags = milestoneRun.flags
       /\ label # "certified" => milestoneRun'.pc = "next" /\ milestoneRun'.todo = Tail(milestoneRun.todo)
       /\ label = "certified" => /\ milestoneRun'.pc = "extend" /\ milestoneRun'.todo = milestoneRun.todo
                                 /\ milestoneRun'.until = day + LockDays /\ milestoneRun'.left = DOMAIN store
  <2>1. CASE label = "certified"
    <3>1. milestoneRun' = [milestoneRun EXCEPT !.pc = "extend", !.until = day + LockDays, !.left = DOMAIN store]
      BY <2>1 DEF WriteManifest
    <3>2. DOMAIN store \in SUBSET Nat /\ day + LockDays \in Nat
      BY <1>0, MilestoneBounds, StoreFacts DEF MilestoneTypes
    <3> HIDE DEF label
    <3> QED
      BY <1>0, <2>1, <3>1, <3>2 DEF MilestoneTypes, CallDoc, CallSteps
  <2>2. CASE label # "certified"
    <3>1. milestoneRun' = [milestoneRun EXCEPT !.pc = "next", !.todo = Tail(milestoneRun.todo)]
      BY <2>2 DEF WriteManifest
    <3> HIDE DEF label
    <3> QED
      BY <1>0, <1>3, <2>2, <3>1 DEF MilestoneTypes, CallDoc, CallSteps
  <2> QED
    BY <2>1, <2>2
<1> HIDE DEF label
<1>11. MilestoneTypes' /\ ElectionSane'
  BY <1>0, <1>1, <1>5, <1>10 DEF MilestoneTypes, ElectionSane, Sane
<1>12. Turnings' = Turnings
  BY <1>1, <1>10 DEF Turnings
<1>13. TodoKept'
  BY <1>0, <1>1, <1>2, <1>3, <1>10, <1>12 DEF TodoKept, Sane, AtWork
<1>14. WorkKept'
  <2>1. Mine' = n
    BY <1>5 DEF Mine, n
  <2>2. label = "certified" => Head(milestoneRun'.todo) = label
    BY <1>10 DEF label
  <2> QED
    BY <1>2, <1>4, <1>5, <1>10, <2>1, <2>2 DEF WorkKept, AtWork
<1>15. OwedKept'
  <2>1. \A l \in Labels : l \in Made' <=> l \in Made \/ l = label
    BY <1>1, <1>3, <1>10, <1>12 DEF Made
  <2>2. label \notin Made
    BY <1>1, <1>3 DEF Made
  <2>3. ASSUME NEW l \in Labels
        PROVE  /\ Cardinality(CompleteSnapshot(l)) \in Nat /\ past.owed[l] \in Nat
               /\ Cardinality(CompleteSnapshot(l)') = Cardinality(CompleteSnapshot(l)) + (IF l = label THEN 1 ELSE 0)
    <3>1. IsFiniteSet(CompleteSnapshot(l)) /\ Cardinality(CompleteSnapshot(l)) \in Nat /\ past.owed[l] \in Nat
      BY <1>0, StoreFacts DEF MilestoneTypes, PastDoc
    <3>2. Cardinality(CompleteSnapshot(l) \cup {n}) = Cardinality(CompleteSnapshot(l)) + 1
      BY <1>7, <3>1, FS_AddElement
    <3>3. CASE l = label
      <4>1. CompleteSnapshot(l)' = CompleteSnapshot(l) \cup {n}
        BY <1>7, <3>3
      <4> QED
        BY <3>1, <3>2, <3>3, <4>1
    <3>4. CASE l # label
      <4>1. CompleteSnapshot(l)' = CompleteSnapshot(l)
        BY <1>7, <3>4
      <4> QED
        BY <3>1, <3>4, <4>1
    <3> QED
      BY <3>3, <3>4
  <2> QED
    BY <1>1, <2>1, <2>2, <2>3 DEF MilestoneInv, OwedKept
<1>16. Covered /\ label # "certified" => Covered'
  <2>1. ASSUME label # "certified", NEW c \in CompleteSnapshot("certified"), CoveredBy(c) PROVE CoveredBy(c)'
    <3>1. c \in DOMAIN store /\ c <= n /\ \A d \in CompleteSnapshot("certified") : d \in DOMAIN store
      BY <1>0, StoreFacts DEF CompleteSnapshot, MilestoneTypes, n, Mine
    <3>2. store[c].on <= store[n].on /\ store[n].lock >= store[n].on + LockDays
      BY <1>0, <1>2, <3>1 DEF StoreKept, InOrder, Dated
    <3>3. store[c].on \in Nat /\ store[n].on \in Nat /\ store[n].lock \in Nat
      BY <1>0, <1>2, <3>1, StoreFacts DEF MilestoneTypes
    <3>4. CompleteSnapshot("certified")' = CompleteSnapshot("certified")
      BY <1>7, <2>1 DEF Labels
    <3>5. store'[n].on <= store'[c].on => store'[n].lock >= store'[c].on + LockDays
      BY <1>2, <1>6, <3>1, <3>2, <3>3, MilestoneBounds
    <3> QED
      BY <1>5, <1>6, <2>1, <3>1, <3>4, <3>5 DEF CoveredBy
  <2> QED
    BY <1>7, <2>1 DEF Covered, Labels
<1>17. CoverKept'
  <2>1. recorded # NoFlags /\ (recorded.certified => label # "certified")
    BY <1>0, <1>3, TurnedFacts DEF Turnings, MilestoneTypes, CallDoc, ToSet
  <2>2. label # "certified" /\ "certified" \in Turnings => "certified" \in ToSet(milestoneRun'.todo)
    BY <1>0, <1>1, <1>2, <1>3, <1>10 DEF TodoKept, AtWork
  <2>3. label = "certified" => LockedSoFar'
    <3>1. Mine' = n
      BY <1>5 DEF Mine, n
    <3>2. store[n].on <= day /\ store[n].on \in Nat /\ day \in Nat
      BY <1>0, <1>2, StoreFacts DEF StoreKept, Dated, MilestoneTypes
    <3> QED
      BY <1>2, <1>5, <1>6, <1>10, <3>1, <3>2, MilestoneBounds DEF LockedSoFar
  <2>4. label # "certified" => milestoneRun'.pc # "extend"
    BY <1>10
  <2>5. milestoneRun'.pc = "next" => label # "certified"
    BY <1>10
  <2> QED
    BY <1>1, <1>12, <1>16, <2>1, <2>2, <2>3, <2>4, <2>5 DEF MilestoneInv, CoverKept, NothingOwed
<1> QED
  BY <1>8, <1>9, <1>11, <1>13, <1>14, <1>15, <1>17 DEF MilestoneInv

\* One lock after another is made as long as the certification asks.
LEMMA ExtendStep ==
    ASSUME MilestoneInv, ExtendLock
    PROVE  MilestoneInv'
<1>0. MilestoneTypes /\ ElectionSane /\ WorkKept /\ TodoKept /\ StoreKept
  BY DEF MilestoneInv
<1>1. PICK s \in milestoneRun.left :
        IF store[s].lock <= milestoneRun.until
        THEN /\ store' = [store EXCEPT ![s].lock = milestoneRun.until]
             /\ milestoneRun' = [milestoneRun EXCEPT !.left = @ \ {s}]
             /\ UNCHANGED past
        ELSE GivenUp /\ past' = [past EXCEPT !.shortened = TRUE] /\ UNCHANGED store
  BY DEF ExtendLock
<1>2. milestoneRun.pc = "extend" /\ UNCHANGED <<day, election, resultsEnd, recorded, report>>
  BY DEF ExtendLock
<1>3. /\ s \in DOMAIN store /\ Len(store) > 0 /\ Mine \in DOMAIN store /\ store[Mine].whole
      /\ milestoneRun.todo # <<>> /\ Head(milestoneRun.todo) = "certified"
  BY <1>0, <1>2, StoreFacts DEF WorkKept, AtWork, MilestoneTypes
<1>4. CASE ~(store[s].lock <= milestoneRun.until)
  <2>1. past' \in PastDoc /\ past'.owed = past.owed
    BY <1>0, <1>1, <1>4 DEF MilestoneTypes, PastDoc
  <2>2. milestoneRun' = NoCall /\ UNCHANGED store
    BY <1>1, <1>4 DEF GivenUp
  <2>3. MilestoneTypes' /\ day <= day' /\ ElectionSane'
    BY <1>0, <1>2, <2>1, <2>2, NoCallTypes DEF MilestoneTypes, ElectionSane, Sane
  <2> QED
    BY <1>2, <2>1, <2>2, <2>3, NoCallTypes, CallWaits
<1>5. CASE store[s].lock <= milestoneRun.until
  <2> DEFINE r == [store[s] EXCEPT !.lock = milestoneRun.until]
  <2>1. store' = [store EXCEPT ![s] = r] /\ milestoneRun' = [milestoneRun EXCEPT !.left = @ \ {s}] /\ past' = past
    BY <1>1, <1>5
  <2>2. /\ milestoneRun' \in CallDoc /\ milestoneRun'.pc = "extend" /\ milestoneRun'.todo = milestoneRun.todo
        /\ milestoneRun'.flags = milestoneRun.flags /\ milestoneRun'.until = milestoneRun.until
        /\ milestoneRun'.left = milestoneRun.left \ {s}
    BY <1>0, <1>2, <2>1 DEF MilestoneTypes, CallDoc
  <2>3. milestoneRun.until \in Nat /\ store[s].lock \in Nat /\ store[s].on \in Nat /\ store[s] \in Snapshot
    BY <1>0, <1>3, StoreFacts DEF MilestoneTypes, CallDoc
  <2>4. /\ r \in Snapshot /\ r.label = store[s].label /\ r.on = store[s].on /\ r.lock = milestoneRun.until
        /\ r.whole = store[s].whole /\ r.file = store[s].file
    BY <2>3 DEF Snapshot
  <2> HIDE DEF r
  <2>5. /\ store' \in Seq(Snapshot) /\ Len(store') = Len(store) /\ DOMAIN store' = DOMAIN store
        /\ store'[s] = r /\ \A t \in DOMAIN store \ {s} : store'[t] = store[t]
    BY <1>0, <1>3, <2>1, <2>4, Replaced DEF MilestoneTypes
  <2>6. \A t \in DOMAIN store : /\ store'[t].label = store[t].label /\ store'[t].on = store[t].on
                               /\ store'[t].whole = store[t].whole /\ store'[t].file = store[t].file
    BY <1>3, <2>4, <2>5
  <2>7. \A l \in Labels : CompleteSnapshot(l)' = CompleteSnapshot(l)
    BY <2>5, <2>6 DEF CompleteSnapshot
  <2>8. FilesAreLocked'
    BY <2>5, <2>6 DEF MilestoneInv, FilesAreLocked
  <2>9. StoreKept'
    <3>1. \A t \in DOMAIN store' : Dated(t)'
      <4>1. store'[s].lock >= store'[s].on + LockDays
        BY <1>0, <1>3, <1>5, <2>3, <2>4, <2>5, MilestoneBounds DEF StoreKept, Dated
      <4> QED
        BY <1>0, <1>2, <2>5, <2>6, <4>1 DEF StoreKept, Dated
    <3>2. \A t, u \in DOMAIN store' : InOrder(t, u)'
      BY <1>0, <2>5, <2>6 DEF StoreKept, InOrder
    <3> QED
      BY <3>1, <3>2 DEF StoreKept
  <2>10. MilestoneTypes' /\ ElectionSane'
    BY <1>0, <1>2, <2>1, <2>2, <2>5 DEF MilestoneTypes, ElectionSane, Sane
  <2>11. Turnings' = Turnings
    BY <1>2, <2>2 DEF Turnings
  <2>12. TodoKept'
    BY <1>0, <1>2, <2>2, <2>11 DEF TodoKept, Sane, AtWork
  <2>13. Mine' = Mine
    BY <2>5 DEF Mine
  <2>14. WorkKept'
    BY <1>0, <1>2, <1>3, <2>2, <2>5, <2>6, <2>13 DEF WorkKept, AtWork
  <2>15. Made' = Made
    BY <1>2, <2>2, <2>11 DEF Made
  <2>16. OwedKept'
    BY <2>1, <2>7, <2>15 DEF MilestoneInv, OwedKept
  <2>17. CoverKept'
    <3>1. recorded # NoFlags /\ ~recorded.certified
      <4>1. "certified" \in Turnings
        BY <1>0, <1>2, <1>3, TodoFacts DEF TodoKept, AtWork, MilestoneTypes, CallDoc
      <4> QED
        BY <1>0, <4>1, TurnedFacts DEF Turnings, MilestoneTypes, CallDoc
    <3>2. LockedSoFar
      BY <1>2 DEF MilestoneInv, CoverKept
    <3>3. LockedSoFar'
      BY <1>3, <2>2, <2>3, <2>4, <2>5, <2>6, <2>13, <3>2 DEF LockedSoFar
    <3> QED
      BY <1>2, <2>2, <3>1, <3>3 DEF CoverKept
  <2> QED
    BY <2>8, <2>9, <2>10, <2>12, <2>14, <2>16, <2>17 DEF MilestoneInv
<1> QED
  BY <1>4, <1>5

\* All locks are as long: the newest certification covers what was whole before it.
LEMMA EndCertifiedStep ==
    ASSUME MilestoneInv, EndCertified
    PROVE  MilestoneInv'
<1>0. MilestoneTypes /\ ElectionSane /\ WorkKept /\ TodoKept /\ StoreKept
  BY DEF MilestoneInv
<1>1. /\ milestoneRun.pc = "extend" /\ milestoneRun.left = {}
      /\ milestoneRun' = [milestoneRun EXCEPT !.pc = "next", !.todo = Tail(milestoneRun.todo), !.left = {}]
      /\ UNCHANGED <<day, election, resultsEnd, recorded, store, report, past>>
  BY DEF EndCertified, Extended
<1>2. /\ Len(store) > 0 /\ Mine \in DOMAIN store /\ store[Mine].whole /\ store[Mine].label = "certified"
      /\ milestoneRun.todo # <<>> /\ Head(milestoneRun.todo) = "certified"
  BY <1>0, <1>1, StoreFacts DEF WorkKept, AtWork, MilestoneTypes
<1>3. Tail(milestoneRun.todo) = <<>> /\ <<>> \in Todos /\ ToSet(<<>>) = {}
  BY <1>0, <1>2, TodoFacts DEF MilestoneTypes, CallDoc, Todos
<1>4. /\ milestoneRun' \in CallDoc /\ milestoneRun'.pc = "next" /\ milestoneRun'.todo = <<>>
      /\ milestoneRun'.flags = milestoneRun.flags
  BY <1>0, <1>1, <1>3 DEF MilestoneTypes, CallDoc, CallSteps
<1>5. \A l \in Labels : CompleteSnapshot(l)' = CompleteSnapshot(l)
  BY <1>0, <1>1, StoreStays DEF MilestoneTypes
<1>6. FilesAreLocked' /\ StoreKept'
  BY <1>0, <1>1, StoreStays DEF MilestoneTypes
<1>7. MilestoneTypes' /\ ElectionSane'
  BY <1>0, <1>1, <1>4 DEF MilestoneTypes, ElectionSane, Sane
<1>8. Turnings' = Turnings
  BY <1>1, <1>4 DEF Turnings
<1>9. TodoKept' /\ WorkKept'
  BY <1>0, <1>1, <1>3, <1>4, <1>8 DEF TodoKept, WorkKept, Sane, AtWork
<1>10. Made' = Made
  BY <1>1, <1>3, <1>4, <1>8 DEF Made
<1>11. OwedKept'
  BY <1>1, <1>5, <1>10 DEF MilestoneInv, OwedKept
<1>12. Covered
  <2>1. Mine \in CompleteSnapshot("certified")
    BY <1>2 DEF CompleteSnapshot
  <2>2. \A d \in CompleteSnapshot("certified") : store[d].on <= store[Mine].on
    BY <1>0, <1>2, StoreFacts DEF CompleteSnapshot, StoreKept, InOrder, MilestoneTypes, Mine
  <2>3. \A s \in DOMAIN store : store[s].lock >= store[Mine].on + LockDays
    <3>1. \A s \in DOMAIN store : store[s].lock >= milestoneRun.until /\ store[s].lock \in Nat
      BY <1>0, <1>1, StoreFacts DEF MilestoneInv, CoverKept, LockedSoFar, MilestoneTypes
    <3>2. milestoneRun.until >= store[Mine].on + LockDays /\ milestoneRun.until \in Nat /\ store[Mine].on \in Nat
      BY <1>0, <1>1, <1>2, StoreFacts DEF MilestoneInv, CoverKept, LockedSoFar, MilestoneTypes, CallDoc
    <3> QED
      BY <3>1, <3>2, MilestoneBounds
  <2> QED
    BY <2>1, <2>2, <2>3 DEF Covered, CoveredBy
<1>13. CoverKept'
  <2>1. Covered'
    BY <1>0, <1>1, <1>12, StoreStays
  <2> QED
    BY <1>1, <1>4, <2>1 DEF MilestoneInv, CoverKept, NothingOwed
<1> QED
  BY <1>6, <1>7, <1>9, <1>11, <1>13 DEF MilestoneInv

\* What has turned is recorded, with a snapshot for each turn.
LEMMA RecordStep ==
    ASSUME MilestoneInv, RecordFlags
    PROVE  MilestoneInv'
<1>0. MilestoneTypes /\ ElectionSane /\ TodoKept
  BY DEF MilestoneInv
<1>1. /\ milestoneRun.pc = "next" /\ milestoneRun.todo = <<>> /\ recorded' = milestoneRun.flags
      /\ past' = [past EXCEPT !.owed = [l \in Labels |-> past.owed[l] + (IF l \in Turnings THEN 1 ELSE 0)]]
      /\ milestoneRun' = NoCall /\ UNCHANGED <<day, election, resultsEnd, store, report>>
  BY <1>0 DEF RecordFlags, NothingLeftToDo, Turnings, MilestoneTypes, PastDoc
<1>2. /\ past' \in PastDoc
      /\ \A l \in Labels : past'.owed[l] = past.owed[l] + (IF l \in Turnings THEN 1 ELSE 0) /\ past.owed[l] \in Nat
  <2>1. [l \in Labels |-> past.owed[l] + (IF l \in Turnings THEN 1 ELSE 0)] \in [Labels -> Nat]
    BY <1>0 DEF MilestoneTypes, PastDoc
  <2> QED
    BY <1>0, <1>1, <2>1 DEF MilestoneTypes, PastDoc
<1>3. milestoneRun.flags \in Flags /\ Sane(milestoneRun.flags)
  BY <1>0, <1>1 DEF MilestoneTypes, CallDoc, TodoKept
<1>4. MilestoneTypes' /\ ElectionSane'
  BY <1>0, <1>1, <1>2, <1>3, NoCallTypes DEF MilestoneTypes, ElectionSane, Sane
<1>5. \A l \in Labels : CompleteSnapshot(l)' = CompleteSnapshot(l)
  BY <1>0, <1>1, StoreStays DEF MilestoneTypes
<1>6. FilesAreLocked' /\ StoreKept'
  BY <1>0, <1>1, StoreStays DEF MilestoneTypes
<1>7. TodoKept' /\ WorkKept'
  BY <1>1, NoCallTypes DEF TodoKept, WorkKept, AtWork
<1>8. Made = Turnings /\ Made' = {}
  <2>1. ToSet(<<>>) = {} /\ <<>> \in Todos
    BY TodoFacts DEF Todos
  <2> QED
    BY <1>1, <2>1, NoCallTypes DEF Made
<1>9. OwedKept'
  BY <1>2, <1>5, <1>8, <1>0, StoreFacts DEF MilestoneInv, OwedKept, MilestoneTypes
<1>10. recorded' # NoFlags
  BY <1>1, <1>3 DEF Sane, NoFlags
<1>11. ASSUME recorded'.certified, past'.owed["certified"] > 0 PROVE Covered'
  <2>1. CASE "certified" \in Turnings
    <3>1. Covered
      BY <1>1, <2>1, TodoFacts DEF MilestoneInv, CoverKept, Todos
    <3> QED
      BY <1>1, <3>1, StoreStays
  <2>2. CASE "certified" \notin Turnings
    <3>1. past.owed["certified"] > 0
      BY <1>2, <1>11, <2>2 DEF Labels
    <3>2. recorded # NoFlags
      BY <3>1, <1>2 DEF MilestoneInv, CoverKept, NothingOwed, Labels
    <3>3. recorded.certified
      BY <1>0, <1>1, <1>3, <1>11, <2>2, <3>2, TurnedFacts DEF Turnings, MilestoneTypes
    <3>4. Covered
      BY <3>1, <3>2, <3>3 DEF MilestoneInv, CoverKept
    <3> QED
      BY <1>1, <3>4, StoreStays
  <2> QED
    BY <2>1, <2>2
<1>12. CoverKept'
  BY <1>1, <1>10, <1>11, NoCallTypes DEF CoverKept
<1> QED
  BY <1>4, <1>6, <1>7, <1>9, <1>12 DEF MilestoneInv

LEMMA MilestonesStart ==
    ASSUME MilestonesInit
    PROVE  MilestoneInv
<1>1. /\ day = 1 /\ election = [open |-> TRUE, certified |-> FALSE] /\ resultsEnd \in Nat /\ recorded = NoFlags
      /\ store = <<>> /\ milestoneRun = NoCall /\ report = [made |-> "no", approved |-> FALSE]
      /\ past \in PastDoc /\ \A l \in Labels : past.owed[l] = 0
  BY MilestoneBounds DEF MilestonesInit, PastDoc
<1>2. store \in Seq(Snapshot) /\ DOMAIN store = {}
  BY <1>1
<1>3. MilestoneTypes /\ ElectionSane
  BY <1>1, <1>2, NoCallTypes DEF MilestoneTypes, ElectionSane, Sane, Flags, NoFlags, ReportDoc
<1>4. TodoKept /\ WorkKept /\ CoverKept
  BY <1>1, NoCallTypes DEF TodoKept, WorkKept, CoverKept, NothingOwed, AtWork
<1>5. StoreKept /\ FilesAreLocked
  BY <1>2 DEF StoreKept, FilesAreLocked
<1>6. OwedKept
  <2>1. Made = {}
    BY <1>1, NoCallTypes DEF Made
  <2> QED
    BY <1>1, <1>2, <2>1, StoreFacts DEF OwedKept
<1> QED
  BY <1>3, <1>4, <1>5, <1>6 DEF MilestoneInv

LEMMA MilestonesStutter ==
    ASSUME MilestoneInv, UNCHANGED milestoneVars
    PROVE  MilestoneInv'
<1>1. UNCHANGED <<day, election, resultsEnd, recorded, store, milestoneRun, report, past>>
  BY DEF milestoneVars
<1>2. MilestoneTypes' /\ ElectionSane' /\ day <= day'
  BY <1>1 DEF MilestoneInv, MilestoneTypes, ElectionSane, Sane
<1> QED
  BY <1>1, <1>2, CallWaits

\* The day of the last certification that is snapped is the day of the snapshot that covers.
LEMMA CoverIsLast ==
    ASSUME MilestoneInv, Covered
    PROVE  LET last == MaxDay({store[s].on : s \in CompleteSnapshot("certified")})
           IN  \A s \in DOMAIN store : store[s].whole /\ store[s].on <= last => store[s].lock >= last + LockDays
<1>1. PICK c \in CompleteSnapshot("certified") : CoveredBy(c)
  BY DEF Covered
<1> DEFINE days == {store[s].on : s \in CompleteSnapshot("certified")}
<1>2. store[c].on \in days /\ \A x \in days : x \in Nat /\ x <= store[c].on
  BY <1>1, StoreFacts DEF CoveredBy, CompleteSnapshot, MilestoneInv, MilestoneTypes
<1> HIDE DEF days
<1>3. MaxDay(days) \in days /\ \A y \in days : y <= MaxDay(days)
  BY <1>2 DEF MaxDay
<1>4. MaxDay(days) = store[c].on
  BY <1>2, <1>3
<1> QED
  BY <1>1, <1>4 DEF CoveredBy, days

LEMMA MilestonesAreKept ==
    ASSUME MilestoneInv
    PROVE  MilestonesSound
<1>1. TurnsAreSnapped
  BY StoreFacts DEF MilestoneInv, MilestoneTypes, PastDoc, OwedKept, TurnsAreSnapped
<1>2. LocksCoverRelease
  BY CoverIsLast DEF MilestoneInv, CoverKept, LocksCoverRelease
<1> QED
  BY <1>1, <1>2 DEF MilestoneInv, MilestonesSound

LEMMA MilestonesInvStep == MilestoneInv /\ [MilestonesNext]_milestoneVars => MilestoneInv'
<1> SUFFICES ASSUME MilestoneInv, [MilestonesNext]_milestoneVars PROVE MilestoneInv'
  OBVIOUS
<1>1. CASE UNCHANGED milestoneVars
  BY <1>1, MilestonesStutter
<1>2. CASE MilestonesNext
  BY <1>2, QuietStep, DetectStep, BeginStep, AssetStep, ManifestStep, ExtendStep, EndCertifiedStep, RecordStep
     DEF MilestonesNext
<1> QED
  BY <1>1, <1>2

\* The snapshots of an election's turns: one for each turn that is recorded, a lock of a year past the
\* release on all of them, and no file listed without its lock (backup.py 605-691).
THEOREM MilestonesHold == MilestonesSpec => []MilestonesSound
<1>1. MilestonesInit => MilestoneInv
  BY MilestonesStart
<1>2. MilestoneInv /\ [MilestonesNext]_milestoneVars => MilestoneInv'
  BY MilestonesInvStep
<1>3. MilestoneInv => MilestonesSound
  BY MilestonesAreKept
<1> QED
  BY <1>1, <1>2, <1>3, PTL DEF MilestonesSpec

-----------------------------------------------------------------------------
(* The monitor (MonitorSchedule). *)

\* The clock is kept as the code's own times keep it: the calls come often enough, and a run is short
\* enough, for the gaps that calls leave out to stay inside the limits that are watched.
Punctual ==
    /\ CallEvery < SilentLimit /\ RunTicks + 1 < CallEvery
    /\ 8 * ProbeGap <= 10 * (SampleLimit - CallEvery - RunTicks)
    /\ 2 * RunTicks + CallEvery + 1 <= SampleLimit
    /\ \A l \in LagLimits :
        /\ 8 * Smaller(MirrorGap, Larger(LeastGap, l \div 2)) <= 10 * (l - CallEvery - RunTicks)
        /\ 2 * RunTicks + CallEvery + 1 <= l

FullRunDoc == [pc : {"idle", "tenants", "mirror", "sample", "write", "alerts", "stamp", "send"},
               mode : {"incr", "full"}, ticks : 0 .. RunTicks, down : BOOLEAN]

TestDoc == [pc : {"idle", "write", "alerts", "stamp", "send"}, down : BOOLEAN]

MarredDoc == [count : Nat, missed : BOOLEAN, synced : BOOLEAN, busy : BOOLEAN, falseSilence : BOOLEAN, storm : BOOLEAN]

AgesKept == \A c \in Clocks : ages[c] <= Cap[c]

MonitorTypes ==
    /\ ages \in [Clocks -> Nat] /\ AgesKept
    /\ lagLimit \in LagLimits /\ service \in {"ok", "down"} /\ streak \in 0 .. Debounce
    /\ fullRun \in FullRunDoc /\ test \in TestDoc /\ marred \in MarredDoc

OnTime ==
    ~marred.missed /\ fullRun.pc # "idle" /\ fullRun.mode = "incr" => ages.call <= fullRun.ticks

Backed ==
    /\ ~marred.falseSilence
    /\ ~marred.missed /\ ~marred.busy =>
        IF fullRun.pc = "tenants" /\ fullRun.mode = "incr" THEN ages.incr <= CallEvery + 1 + fullRun.ticks
                                                           ELSE ages.incr <= ages.call

Spare(limit) == limit - (CallEvery + 1 + RunTicks)

SampleKept ==
    ~marred.missed =>
        IF fullRun.pc \in {"tenants", "mirror", "sample", "write"}
        THEN ages.sample <= Spare(SampleLimit) + CallEvery + 1 + fullRun.ticks
        ELSE IF fullRun.pc # "idle" THEN ages.sample <= fullRun.ticks
        ELSE ages.sample <= Spare(SampleLimit) + ages.call

MirrorKept ==
    ~marred.missed /\ marred.synced =>
        IF fullRun.pc \in {"tenants", "mirror"} THEN ages.mirror <= Spare(lagLimit) + CallEvery + 1 + fullRun.ticks
        ELSE IF fullRun.pc # "idle" /\ fullRun.mode = "full" THEN ages.mirror <= fullRun.ticks
        ELSE ages.mirror <= Spare(lagLimit) + ages.call

MailKept ==
    /\ ages.stored <= ages.mail /\ ~marred.storm
    /\ (fullRun.pc = "send" \/ test.pc = "send") => ages.stored = 0
    /\ (fullRun.pc \in {"stamp", "send"} \/ test.pc \in {"stamp", "send"}) =>
          (ages.mail < Cooldown => ages.memory < Cooldown)

MonitorInv == MonitorTypes /\ OnTime /\ Backed /\ SampleKept /\ MirrorKept /\ MailKept

LEMMA MonitorBounds ==
    /\ CallEvery \in Nat /\ RunTicks \in Nat /\ Cooldown \in Nat /\ Debounce \in Nat
    /\ SampleLimit \in Nat /\ SilentLimit \in Nat /\ MirrorGap \in Nat /\ ProbeGap \in Nat
BY MonitorAssumption

LEMMA RunsBegin ==
    /\ NoFullRun \in FullRunDoc /\ [NoFullRun EXCEPT !.pc = "tenants"] \in FullRunDoc
    /\ [NoFullRun EXCEPT !.pc = "tenants", !.mode = "full"] \in FullRunDoc
    /\ [NoFullRun EXCEPT !.pc = "tenants"].pc = "tenants" /\ [NoFullRun EXCEPT !.pc = "tenants"].ticks = 0
<1>1. 0 \in 0 .. RunTicks
  BY MonitorBounds
<1> QED
  BY <1>1 DEF NoFullRun, FullRunDoc

LEMMA ClockNames ==
    /\ Clocks = {"call", "incr", "mirror", "sample", "stored", "memory", "mail"}
    /\ Cap.call = CallEvery + 1 /\ Cap.incr = SilentLimit + 1 /\ Cap.mirror = MirrorGap + SilentLimit
    /\ Cap.sample = SampleLimit + 1 /\ Cap.stored = Cooldown /\ Cap.memory = Cooldown /\ Cap.mail = Cooldown
    /\ \A c \in Clocks : Cap[c] \in Nat
BY MonitorAssumption DEF Clocks, Cap

\* Two ages of the same bound keep their order while time passes.
LEMMA Ageing ==
    ASSUME ages \in [Clocks -> Nat], AgesKept, MonitorCall
    PROVE  /\ test.pc = "idle" /\ fullRun.pc \notin {"stamp", "send"}
           /\ ages' \in [Clocks -> Nat] /\ AgesKept'
           /\ \A c \in Clocks : ages'[c] <= ages[c] + 1 /\ ages[c] <= ages'[c]
           /\ \A c \in Clocks : ages[c] < Cap[c] => ages'[c] = ages[c] + 1
           /\ \A c \in Clocks : ages[c] = Cap[c] => ages'[c] = ages[c]
BY ClockNames DEF MonitorCall, AgesKept

LEMMA MirrorWaitFits ==
    ASSUME Punctual, lagLimit \in LagLimits
    PROVE  /\ MirrorWait \in Nat /\ lagLimit \in Nat
           /\ 8 * MirrorWait <= 10 * (lagLimit - CallEvery - RunTicks)
           /\ 2 * RunTicks + CallEvery + 1 <= lagLimit
<1>1. lagLimit \in Nat /\ lagLimit \div 2 \in Nat
  BY MonitorAssumption, SMT
<1>2. MirrorWait \in Nat
  BY <1>1, MonitorAssumption DEF MirrorWait, Smaller, Larger
<1> QED
  BY <1>1, <1>2 DEF Punctual, MirrorWait

LEMMA Marring ==
    ASSUME marred \in MarredDoc, NEW f \in {"missed", "synced"}, Mar(f)
    PROVE  /\ marred' \in MarredDoc /\ marred'.busy = marred.busy
           /\ marred'.falseSilence = marred.falseSilence /\ marred'.storm = marred.storm
           /\ f = "missed" => marred'.missed /\ marred'.synced = marred.synced
           /\ f = "synced" => ~marred'.synced /\ marred'.missed = marred.missed
<1> DEFINE m == [marred EXCEPT !.count = @ + 1]
<1>1. marred' = [m EXCEPT ![f] = (f = "missed")]
  BY DEF Mar
<1>2. /\ m \in MarredDoc /\ m.busy = marred.busy /\ m.falseSilence = marred.falseSilence
      /\ m.storm = marred.storm /\ m.missed = marred.missed /\ m.synced = marred.synced
  BY DEF MarredDoc
<1> HIDE DEF m
<1>3. CASE f = "missed"
  <2>1. marred' = [m EXCEPT !.missed = TRUE]
    BY <1>1, <1>3
  <2> QED
    BY <2>1, <1>2, <1>3 DEF MarredDoc
<1>4. CASE f = "synced"
  <2>1. marred' = [m EXCEPT !.synced = FALSE]
    BY <1>1, <1>4
  <2> QED
    BY <2>1, <1>2, <1>4 DEF MarredDoc
<1> QED
  BY <1>3, <1>4

LEMMA Renewed ==
    ASSUME ages \in [Clocks -> Nat], AgesKept, NEW c \in Clocks, Fresh(c)
    PROVE  /\ ages' \in [Clocks -> Nat] /\ AgesKept' /\ ages'[c] = 0
           /\ \A d \in Clocks \ {c} : ages'[d] = ages[d]
BY ClockNames DEF Fresh, AgesKept

LEMMA MonitorTypesStep ==
    ASSUME MonitorTypes, MonitorNext
    PROVE  MonitorTypes'
<1>1. CASE PassTime
  BY <1>1, ClockNames, MonitorBounds, Ageing DEF PassTime, MonitorTypes, AgesKept, FullRunDoc, TestDoc, MarredDoc
<1>2. CASE ServiceTurns
  BY <1>2, ClockNames, MonitorBounds DEF ServiceTurns, MonitorTypes, AgesKept, FullRunDoc, TestDoc, MarredDoc
<1>3. CASE MissCall
  BY <1>3, ClockNames, MonitorBounds, Ageing, Marring DEF MissCall, MonitorTypes, AgesKept, FullRunDoc, TestDoc, MarredDoc
<1>4. CASE RestartProcess
  <2>1. ages' \in [Clocks -> Nat] /\ AgesKept'
    BY <1>4, ClockNames, MonitorBounds, Marring, RunsBegin DEF RestartProcess, NoTest, MonitorTypes, AgesKept
  <2>2. fullRun' \in FullRunDoc
    BY <1>4, ClockNames, MonitorBounds, Marring, RunsBegin DEF RestartProcess, NoTest, MonitorTypes, FullRunDoc
  <2>3. test' \in TestDoc
    BY <1>4, ClockNames, MonitorBounds, Marring, RunsBegin DEF RestartProcess, NoTest, MonitorTypes, TestDoc
  <2>4. marred' \in MarredDoc
    BY <1>4, ClockNames, MonitorBounds, Marring, RunsBegin DEF RestartProcess, NoTest, MonitorTypes, MarredDoc
  <2>5. UNCHANGED <<lagLimit, service, streak>>
    BY <1>4 DEF RestartProcess
  <2> QED
    BY <2>1, <2>2, <2>3, <2>4, <2>5 DEF MonitorTypes
<1>5. CASE CallIncr
  <2>1. ages' \in [Clocks -> Nat] /\ AgesKept'
    BY <1>5, ClockNames, MonitorBounds, Renewed, RunsBegin DEF CallIncr, MonitorTypes, AgesKept
  <2>2. fullRun' \in FullRunDoc
    BY <1>5, ClockNames, MonitorBounds, Renewed, RunsBegin DEF CallIncr, MonitorTypes, FullRunDoc
  <2>3. test' \in TestDoc
    BY <1>5, ClockNames, MonitorBounds, Renewed, RunsBegin DEF CallIncr, MonitorTypes, TestDoc
  <2>4. marred' \in MarredDoc
    BY <1>5, ClockNames, MonitorBounds, Renewed, RunsBegin, Zenon DEF CallIncr, MonitorTypes, MarredDoc
  <2>5. UNCHANGED <<lagLimit, service, streak>>
    BY <1>5 DEF CallIncr
  <2> QED
    BY <2>1, <2>2, <2>3, <2>4, <2>5 DEF MonitorTypes
<1>6. CASE CallFull
  <2>1. ages' \in [Clocks -> Nat] /\ AgesKept'
    BY <1>6, ClockNames, MonitorBounds, RunsBegin DEF CallFull, MonitorTypes, AgesKept
  <2>2. fullRun' \in FullRunDoc
    BY <1>6, ClockNames, MonitorBounds, RunsBegin DEF CallFull, MonitorTypes, FullRunDoc
  <2>3. test' \in TestDoc
    BY <1>6, ClockNames, MonitorBounds, RunsBegin DEF CallFull, MonitorTypes, TestDoc
  <2>4. marred' \in MarredDoc
    BY <1>6, ClockNames, MonitorBounds, RunsBegin DEF CallFull, MonitorTypes, MarredDoc
  <2>5. UNCHANGED <<lagLimit, service, streak>>
    BY <1>6 DEF CallFull
  <2> QED
    BY <2>1, <2>2, <2>3, <2>4, <2>5 DEF MonitorTypes
<1>7. CASE BackUpTenants
  BY <1>7, ClockNames, MonitorBounds, Renewed, Zenon DEF BackUpTenants, MarksRun, MonitorTypes, AgesKept, FullRunDoc, TestDoc, MarredDoc
<1>8. CASE SkipMirror
  BY <1>8, ClockNames, MonitorBounds DEF SkipMirror, Recent, MonitorTypes, AgesKept, FullRunDoc, TestDoc, MarredDoc
<1>9. CASE SyncMirror
  BY <1>9, ClockNames, MonitorBounds, Renewed, Marring DEF SyncMirror, Recent, MonitorTypes, AgesKept, FullRunDoc, TestDoc, MarredDoc
<1>10. CASE SkipSample
  BY <1>10, ClockNames, MonitorBounds DEF SkipSample, Recent, NoFullRun, MonitorTypes, AgesKept, FullRunDoc, TestDoc, MarredDoc
<1>11. CASE ProbeNow
  BY <1>11, ClockNames, MonitorBounds DEF ProbeNow, Recent, MonitorTypes, AgesKept, FullRunDoc, TestDoc, MarredDoc
<1>12. CASE WriteSample
  BY <1>12, ClockNames, MonitorBounds, Renewed DEF WriteSample, Sampled, Smaller, MonitorTypes, AgesKept, FullRunDoc, TestDoc, MarredDoc
<1>13. CASE Evaluate
  BY <1>13, ClockNames, MonitorBounds DEF Evaluate, NoFullRun, NotStored, MonitorTypes, AgesKept, FullRunDoc, TestDoc, MarredDoc
<1>14. CASE StampMail
  BY <1>14, ClockNames, MonitorBounds, Renewed DEF StampMail, MonitorTypes, AgesKept, FullRunDoc, TestDoc, MarredDoc
<1>15. CASE Send
  <2>1. ages' \in [Clocks -> Nat] /\ AgesKept'
    BY <1>15, ClockNames, MonitorBounds DEF Send, Mailed, QuietEnough, NoFullRun, MonitorTypes, AgesKept
  <2>2. fullRun' \in FullRunDoc
    BY <1>15, ClockNames, MonitorBounds DEF Send, Mailed, QuietEnough, NoFullRun, MonitorTypes, FullRunDoc
  <2>3. test' \in TestDoc
    BY <1>15, ClockNames, MonitorBounds DEF Send, Mailed, QuietEnough, NoFullRun, MonitorTypes, TestDoc
  <2>4. marred' \in MarredDoc
    BY <1>15, ClockNames, MonitorBounds DEF Send, Mailed, QuietEnough, NoFullRun, MonitorTypes, MarredDoc
  <2>5. UNCHANGED <<lagLimit, service, streak>>
    BY <1>15 DEF Send
  <2> QED
    BY <2>1, <2>2, <2>3, <2>4, <2>5 DEF MonitorTypes
<1>16. CASE AskTest
  BY <1>16, ClockNames, MonitorBounds DEF AskTest, MonitorTypes, AgesKept, FullRunDoc, TestDoc, MarredDoc
<1>17. CASE WriteTestSample
  BY <1>17, ClockNames, MonitorBounds, Renewed DEF WriteTestSample, Sampled, Smaller, MonitorTypes, AgesKept, FullRunDoc, TestDoc, MarredDoc
<1>18. CASE EvaluateTest
  BY <1>18, ClockNames, MonitorBounds DEF EvaluateTest, NoTest, NotStored, MonitorTypes, AgesKept, FullRunDoc, TestDoc, MarredDoc
<1>19. CASE StampTest
  BY <1>19, ClockNames, MonitorBounds, Renewed DEF StampTest, MonitorTypes, AgesKept, FullRunDoc, TestDoc, MarredDoc
<1>20. CASE SendTest
  <2>1. ages' \in [Clocks -> Nat] /\ AgesKept'
    BY <1>20, ClockNames, MonitorBounds DEF SendTest, Mailed, QuietEnough, NoTest, MonitorTypes, AgesKept
  <2>2. fullRun' \in FullRunDoc
    BY <1>20, ClockNames, MonitorBounds DEF SendTest, Mailed, QuietEnough, NoTest, MonitorTypes, FullRunDoc
  <2>3. test' \in TestDoc
    BY <1>20, ClockNames, MonitorBounds DEF SendTest, Mailed, QuietEnough, NoTest, MonitorTypes, TestDoc
  <2>4. marred' \in MarredDoc
    BY <1>20, ClockNames, MonitorBounds DEF SendTest, Mailed, QuietEnough, NoTest, MonitorTypes, MarredDoc
  <2>5. UNCHANGED <<lagLimit, service, streak>>
    BY <1>20 DEF SendTest
  <2> QED
    BY <2>1, <2>2, <2>3, <2>4, <2>5 DEF MonitorTypes
<1> QED
  BY <1>1, <1>2, <1>3, <1>4, <1>5, <1>6, <1>7, <1>8, <1>9, <1>10, <1>11, <1>12, <1>13, <1>14, <1>15, <1>16, <1>17, <1>18, <1>19, <1>20 DEF MonitorNext

LEMMA OnTimeStep ==
    ASSUME Punctual, MonitorTypes, OnTime, MonitorNext
    PROVE  OnTime'
<1>1. CASE ServiceTurns \/ AskTest \/ EvaluateTest
  BY <1>1 DEF ServiceTurns, AskTest, EvaluateTest, OnTime
<1>2. CASE PassTime
  BY <1>2, ClockNames, MonitorBounds, Ageing DEF PassTime, Punctual, OnTime, MonitorTypes, AgesKept, FullRunDoc, MarredDoc
<1>3. CASE MissCall
  BY <1>3, ClockNames, MonitorBounds, Ageing, Marring DEF MissCall, Punctual, OnTime, MonitorTypes, AgesKept, FullRunDoc, MarredDoc
<1>4. CASE RestartProcess
  <2>1. marred'.missed
    BY <1>4, Marring DEF RestartProcess, MonitorTypes
  <2> QED
    BY <2>1 DEF OnTime
<1>5. CASE CallIncr
  BY <1>5, ClockNames, MonitorBounds, Renewed DEF CallIncr, NoFullRun, Punctual, OnTime, MonitorTypes, AgesKept, FullRunDoc, MarredDoc
<1>6. CASE CallFull
  BY <1>6, ClockNames, MonitorBounds DEF CallFull, NoFullRun, Punctual, OnTime, MonitorTypes, AgesKept, FullRunDoc, MarredDoc
<1>7. CASE BackUpTenants
  BY <1>7, ClockNames, MonitorBounds, Renewed DEF BackUpTenants, MarksRun, Punctual, OnTime, MonitorTypes, AgesKept, FullRunDoc, MarredDoc
<1>8. CASE SkipMirror
  BY <1>8, ClockNames, MonitorBounds DEF SkipMirror, Recent, Punctual, OnTime, MonitorTypes, AgesKept, FullRunDoc, MarredDoc
<1>9. CASE SyncMirror
  BY <1>9, ClockNames, MonitorBounds, Renewed, Marring DEF SyncMirror, Recent, Punctual, OnTime, MonitorTypes, AgesKept, FullRunDoc, MarredDoc
<1>10. CASE SkipSample
  BY <1>10, ClockNames, MonitorBounds DEF SkipSample, Recent, NoFullRun, Punctual, OnTime, MonitorTypes, AgesKept, FullRunDoc, MarredDoc
<1>11. CASE ProbeNow
  BY <1>11, ClockNames, MonitorBounds DEF ProbeNow, Recent, Punctual, OnTime, MonitorTypes, AgesKept, FullRunDoc, MarredDoc
<1>12. CASE WriteSample
  BY <1>12, ClockNames, MonitorBounds, Renewed DEF WriteSample, Sampled, Punctual, OnTime, MonitorTypes, AgesKept, FullRunDoc, MarredDoc
<1>13. CASE Evaluate
  BY <1>13, ClockNames, MonitorBounds DEF Evaluate, NoFullRun, NotStored, Punctual, OnTime, MonitorTypes, AgesKept, FullRunDoc, MarredDoc
<1>14. CASE StampMail
  BY <1>14, ClockNames, MonitorBounds, Renewed DEF StampMail, Punctual, OnTime, MonitorTypes, AgesKept, FullRunDoc, MarredDoc
<1>15. CASE Send
  BY <1>15, ClockNames, MonitorBounds DEF Send, Mailed, QuietEnough, NoFullRun, Punctual, OnTime, MonitorTypes, AgesKept, FullRunDoc, MarredDoc
<1>16. CASE WriteTestSample
  BY <1>16, ClockNames, MonitorBounds, Renewed DEF WriteTestSample, Sampled, Punctual, OnTime, MonitorTypes, AgesKept, FullRunDoc, MarredDoc
<1>17. CASE StampTest
  BY <1>17, ClockNames, MonitorBounds, Renewed DEF StampTest, Punctual, OnTime, MonitorTypes, AgesKept, FullRunDoc, MarredDoc
<1>18. CASE SendTest
  BY <1>18, ClockNames, MonitorBounds DEF SendTest, Mailed, QuietEnough, NoTest, Punctual, OnTime, MonitorTypes, AgesKept, FullRunDoc, MarredDoc
<1> QED
  BY <1>1, <1>2, <1>3, <1>4, <1>5, <1>6, <1>7, <1>8, <1>9, <1>10, <1>11, <1>12, <1>13, <1>14, <1>15, <1>16, <1>17, <1>18 DEF MonitorNext

LEMMA BackedStep ==
    ASSUME Punctual, MonitorTypes, OnTime, Backed, MonitorNext
    PROVE  Backed'
<1>1. CASE ServiceTurns \/ AskTest \/ EvaluateTest
  BY <1>1 DEF ServiceTurns, AskTest, EvaluateTest, OnTime, Backed
<1>2. CASE PassTime
  BY <1>2, ClockNames, MonitorBounds, Ageing DEF PassTime, Punctual, OnTime, Backed, MonitorTypes, AgesKept, FullRunDoc, MarredDoc
<1>3. CASE MissCall
  BY <1>3, ClockNames, MonitorBounds, Ageing, Marring DEF MissCall, Punctual, OnTime, Backed, MonitorTypes, AgesKept, FullRunDoc, MarredDoc
<1>4. CASE RestartProcess
  <2>1. marred'.missed
    BY <1>4, Marring DEF RestartProcess, MonitorTypes
  <2>2. ~marred'.falseSilence
    BY <1>4, Marring DEF RestartProcess, MonitorTypes, Backed
  <2> QED
    BY <2>1, <2>2 DEF Backed
<1>5. CASE CallIncr
  BY <1>5, ClockNames, MonitorBounds, Renewed DEF CallIncr, NoFullRun, Punctual, OnTime, Backed, MonitorTypes, AgesKept, FullRunDoc, MarredDoc
<1>6. CASE CallFull
  BY <1>6, ClockNames, MonitorBounds DEF CallFull, NoFullRun, Punctual, OnTime, Backed, MonitorTypes, AgesKept, FullRunDoc, MarredDoc
<1>7. CASE BackUpTenants
  BY <1>7, ClockNames, MonitorBounds, Renewed DEF BackUpTenants, MarksRun, Punctual, OnTime, Backed, MonitorTypes, AgesKept, FullRunDoc, MarredDoc
<1>8. CASE SkipMirror
  BY <1>8, ClockNames, MonitorBounds DEF SkipMirror, Recent, Punctual, OnTime, Backed, MonitorTypes, AgesKept, FullRunDoc, MarredDoc
<1>9. CASE SyncMirror
  BY <1>9, ClockNames, MonitorBounds, Renewed, Marring DEF SyncMirror, Recent, Punctual, OnTime, Backed, MonitorTypes, AgesKept, FullRunDoc, MarredDoc
<1>10. CASE SkipSample
  BY <1>10, ClockNames, MonitorBounds DEF SkipSample, Recent, NoFullRun, Punctual, OnTime, Backed, MonitorTypes, AgesKept, FullRunDoc, MarredDoc
<1>11. CASE ProbeNow
  BY <1>11, ClockNames, MonitorBounds DEF ProbeNow, Recent, Punctual, OnTime, Backed, MonitorTypes, AgesKept, FullRunDoc, MarredDoc
<1>12. CASE WriteSample
  BY <1>12, ClockNames, MonitorBounds, Renewed DEF WriteSample, Sampled, Punctual, OnTime, Backed, MonitorTypes, AgesKept, FullRunDoc, MarredDoc
<1>13. CASE Evaluate
  BY <1>13, ClockNames, MonitorBounds DEF Evaluate, NoFullRun, NotStored, Punctual, OnTime, Backed, MonitorTypes, AgesKept, FullRunDoc, MarredDoc
<1>14. CASE StampMail
  BY <1>14, ClockNames, MonitorBounds, Renewed DEF StampMail, Punctual, OnTime, Backed, MonitorTypes, AgesKept, FullRunDoc, MarredDoc
<1>15. CASE Send
  BY <1>15, ClockNames, MonitorBounds DEF Send, Mailed, QuietEnough, NoFullRun, Punctual, OnTime, Backed, MonitorTypes, AgesKept, FullRunDoc, MarredDoc
<1>16. CASE WriteTestSample
  BY <1>16, ClockNames, MonitorBounds, Renewed DEF WriteTestSample, Sampled, Punctual, OnTime, Backed, MonitorTypes, AgesKept, FullRunDoc, MarredDoc
<1>17. CASE StampTest
  BY <1>17, ClockNames, MonitorBounds, Renewed DEF StampTest, Punctual, OnTime, Backed, MonitorTypes, AgesKept, FullRunDoc, MarredDoc
<1>18. CASE SendTest
  BY <1>18, ClockNames, MonitorBounds DEF SendTest, Mailed, QuietEnough, NoTest, Punctual, OnTime, Backed, MonitorTypes, AgesKept, FullRunDoc, MarredDoc
<1> QED
  BY <1>1, <1>2, <1>3, <1>4, <1>5, <1>6, <1>7, <1>8, <1>9, <1>10, <1>11, <1>12, <1>13, <1>14, <1>15, <1>16, <1>17, <1>18 DEF MonitorNext

LEMMA SampleStep ==
    ASSUME Punctual, MonitorTypes, SampleKept, MonitorNext
    PROVE  SampleKept'
<1>1. CASE ServiceTurns \/ AskTest \/ EvaluateTest
  BY <1>1 DEF ServiceTurns, AskTest, EvaluateTest, SampleKept, Spare
<1>2. CASE PassTime
  BY <1>2, ClockNames, MonitorBounds, Ageing DEF PassTime, Punctual, SampleKept, Spare, MonitorTypes, AgesKept, FullRunDoc, MarredDoc
<1>3. CASE MissCall
  BY <1>3, ClockNames, MonitorBounds, Ageing, Marring DEF MissCall, Punctual, SampleKept, Spare, MonitorTypes, AgesKept, FullRunDoc, MarredDoc
<1>4. CASE RestartProcess
  <2>1. marred'.missed
    BY <1>4, Marring DEF RestartProcess, MonitorTypes
  <2> QED
    BY <2>1 DEF SampleKept
<1>5. CASE CallIncr
  BY <1>5, ClockNames, MonitorBounds, Renewed DEF CallIncr, NoFullRun, Punctual, SampleKept, Spare, MonitorTypes, AgesKept, FullRunDoc, MarredDoc
<1>6. CASE CallFull
  BY <1>6, ClockNames, MonitorBounds DEF CallFull, NoFullRun, Punctual, SampleKept, Spare, MonitorTypes, AgesKept, FullRunDoc, MarredDoc
<1>7. CASE BackUpTenants
  BY <1>7, ClockNames, MonitorBounds, Renewed DEF BackUpTenants, MarksRun, Punctual, SampleKept, Spare, MonitorTypes, AgesKept, FullRunDoc, MarredDoc
<1>8. CASE SkipMirror
  BY <1>8, ClockNames, MonitorBounds DEF SkipMirror, Recent, Punctual, SampleKept, Spare, MonitorTypes, AgesKept, FullRunDoc, MarredDoc
<1>9. CASE SyncMirror
  BY <1>9, ClockNames, MonitorBounds, Renewed, Marring DEF SyncMirror, Recent, Punctual, SampleKept, Spare, MonitorTypes, AgesKept, FullRunDoc, MarredDoc
<1>10. CASE SkipSample
  BY <1>10, ClockNames, MonitorBounds DEF SkipSample, Recent, NoFullRun, Punctual, SampleKept, Spare, MonitorTypes, AgesKept, FullRunDoc, MarredDoc
<1>11. CASE ProbeNow
  BY <1>11, ClockNames, MonitorBounds DEF ProbeNow, Recent, Punctual, SampleKept, Spare, MonitorTypes, AgesKept, FullRunDoc, MarredDoc
<1>12. CASE WriteSample
  BY <1>12, ClockNames, MonitorBounds, Renewed DEF WriteSample, Sampled, Punctual, SampleKept, Spare, MonitorTypes, AgesKept, FullRunDoc, MarredDoc
<1>13. CASE Evaluate
  BY <1>13, ClockNames, MonitorBounds DEF Evaluate, NoFullRun, NotStored, Punctual, SampleKept, Spare, MonitorTypes, AgesKept, FullRunDoc, MarredDoc
<1>14. CASE StampMail
  BY <1>14, ClockNames, MonitorBounds, Renewed DEF StampMail, Punctual, SampleKept, Spare, MonitorTypes, AgesKept, FullRunDoc, MarredDoc
<1>15. CASE Send
  BY <1>15, ClockNames, MonitorBounds DEF Send, Mailed, QuietEnough, NoFullRun, Punctual, SampleKept, Spare, MonitorTypes, AgesKept, FullRunDoc, MarredDoc
<1>16. CASE WriteTestSample
  BY <1>16, ClockNames, MonitorBounds, Renewed DEF WriteTestSample, Sampled, Punctual, SampleKept, Spare, MonitorTypes, AgesKept, FullRunDoc, MarredDoc
<1>17. CASE StampTest
  BY <1>17, ClockNames, MonitorBounds, Renewed DEF StampTest, Punctual, SampleKept, Spare, MonitorTypes, AgesKept, FullRunDoc, MarredDoc
<1>18. CASE SendTest
  BY <1>18, ClockNames, MonitorBounds DEF SendTest, Mailed, QuietEnough, NoTest, Punctual, SampleKept, Spare, MonitorTypes, AgesKept, FullRunDoc, MarredDoc
<1> QED
  BY <1>1, <1>2, <1>3, <1>4, <1>5, <1>6, <1>7, <1>8, <1>9, <1>10, <1>11, <1>12, <1>13, <1>14, <1>15, <1>16, <1>17, <1>18 DEF MonitorNext

LEMMA MirrorStep ==
    ASSUME Punctual, MonitorTypes, OnTime, MirrorKept, MonitorNext
    PROVE  MirrorKept'
<1>1. CASE ServiceTurns \/ AskTest \/ EvaluateTest
  BY <1>1 DEF ServiceTurns, AskTest, EvaluateTest, MirrorKept, Spare
<1>2. CASE PassTime
  BY <1>2, ClockNames, MonitorBounds, MirrorWaitFits, Ageing DEF PassTime, MirrorKept, Spare, MonitorTypes, AgesKept, FullRunDoc, MarredDoc
<1>3. CASE MissCall
  BY <1>3, ClockNames, MonitorBounds, MirrorWaitFits, Ageing, Marring DEF MissCall, MirrorKept, Spare, MonitorTypes, AgesKept, FullRunDoc, MarredDoc
<1>4. CASE RestartProcess
  <2>1. marred'.missed
    BY <1>4, Marring DEF RestartProcess, MonitorTypes
  <2> QED
    BY <2>1 DEF MirrorKept
<1>5. CASE CallIncr
  <2>1. /\ ages'.mirror = ages.mirror /\ ages'.call = 0 /\ lagLimit' = lagLimit
        /\ ages.mirror \in Nat /\ ages.call \in Nat /\ ages.call <= CallEvery + 1
    BY <1>5, ClockNames, Renewed DEF CallIncr, MonitorTypes, AgesKept
  <2>2. marred'.missed = marred.missed /\ marred'.synced = marred.synced
    BY <1>5 DEF CallIncr, MonitorTypes, MarredDoc
  <2>3. CASE fullRun.pc = "idle"
    <3>1. fullRun'.pc = "tenants" /\ fullRun'.ticks = 0
      BY <1>5, <2>3, RunsBegin DEF CallIncr
    <3> QED
      BY <2>1, <2>2, <2>3, <3>1, MonitorBounds, MirrorWaitFits DEF MirrorKept, Spare, MonitorTypes
  <2>4. CASE fullRun.pc # "idle"
    <3>1. fullRun' = fullRun /\ fullRun.ticks \in Nat
      BY <1>5, <2>4, MonitorBounds DEF CallIncr, MonitorTypes, FullRunDoc
    <3>2. fullRun.mode = "incr" /\ ~marred.missed => ages.call <= fullRun.ticks /\ fullRun.ticks <= RunTicks
      BY <2>4, MonitorBounds DEF OnTime, MonitorTypes, FullRunDoc
    <3> QED
      BY <1>5, <2>1, <2>2, <2>4, <3>1, <3>2, MonitorBounds, MirrorWaitFits DEF CallIncr, MirrorKept, Spare, MonitorTypes, Punctual, FullRunDoc
  <2> QED
    BY <2>3, <2>4
<1>6. CASE CallFull
  BY <1>6, ClockNames, MonitorBounds, MirrorWaitFits DEF CallFull, NoFullRun, MirrorKept, Spare, MonitorTypes, AgesKept, FullRunDoc, MarredDoc
<1>7. CASE BackUpTenants
  BY <1>7, ClockNames, MonitorBounds, MirrorWaitFits, Renewed DEF BackUpTenants, MarksRun, MirrorKept, Spare, MonitorTypes, AgesKept, FullRunDoc, MarredDoc
<1>8. CASE SkipMirror
  BY <1>8, ClockNames, MonitorBounds, MirrorWaitFits DEF SkipMirror, Recent, MirrorKept, Spare, MonitorTypes, AgesKept, FullRunDoc, MarredDoc
<1>9. CASE SyncMirror
  BY <1>9, ClockNames, MonitorBounds, MirrorWaitFits, Renewed, Marring DEF SyncMirror, Recent, MirrorKept, Spare, MonitorTypes, AgesKept, FullRunDoc, MarredDoc
<1>10. CASE SkipSample
  BY <1>10, ClockNames, MonitorBounds, MirrorWaitFits DEF SkipSample, Recent, NoFullRun, MirrorKept, Spare, MonitorTypes, AgesKept, FullRunDoc, MarredDoc
<1>11. CASE ProbeNow
  BY <1>11, ClockNames, MonitorBounds, MirrorWaitFits DEF ProbeNow, Recent, MirrorKept, Spare, MonitorTypes, AgesKept, FullRunDoc, MarredDoc
<1>12. CASE WriteSample
  BY <1>12, ClockNames, MonitorBounds, MirrorWaitFits, Renewed DEF WriteSample, Sampled, MirrorKept, Spare, MonitorTypes, AgesKept, FullRunDoc, MarredDoc
<1>13. CASE Evaluate
  BY <1>13, ClockNames, MonitorBounds, MirrorWaitFits DEF Evaluate, NoFullRun, NotStored, MirrorKept, Spare, MonitorTypes, AgesKept, FullRunDoc, MarredDoc
<1>14. CASE StampMail
  BY <1>14, ClockNames, MonitorBounds, MirrorWaitFits, Renewed DEF StampMail, MirrorKept, Spare, MonitorTypes, AgesKept, FullRunDoc, MarredDoc
<1>15. CASE Send
  BY <1>15, ClockNames, MonitorBounds, MirrorWaitFits DEF Send, Mailed, QuietEnough, NoFullRun, MirrorKept, Spare, MonitorTypes, AgesKept, FullRunDoc, MarredDoc
<1>16. CASE WriteTestSample
  BY <1>16, ClockNames, MonitorBounds, MirrorWaitFits, Renewed DEF WriteTestSample, Sampled, MirrorKept, Spare, MonitorTypes, AgesKept, FullRunDoc, MarredDoc
<1>17. CASE StampTest
  BY <1>17, ClockNames, MonitorBounds, MirrorWaitFits, Renewed DEF StampTest, MirrorKept, Spare, MonitorTypes, AgesKept, FullRunDoc, MarredDoc
<1>18. CASE SendTest
  BY <1>18, ClockNames, MonitorBounds, MirrorWaitFits DEF SendTest, Mailed, QuietEnough, NoTest, MirrorKept, Spare, MonitorTypes, AgesKept, FullRunDoc, MarredDoc
<1> QED
  BY <1>1, <1>2, <1>3, <1>4, <1>5, <1>6, <1>7, <1>8, <1>9, <1>10, <1>11, <1>12, <1>13, <1>14, <1>15, <1>16, <1>17, <1>18 DEF MonitorNext

LEMMA MailStep ==
    ASSUME MonitorTypes, MailKept, MonitorNext
    PROVE  MailKept'
<1>1. CASE ServiceTurns
  BY <1>1 DEF ServiceTurns, MailKept, MonitorTypes, FullRunDoc, TestDoc
<1>2. CASE PassTime
  BY <1>2, ClockNames, MonitorBounds, Ageing DEF PassTime, MailKept, MonitorTypes, AgesKept, FullRunDoc, TestDoc, MarredDoc
<1>3. CASE MissCall
  BY <1>3, ClockNames, MonitorBounds, Ageing, Marring DEF MissCall, MailKept, MonitorTypes, AgesKept, FullRunDoc, TestDoc, MarredDoc
<1>4. CASE RestartProcess
  BY <1>4, ClockNames, MonitorBounds, Marring DEF RestartProcess, NoFullRun, NoTest, MailKept, MonitorTypes, AgesKept, FullRunDoc, TestDoc, MarredDoc
<1>5. CASE CallIncr
  BY <1>5, ClockNames, MonitorBounds, Renewed DEF CallIncr, NoFullRun, MailKept, MonitorTypes, AgesKept, FullRunDoc, TestDoc, MarredDoc
<1>6. CASE CallFull
  BY <1>6, ClockNames, MonitorBounds DEF CallFull, NoFullRun, MailKept, MonitorTypes, AgesKept, FullRunDoc, TestDoc, MarredDoc
<1>7. CASE BackUpTenants
  BY <1>7, ClockNames, MonitorBounds, Renewed DEF BackUpTenants, MarksRun, MailKept, MonitorTypes, AgesKept, FullRunDoc, TestDoc, MarredDoc
<1>8. CASE SkipMirror
  BY <1>8, ClockNames, MonitorBounds DEF SkipMirror, Recent, MailKept, MonitorTypes, AgesKept, FullRunDoc, TestDoc, MarredDoc
<1>9. CASE SyncMirror
  BY <1>9, ClockNames, MonitorBounds, Renewed, Marring DEF SyncMirror, Recent, MailKept, MonitorTypes, AgesKept, FullRunDoc, TestDoc, MarredDoc
<1>10. CASE SkipSample
  BY <1>10, ClockNames, MonitorBounds DEF SkipSample, Recent, NoFullRun, MailKept, MonitorTypes, AgesKept, FullRunDoc, TestDoc, MarredDoc
<1>11. CASE ProbeNow
  BY <1>11, ClockNames, MonitorBounds DEF ProbeNow, Recent, MailKept, MonitorTypes, AgesKept, FullRunDoc, TestDoc, MarredDoc
<1>12. CASE WriteSample
  BY <1>12, ClockNames, MonitorBounds, Renewed DEF WriteSample, Sampled, MailKept, MonitorTypes, AgesKept, FullRunDoc, TestDoc, MarredDoc
<1>13. CASE Evaluate
  BY <1>13, ClockNames, MonitorBounds DEF Evaluate, NoFullRun, NotStored, MailKept, MonitorTypes, AgesKept, FullRunDoc, TestDoc, MarredDoc
<1>14. CASE StampMail
  BY <1>14, ClockNames, MonitorBounds, Renewed DEF StampMail, MailKept, MonitorTypes, AgesKept, FullRunDoc, TestDoc, MarredDoc
<1>15. CASE Send
  BY <1>15, ClockNames, MonitorBounds DEF Send, Mailed, QuietEnough, NoFullRun, MailKept, MonitorTypes, AgesKept, FullRunDoc, TestDoc, MarredDoc
<1>16. CASE AskTest
  BY <1>16, ClockNames, MonitorBounds DEF AskTest, MailKept, MonitorTypes, AgesKept, FullRunDoc, TestDoc, MarredDoc
<1>17. CASE WriteTestSample
  BY <1>17, ClockNames, MonitorBounds, Renewed DEF WriteTestSample, Sampled, MailKept, MonitorTypes, AgesKept, FullRunDoc, TestDoc, MarredDoc
<1>18. CASE EvaluateTest
  BY <1>18, ClockNames, MonitorBounds DEF EvaluateTest, NoTest, NotStored, MailKept, MonitorTypes, AgesKept, FullRunDoc, TestDoc, MarredDoc
<1>19. CASE StampTest
  BY <1>19, ClockNames, MonitorBounds, Renewed DEF StampTest, MailKept, MonitorTypes, AgesKept, FullRunDoc, TestDoc, MarredDoc
<1>20. CASE SendTest
  BY <1>20, ClockNames, MonitorBounds DEF SendTest, Mailed, QuietEnough, NoTest, MailKept, MonitorTypes, AgesKept, FullRunDoc, TestDoc, MarredDoc
<1> QED
  BY <1>1, <1>2, <1>3, <1>4, <1>5, <1>6, <1>7, <1>8, <1>9, <1>10, <1>11, <1>12, <1>13, <1>14, <1>15, <1>16, <1>17, <1>18, <1>19, <1>20 DEF MonitorNext

LEMMA MonitorTypesInit == MonitorInit => MonitorTypes
<1> SUFFICES ASSUME MonitorInit PROVE MonitorTypes
  OBVIOUS
<1>1. /\ lagLimit \in LagLimits /\ service = "ok" /\ streak = 0 /\ fullRun = NoFullRun /\ test = NoTest
      /\ marred = [count |-> 0, missed |-> FALSE, synced |-> TRUE, busy |-> FALSE, falseSilence |-> FALSE, storm |-> FALSE]
  BY DEF MonitorInit
<1>2. ages \in [Clocks -> Nat] /\ AgesKept
  BY ClockNames, MonitorBounds DEF MonitorInit, AgesKept
<1>3. fullRun \in FullRunDoc /\ test \in TestDoc /\ marred \in MarredDoc
  BY <1>1, MonitorBounds DEF NoFullRun, NoTest, FullRunDoc, TestDoc, MarredDoc
<1> QED
  BY <1>1, <1>2, <1>3, MonitorBounds DEF MonitorTypes

LEMMA MonitorStart ==
    ASSUME Punctual, MonitorInit
    PROVE  MonitorInv
<1>1. /\ lagLimit \in LagLimits /\ service = "ok" /\ streak = 0 /\ fullRun = NoFullRun /\ test = NoTest
      /\ marred = [count |-> 0, missed |-> FALSE, synced |-> TRUE, busy |-> FALSE, falseSilence |-> FALSE, storm |-> FALSE]
  BY DEF MonitorInit
<1>2. /\ ages.call = 0 /\ ages.incr = 0 /\ ages.mirror = 0 /\ ages.sample = 0
      /\ ages.stored = Cooldown /\ ages.mail = Cooldown
  BY ClockNames, MonitorBounds DEF MonitorInit
<1>3. fullRun.pc = "idle" /\ test.pc = "idle"
  BY <1>1 DEF NoFullRun, NoTest
<1>4. MonitorTypes
  BY MonitorTypesInit
<1>5. OnTime /\ Backed /\ MailKept
  BY <1>1, <1>2, <1>3, MonitorBounds DEF OnTime, Backed, MailKept
<1>6. SampleKept
  BY <1>2, <1>3, MonitorBounds DEF SampleKept, Spare, Punctual
<1>7. MirrorKept
  BY <1>1, <1>2, <1>3, MonitorBounds, MirrorWaitFits DEF MirrorKept, Spare
<1> QED
  BY <1>4, <1>5, <1>6, <1>7 DEF MonitorInv

LEMMA MonitorStutters ==
    ASSUME MonitorInv, UNCHANGED monitorVars
    PROVE  MonitorInv'
<1>1. UNCHANGED <<ages, lagLimit, service, streak, fullRun, test, marred>>
  BY DEF monitorVars
<1>2. MonitorTypes' /\ OnTime'
  BY <1>1 DEF MonitorInv, MonitorTypes, AgesKept, OnTime
<1>3. Backed' /\ SampleKept' /\ MirrorKept' /\ MailKept'
  BY <1>1 DEF MonitorInv, Backed, SampleKept, MirrorKept, Spare, MailKept
<1> QED
  BY <1>2, <1>3 DEF MonitorInv

\* With the calls on time, the sample and the mirror stay inside their limits.
LEMMA MonitorSeesAll ==
    ASSUME Punctual, MonitorInv
    PROVE  MonitorSound
<1>1. /\ ages.call \in Nat /\ ages.call <= CallEvery + 1 /\ ages.sample \in Nat /\ ages.mirror \in Nat
      /\ fullRun.ticks \in 0 .. RunTicks /\ lagLimit \in LagLimits
  BY ClockNames DEF MonitorInv, MonitorTypes, AgesKept, FullRunDoc
<1>2. SamplesInTime
  BY <1>1, MonitorBounds DEF MonitorInv, SampleKept, Spare, SamplesInTime, Punctual
<1>3. MirrorInTime
  BY <1>1, MonitorBounds, MirrorWaitFits DEF MonitorInv, MirrorKept, Spare, MirrorInTime
<1> QED
  BY <1>2, <1>3 DEF MonitorInv, Backed, MailKept, SilenceIsReal, MailsAreSpaced, MonitorSound

\* As long as the clock is punctual, a copy is not late, silence is reported when it is real, and mails
\* keep their distance (run_scheduled, emit_monitor_alerts).
THEOREM MonitorHolds == Punctual /\ MonitorSpec => []MonitorSound
<1> SUFFICES ASSUME Punctual PROVE MonitorSpec => []MonitorSound
  OBVIOUS
<1>1. MonitorInit => MonitorInv
  BY MonitorStart
<1>2. MonitorInv /\ [MonitorNext]_monitorVars => MonitorInv'
  <2> SUFFICES ASSUME MonitorInv, [MonitorNext]_monitorVars PROVE MonitorInv'
    OBVIOUS
  <2>1. CASE UNCHANGED monitorVars
    BY <2>1, MonitorStutters
  <2>2. CASE MonitorNext
    BY <2>2, MonitorTypesStep, OnTimeStep, BackedStep, SampleStep, MirrorStep, MailStep DEF MonitorInv
  <2> QED
    BY <2>1, <2>2
<1>3. MonitorInv => MonitorSound
  BY MonitorSeesAll
<1> QED
  BY <1>1, <1>2, <1>3, PTL DEF MonitorSpec

\* What is watched is kept: a turn that was recorded has its snapshots, the last certification is
\* covered, and the monitor says what it has to (_detect_milestones, run_scheduled).
THEOREM WatchHolds == Punctual /\ MilestonesSpec /\ MonitorSpec => []WatchKept
<1>1. MilestonesSpec => []MilestonesSound
  BY MilestonesHold
<1>2. Punctual /\ MonitorSpec => []MonitorSound
  BY MonitorHolds
<1>3. MilestonesSound /\ MonitorSound => WatchKept
  BY DEF WatchKept
<1> QED
  BY <1>1, <1>2, <1>3, PTL

-----------------------------------------------------------------------------
(* What the office keeps has its type throughout.                              *)

\* The numbers of candidates and certificates are those of the approvals so far.
Rows == 1 .. Approvals

VettingBounds ==
    /\ approved <= Approvals
    /\ ballot \subseteq Rows /\ certs \subseteq Rows
    /\ app.cert <= Approvals /\ archive.cert <= Approvals
    /\ \A h \in Handlers : handlers[h].doc.cert <= Approvals /\ handlers[h].row \subseteq Rows

LEMMA ApprovalsBound == Approvals \in Nat /\ NoApp.cert = 0
BY VettingAssumption DEF NoApp

LEMMA RowsFit ==
    ASSUME VettingTypes, VettingBounds, NEW h \in Handlers, NEW pc, NEW kind, NEW doc, NEW row,
           Turns(h, pc, kind, doc, row), doc.cert <= Approvals, row \subseteq Rows
    PROVE  \A g \in Handlers : handlers'[g].doc.cert <= Approvals /\ handlers'[g].row \subseteq Rows
BY DEF Turns, VettingBounds

LEMMA RowsStay ==
    ASSUME VettingTypes, VettingBounds, NEW h \in Handlers,
           \/ \E pc : Goes(h, pc)
           \/ Ends(h)
           \/ \E pc, kind : Turns(h, pc, kind, app, {}) \/ Turns(h, pc, kind, NoApp, {})
    PROVE  \A g \in Handlers : handlers'[g].doc.cert <= Approvals /\ handlers'[g].row \subseteq Rows
<1>1. handlers[h].doc.cert <= Approvals /\ handlers[h].row \subseteq Rows /\ app.cert <= Approvals
  BY DEF VettingBounds
<1>2. NoApp.cert <= Approvals
  BY ApprovalsBound
<1> QED
  BY <1>1, <1>2, RowsFit DEF Goes, Ends

\* What a handler writes under the application's number is what it was given.
LEMMA AppKeeps ==
    ASSUME app \in Applied, archive \in Applied
    PROVE  /\ \A p \in Panel, v \in Votes : [app EXCEPT !.votes[p] = v].cert = app.cert
           /\ \A b \in BOOLEAN : [app EXCEPT !.tied = b].cert = app.cert /\ [app EXCEPT !.cleared = b].cert = app.cert
           /\ HandedOver.cert = app.cert
           /\ \A s : [app EXCEPT !.status = s].cert = app.cert
           /\ \A s : [app EXCEPT !.status = s, !.override = TRUE, !.tied = FALSE].cert = app.cert
           /\ [app EXCEPT !.status = "pending", !.votes = NoVotes, !.override = FALSE, !.tied = FALSE, !.cert = 0].cert = 0
           /\ [app EXCEPT !.status = "removed", !.override = TRUE].cert = app.cert
BY DEF Applied, HandedOver

LEMMA ContinueFits ==
    ASSUME VettingTypes, VettingBounds, NEW h \in Handlers, Continue(h)
    PROVE  VettingBounds'
<1>0. /\ handlers[h] \in HandlerDoc /\ app \in Applied /\ archive \in Applied
      /\ handlers[h].row \subseteq Rows /\ app.cert <= Approvals /\ approved \in Nat /\ Approvals \in Nat
      /\ NoApp.cert <= Approvals /\ 0 <= Approvals
  BY ApprovalsBound DEF VettingTypes, VettingBounds
<1>1. ASSUME CastVote(h) PROVE VettingBounds'
  <2>1. (\E p \in Panel, v \in Votes : app' = [app EXCEPT !.votes[p] = v]) \/ app' = app
    BY <1>1, ContinueMoves
  <2>2. app'.cert = app.cert
    BY <1>0, <2>1, AppKeeps
  <2>3. Goes(h, "reread") \/ Ends(h)
    BY <1>1, ContinueMoves
  <2> QED
    BY <1>1, <2>2, <2>3, RowsStay DEF CastVote, VettingBounds
<1>2. ASSUME RereadApplication(h) \/ Resweep(h) \/ Tally(h) \/ Sweep(h) \/ TallyCloseout(h) PROVE VettingBounds'
  <2>1. UNCHANGED <<app, archive, ballot, certs, approved>>
    BY <1>2 DEF RereadApplication, Resweep, Tally, Sweep, TallyCloseout
  <2>2. (\E pc : Goes(h, pc)) \/ Ends(h) \/ \E pc, kind : Turns(h, pc, kind, app, {})
    BY <1>2, ContinueMoves
  <2> QED
    BY <2>1, <2>2, RowsStay DEF VettingBounds
<1>3. ASSUME FlagTie(h) \/ HandOver(h) PROVE VettingBounds'
  <2>1. Ends(h) /\ app'.cert = app.cert
    BY <1>0, <1>3, ContinueMoves, AppKeeps DEF FlagTie, HandOver
  <2>2. UNCHANGED <<archive, ballot, certs, approved>>
    BY <1>3 DEF FlagTie, HandOver
  <2> QED
    BY <2>1, <2>2, RowsStay DEF VettingBounds
<1>4. ASSUME Flip(h) PROVE VettingBounds'
  <2>1. app'.cert = app.cert
    BY <1>0, <1>4 DEF Flip, Applied
  <2>2. UNCHANGED <<archive, ballot, certs>>
    BY <1>4 DEF Flip
  <2>3. CASE Ends(h) /\ approved' = approved
    BY <2>1, <2>2, <2>3, RowsStay DEF VettingBounds
  <2>4. CASE approved' = approved + 1 /\ Turns(h, "candidate", handlers[h].kind, handlers[h].doc, {approved + 1})
    <3>1. approved < Approvals
      <4>1. CASE approved' = approved
        BY <1>0, <2>4, <4>1
      <4>2. CASE approved < Approvals
        BY <4>2
      <4> QED
        BY <1>4, <4>1, <4>2 DEF Flip
    <3>2. {approved + 1} \subseteq Rows /\ approved' <= Approvals
      BY <1>0, <2>4, <3>1 DEF Rows
    <3>3. handlers[h].doc.cert <= Approvals
      BY DEF VettingBounds
    <3> QED
      BY <2>1, <2>2, <2>4, <3>2, <3>3, RowsFit DEF VettingBounds
  <2> QED
    BY <1>4, <2>3, <2>4, ContinueMoves
<1>5. ASSUME CreateCandidate(h) \/ InsertCertificate(h) \/ UndoApproval(h) \/ TakeOff(h) PROVE VettingBounds'
  <2>1. ballot' \subseteq Rows /\ certs' \subseteq Rows
    BY <1>0, <1>5 DEF CreateCandidate, InsertCertificate, UndoApproval, UndoneBallot, TakeOff, VettingBounds
  <2>2. (\E pc : Goes(h, pc)) \/ Ends(h)
    BY <1>5, DecideMoves
  <2>3. UNCHANGED <<app, archive, approved>>
    BY <1>5 DEF CreateCandidate, InsertCertificate, UndoApproval, TakeOff
  <2> QED
    BY <2>1, <2>2, <2>3, RowsStay DEF VettingBounds
<1>6. ASSUME StampCertificate(h) PROVE VettingBounds'
  <2>1. PICK c \in handlers[h].row : app' = IF app.status = "gone" THEN app ELSE [app EXCEPT !.cert = c]
    BY <1>6 DEF StampCertificate
  <2>2. c \in Rows
    BY <1>0
  <2>3. app'.cert <= Approvals
    BY <1>0, <2>1, <2>2 DEF Applied, Rows
  <2>4. UNCHANGED <<archive, ballot, certs, approved>> /\ Ends(h)
    BY <1>6, DecideMoves DEF StampCertificate
  <2> QED
    BY <2>3, <2>4, RowsStay DEF VettingBounds
<1>7. ASSUME PutBack(h) \/ MarkRemoved(h) PROVE VettingBounds'
  <2>1. app'.cert = app.cert
    BY <1>0, <1>7, AppKeeps DEF PutBack, MarkRemoved
  <2>2. Ends(h) /\ UNCHANGED <<archive, ballot, approved>> /\ certs' \subseteq certs
    BY <1>7, DecideMoves DEF PutBack, MarkRemoved
  <2> QED
    BY <2>1, <2>2, RowsStay DEF VettingBounds
<1>8. ASSUME Revert(h) PROVE VettingBounds'
  <2>1. app'.cert = 0 \/ app' = app
    BY <1>0, <1>8, AppKeeps DEF Revert
  <2>2. (\E pc : Goes(h, pc)) \/ Ends(h)
    BY <1>8, DecideMoves
  <2>3. UNCHANGED <<archive, ballot, certs, approved>>
    BY <1>8 DEF Revert
  <2> QED
    BY <1>0, <2>1, <2>2, <2>3, RowsStay DEF VettingBounds
<1>9. ASSUME Delete(h) PROVE VettingBounds'
  <2>1. (app' = NoApp \/ app' = app) /\ (archive' = NoApp \/ archive' = archive) /\ UNCHANGED <<ballot, certs, approved>>
    BY <1>9 DEF Delete
  <2>2. (\E pc : Goes(h, pc)) \/ Ends(h)
    BY <1>9, DecideMoves
  <2> QED
    BY <1>0, <2>1, <2>2, RowsStay DEF VettingBounds
<1>10. ASSUME Deactivate(h) PROVE VettingBounds'
  <2>1. UNCHANGED <<app, archive, ballot, certs, approved>> /\ \E pc, kind : Turns(h, pc, kind, NoApp, {})
    BY <1>10, DecideMoves DEF Deactivate
  <2> QED
    BY <2>1, RowsStay DEF VettingBounds
<1> QED
  BY <1>1, <1>2, <1>3, <1>4, <1>5, <1>6, <1>7, <1>8, <1>9, <1>10 DEF Continue

LEMMA BeginFits ==
    ASSUME VettingTypes, VettingBounds, NEW h \in Handlers,
           \/ \E p \in Panel, v \in Votes \ {"none"} : BeginVote(h, p, v)
           \/ \E v \in Votes \ {"none"} : TieBreak(h, v) \/ CloseoutDecision(h, v)
           \/ \E p \in Panel : Activate(h, p) \/ BeginDeactivate(h, p)
           \/ \E mode \in {"soft", "hard"} : BeginDelete(h, mode)
           \/ BeginCloseout(h)
           \/ ForceApprove(h) \/ ForceClear(h) \/ BeginRevert(h) \/ RemoveCandidate(h) \/ SetPolicy(h)
    PROVE  VettingBounds'
<1>0. /\ app \in Applied /\ archive \in Applied /\ approved \in Nat /\ Approvals \in Nat
      /\ app.cert <= Approvals /\ ballot \subseteq Rows
  BY ApprovalsBound DEF VettingTypes, VettingBounds
<1>1. CASE (\E p \in Panel, v \in Votes \ {"none"} : BeginVote(h, p, v))
           \/ (\E v \in Votes \ {"none"} : TieBreak(h, v) \/ CloseoutDecision(h, v)) \/ BeginCloseout(h)
           \/ (\E p \in Panel : Activate(h, p) \/ BeginDeactivate(h, p)) \/ SetPolicy(h)
  <2>1. UNCHANGED <<app, archive, ballot, certs, approved>>
    BY <1>1, Zenon DEF BeginVote, TieBreak, CloseoutDecision, BeginCloseout, Activate, BeginDeactivate, SetPolicy
  <2>2. \E pc, kind : Turns(h, pc, kind, app, {}) \/ Turns(h, pc, kind, NoApp, {})
    BY <1>1, BeginMoves DEF Begins
  <2> QED
    BY <2>1, <2>2, RowsStay DEF VettingBounds
<1>2. ASSUME NEW mode \in {"soft", "hard"}, BeginDelete(h, mode) PROVE VettingBounds'
  <2>1. UNCHANGED <<app, ballot, certs, approved>> /\ (archive' = app \/ archive' = archive)
    BY <1>2 DEF BeginDelete
  <2>2. Turns(h, "delete", mode, app, ballot)
    BY <1>2, BeginMoves DEF Begins
  <2> QED
    BY <1>0, <2>1, <2>2, RowsFit DEF VettingBounds
<1>3. CASE ForceApprove(h)
  <2>1. UNCHANGED <<archive, ballot, certs>> /\ approved' = approved + 1 /\ approved < Approvals
    BY <1>3 DEF ForceApprove, Overriding
  <2>2. app'.cert = app.cert
    BY <1>0, <1>3, AppKeeps DEF ForceApprove
  <2>3. Turns(h, "candidate", "force", app, {approved + 1})
    BY <1>3, BeginMoves DEF Begins
  <2>4. {approved + 1} \subseteq Rows /\ approved' <= Approvals
    BY <1>0, <2>1 DEF Rows
  <2> QED
    BY <1>0, <2>1, <2>2, <2>3, <2>4, RowsFit DEF VettingBounds
<1>4. CASE ForceClear(h)
  <2>1. UNCHANGED <<archive, ballot, certs, approved>>
    BY <1>4 DEF ForceClear, Overriding
  <2>2. app'.cert = app.cert
    BY <1>0, <1>4, AppKeeps DEF ForceClear
  <2>3. Turns(h, "sweep", "none", NoApp, {})
    BY <1>4, BeginMoves DEF ForceClear
  <2> QED
    BY <2>1, <2>2, <2>3, RowsStay DEF VettingBounds
<1>5. CASE BeginRevert(h)
  <2>1. UNCHANGED <<app, archive, ballot, certs, approved>>
    BY <1>5 DEF BeginRevert, Overriding
  <2>2. PICK row \in SUBSET ballot : Turns(h, "revert", "revert", app, row)
    BY <1>5, BeginMoves
  <2> QED
    BY <1>0, <2>1, <2>2, RowsFit DEF VettingBounds
<1>6. CASE RemoveCandidate(h)
  <2>1. UNCHANGED <<app, archive, certs, approved>> /\ ballot' \subseteq ballot
    BY <1>6 DEF RemoveCandidate, Overriding
  <2>2. Turns(h, "removed", "none", NoApp, {})
    BY <1>6, BeginMoves
  <2> QED
    BY <2>1, <2>2, RowsStay DEF VettingBounds
<1> QED
  BY <1>1, <1>2, <1>3, <1>4, <1>5, <1>6

LEMMA VettingBoundsStep ==
    ASSUME VettingTypes, VettingBounds, VettingNext
    PROVE  VettingBounds'
<1>0. app \in Applied /\ archive \in Applied /\ Approvals \in Nat /\ NoApp.cert <= Approvals
  BY ApprovalsBound DEF VettingTypes
<1>1. CASE Finance
  <2>1. UNCHANGED <<archive, ballot, certs, approved>>
    BY <1>1 DEF Finance
  <2>2. app'.cert = app.cert
    BY <1>0, <1>1 DEF Applied, Finance, FinanceReject, FinanceReverse, Reversed, FinanceClear, FinanceReinstate
  <2>3. UNCHANGED handlers \/ \E h \in Handlers : Turns(h, "sweep", "none", NoApp, {})
    BY <1>1, BeginMoves DEF Finance, FinanceReject, FinanceReverse, FinanceClear, FinanceReinstate
  <2> QED
    BY <2>1, <2>2, <2>3, RowsStay DEF VettingBounds
<1>2. CASE ForceDeny \/ Restore \/ Purge
  <2>1. UNCHANGED <<ballot, certs, handlers, approved>>
    BY <1>2, Zenon DEF ForceDeny, Restore, Purge, Overriding
  <2>2. app'.cert \in {app.cert, 0} /\ (archive' = archive \/ archive' = NoApp)
    BY <1>0, <1>2, Zenon DEF ForceDeny, Restore, RestoredApp, Purge, Applied
  <2> QED
    BY <1>0, <2>1, <2>2 DEF VettingBounds
<1>3. CASE WindowEnds \/ ExtendWindow
  BY <1>3 DEF WindowEnds, ExtendWindow, VettingBounds
<1>4. ASSUME NEW h \in Handlers, FailSideEffect(h) \/ HandlerDies(h) PROVE VettingBounds'
  <2>1. UNCHANGED <<app, archive, ballot, certs, approved>>
    BY <1>4, Zenon DEF FailSideEffect, HandlerDies
  <2>2. (\E pc : Goes(h, pc)) \/ Ends(h)
    BY <1>4, DecideMoves
  <2> QED
    BY <2>1, <2>2, RowsStay DEF VettingBounds
<1> QED
  BY <1>1, <1>2, <1>3, <1>4, ContinueFits, BeginFits DEF VettingNext

\* The documents of a nomination have their types, and every certificate is one of those issued.
THEOREM VettingTyped == VettingSpec => []VettingTypeOK
<1> DEFINE Kept == VettingTypes /\ VettingBounds
<1>1. VettingInit => Kept
  <2> SUFFICES ASSUME VettingInit PROVE VettingBounds
    BY VettingTypesInit
  <2>1. \A h \in Handlers : handlers[h] = Idle
    BY DEF VettingInit
  <2>2. app.cert = 0 /\ archive.cert = 0
    BY DEF VettingInit, Submitted, NoApp
  <2> QED
    BY <2>1, <2>2, ApprovalsBound, Readings DEF VettingInit, VettingBounds
<1>2. Kept /\ [VettingNext]_vettingVars => Kept'
  <2>1. Kept /\ VettingNext => Kept'
    BY VettingTypesStep, VettingBoundsStep
  <2>2. Kept /\ UNCHANGED vettingVars => Kept'
    BY DEF vettingVars, VettingTypes, UndoIsMarked, VettingBounds
  <2> QED
    BY <2>1, <2>2
<1>3. Kept => VettingTypeOK
  <2> SUFFICES ASSUME Kept PROVE VettingTypeOK
    OBVIOUS
  <2>1. \A d \in Applied : d.cert <= Approvals => d \in Application
    BY ApprovalsBound DEF Applied, Application
  <2> QED
    BY <2>1 DEF VettingTypes, VettingBounds, VettingTypeOK, HandlerDoc, Rows
<1> HIDE DEF Kept
<1> QED
  BY <1>1, <1>2, <1>3, PTL DEF VettingSpec

\* The days are those of the clock, and the snapshots those begun.
MilestoneLimits ==
    /\ day \in 1 .. MilestoneDays /\ resultsEnd \in ResultsEnd
    /\ Len(store) <= Snapshots
    /\ milestoneRun.left \subseteq 1 .. Snapshots

LEMMA MilestoneConstants == MilestoneDays \in Nat \ {0} /\ Snapshots \in Nat
BY MilestonesAssumption

LEMMA MilestoneLimitsStep ==
    ASSUME MilestoneTypes, MilestoneLimits, MilestonesNext
    PROVE  MilestoneLimits'
<1>0. milestoneRun \in CallDoc /\ store \in Seq(Snapshot) /\ resultsEnd \in ResultsEnd /\ Len(store) \in Nat
  BY DEF MilestoneTypes, MilestoneLimits
<1>1. CASE PassDay
  BY <1>1, MilestoneConstants DEF PassDay, MilestoneLimits
<1>2. CASE SwitchElection \/ ApproveAssets \/ RecordFlags \/ LoseServer \/ MeasureFirst \/ UploadFails
  <2>1. UNCHANGED <<day, resultsEnd, store>>
    BY <1>2 DEF SwitchElection, ApproveAssets, RecordFlags, LoseServer, MeasureFirst, UploadFails
  <2>2. milestoneRun' = milestoneRun \/ milestoneRun' = NoCall \/ milestoneRun' = [NoCall EXCEPT !.pc = "look"]
    BY <1>2 DEF SwitchElection, ApproveAssets, RecordFlags, LoseServer, MeasureFirst, UploadFails, GivenUp
  <2>3. milestoneRun'.left \in {milestoneRun.left, {}}
    BY <2>2 DEF NoCall
  <2> QED
    BY <2>1, <2>3 DEF MilestoneLimits
<1>3. CASE DetectMilestones
  <2>1. UNCHANGED <<day, resultsEnd, store>> /\ milestoneRun'.left = milestoneRun.left
    BY <1>0, <1>3 DEF DetectMilestones, CallDoc
  <2> QED
    BY <2>1 DEF MilestoneLimits
<1>4. CASE BeginSnapshot
  <2>1. UNCHANGED <<day, resultsEnd>> /\ milestoneRun'.left = milestoneRun.left /\ Len(store) < Snapshots
    BY <1>0, <1>4 DEF BeginSnapshot, CallDoc
  <2>2. \E s : store' = Append(store, s)
    BY <1>4 DEF BeginSnapshot
  <2>3. Len(store') = Len(store) + 1
    BY <1>0, <2>2
  <2> QED
    BY <1>0, <2>1, <2>3, MilestoneConstants DEF MilestoneLimits
<1>5. CASE CopyAsset \/ LockAsset
  <2>1. UNCHANGED <<day, resultsEnd>> /\ milestoneRun'.left = milestoneRun.left
    BY <1>0, <1>5 DEF CopyAsset, LockAsset, CallDoc
  <2>2. Len(store') = Len(store)
    BY <1>0, <1>5 DEF CopyAsset, LockAsset
  <2> QED
    BY <2>1, <2>2 DEF MilestoneLimits
<1>6. CASE WriteManifest
  <2>1. UNCHANGED <<day, resultsEnd>> /\ milestoneRun'.left \in {milestoneRun.left, DOMAIN store}
    BY <1>0, <1>6 DEF WriteManifest, CallDoc
  <2>2. Len(store') = Len(store)
    BY <1>0, <1>6 DEF WriteManifest
  <2>3. DOMAIN store \subseteq 1 .. Snapshots
    BY <1>0, MilestoneConstants DEF MilestoneLimits
  <2> QED
    BY <2>1, <2>2, <2>3 DEF MilestoneLimits
<1>7. CASE ExtendLock
  <2>1. UNCHANGED <<day, resultsEnd>>
    BY <1>7 DEF ExtendLock
  <2>2. PICK s \in milestoneRun.left :
           \/ /\ store' = [store EXCEPT ![s].lock = milestoneRun.until]
              /\ milestoneRun' = [milestoneRun EXCEPT !.left = @ \ {s}]
           \/ milestoneRun' = NoCall /\ store' = store
    BY <1>7 DEF ExtendLock, GivenUp
  <2>3. milestoneRun'.left \subseteq milestoneRun.left
    BY <1>0, <2>2 DEF NoCall, CallDoc
  <2>4. Len(store') = Len(store)
    BY <1>0, <2>2
  <2> QED
    BY <2>1, <2>3, <2>4 DEF MilestoneLimits
<1>8. CASE EndCertified
  <2>1. UNCHANGED <<day, resultsEnd, store>> /\ milestoneRun'.left = {}
    BY <1>0, <1>8 DEF EndCertified, CallDoc
  <2> QED
    BY <2>1 DEF MilestoneLimits
<1> QED
  BY <1>1, <1>2, <1>3, <1>4, <1>5, <1>6, <1>7, <1>8 DEF MilestonesNext

\* A call has only snapshots of the store left to lock.
THEOREM MilestonesTyped == MilestonesSpec => []MilestonesTypeOK
<1> DEFINE Kept == MilestoneInv /\ MilestoneLimits
<1>1. MilestonesInit => Kept
  <2> SUFFICES ASSUME MilestonesInit PROVE MilestoneLimits
    BY MilestonesStart
  <2>1. day = 1 /\ resultsEnd \in ResultsEnd /\ Len(store) = 0 /\ milestoneRun.left = {}
    BY DEF MilestonesInit, NoCall
  <2> QED
    BY <2>1, MilestoneConstants DEF MilestoneLimits
<1>2. Kept /\ [MilestonesNext]_milestoneVars => Kept'
  <2> SUFFICES ASSUME Kept, [MilestonesNext]_milestoneVars PROVE Kept'
    OBVIOUS
  <2>1. MilestoneInv'
    BY MilestonesInvStep
  <2>2. MilestoneLimits'
    <3>1. CASE UNCHANGED milestoneVars
      BY <3>1 DEF milestoneVars, MilestoneLimits
    <3>2. CASE MilestonesNext
      BY <3>2, MilestoneLimitsStep DEF MilestoneInv
    <3> QED
      BY <3>1, <3>2
  <2> QED
    BY <2>1, <2>2
<1>3. Kept => MilestonesTypeOK
  <2> SUFFICES ASSUME Kept PROVE MilestonesTypeOK
    OBVIOUS
  <2>1. \A t \in Todos : t \in Seq(Labels)
    BY TodoFacts
  <2>2. milestoneRun \in [pc : {"idle", "look", "next", "assets", "lock", "manifest", "extend"}, todo : Seq(Labels),
                flags : Flags, until : Nat, left : SUBSET (1 .. Snapshots)]
    BY <2>1 DEF MilestoneInv, MilestoneTypes, MilestoneLimits, CallDoc, CallSteps
  <2> QED
    BY <2>2 DEF MilestoneInv, MilestoneTypes, MilestoneLimits, MilestonesTypeOK, Flags, ReportDoc
<1> HIDE DEF Kept
<1> QED
  BY <1>1, <1>2, <1>3, PTL DEF MilestonesSpec

\* The monitor's clocks stay under their caps whether or not the calls come on time.
THEOREM MonitorTyped == MonitorSpec => []MonitorTypeOK
<1>1. MonitorInit => MonitorTypes
  BY MonitorTypesInit
<1>2. MonitorTypes /\ [MonitorNext]_monitorVars => MonitorTypes'
  <2>1. MonitorTypes /\ MonitorNext => MonitorTypes'
    BY MonitorTypesStep
  <2>2. MonitorTypes /\ UNCHANGED monitorVars => MonitorTypes'
    BY DEF monitorVars, MonitorTypes, AgesKept
  <2> QED
    BY <2>1, <2>2
<1>3. MonitorTypes => MonitorTypeOK
  <2> SUFFICES ASSUME MonitorTypes PROVE MonitorTypeOK
    OBVIOUS
  <2>1. \A c \in Clocks : ages[c] \in 0 .. Cap[c]
    <3> SUFFICES ASSUME NEW c \in Clocks PROVE ages[c] \in 0 .. Cap[c]
      OBVIOUS
    <3>1. Cap[c] \in Nat
      BY ClockNames, MonitorBounds
    <3> QED
      BY <3>1 DEF MonitorTypes, AgesKept
  <2> QED
    BY <2>1 DEF MonitorTypes, MonitorTypeOK, FullRunDoc, TestDoc
<1> QED
  BY <1>1, <1>2, <1>3, PTL DEF MonitorSpec

\* The counters of uses stay counters, in memory and in both stores.
THEOREM UsageTyped == UsageSpec => []UsageTypeOK
<1>1. UsageInit => UsageInv
  BY UsageInvInit
<1>2. UsageInv /\ [UsageNext]_usageVars => UsageInv'
  BY UsageInvStep
<1>3. UsageInv => UsageTypeOK
  BY DEF UsageInv, UsageTypes, UsageTypeOK, FlightDoc, TallyDoc, CopyDoc
<1> QED
  BY <1>1, <1>2, <1>3, PTL DEF UsageSpec

-----------------------------------------------------------------------------
(* One instance of each, as the office has them (MCOffice).                    *)

LEMMA EachOfficePart ==
    Spec => /\ VettingSpec /\ RosterSpec /\ ContactSpec /\ LedgerSpec
            /\ ListSpec /\ UsageSpec /\ MilestonesSpec /\ MonitorSpec
<1>1. Init => /\ VettingInit /\ RosterInit /\ ContactInit /\ LedgerInit
              /\ ListInit /\ UsageInit /\ MilestonesInit /\ MonitorInit
  BY DEF Init
<1>2. UNCHANGED vars => UNCHANGED <<vettingVars, rosterVars, contactVars, ledgerVars, listVars, usageVars,
                                    milestoneVars, monitorVars>>
  BY DEF vars
<1>3. [Next]_vars => /\ [VettingNext]_vettingVars /\ [RosterNext]_rosterVars
                     /\ [ContactNext]_contactVars /\ [LedgerNext]_ledgerVars
                     /\ [ListNext]_listVars /\ [UsageNext]_usageVars
                     /\ [MilestonesNext]_milestoneVars /\ [MonitorNext]_monitorVars
  BY <1>2 DEF Next
<1> QED
  BY <1>1, <1>3, PTL DEF Spec, VettingSpec, RosterSpec, ContactSpec, LedgerSpec, ListSpec, UsageSpec,
                        MilestonesSpec, MonitorSpec

\* Whatever the office works on, its documents keep their types: numbers of candidates are those of approvals,
\* a record is filed under a registration number, a clock stays under its cap.
THEOREM OfficeTypeCorrect ==
    ASSUME Voters # {}
    PROVE  Spec => []OfficeTypeOK
<1>1. Init => part \in Parts
  BY DEF Init
<1>2. part \in Parts /\ [Next]_vars => (part \in Parts)'
  BY DEF Next, vars
<1>3. Spec => [](part \in Parts)
  BY <1>1, <1>2, PTL DEF Spec
<1>4. RosterSpec => []RosterTypeOK
  BY RequestsAppliedOnce, PTL
<1>5. LedgerSpec => []LedgerTypeOK
  <2>1. LedgerInv => LedgerTypeOK
    BY DEF LedgerInv
  <2> QED
    BY <2>1, LedgerAlways, PTL
<1>6. ListSpec => []ListTypeOK
  BY ListsAlwaysOrdered, PTL
<1>7. part \in Parts /\ VettingTypeOK /\ RosterTypeOK /\ ContactTypeOK /\ LedgerTypeOK /\ ListTypeOK
        /\ UsageTypeOK /\ MilestonesTypeOK /\ MonitorTypeOK => OfficeTypeOK
  BY DEF OfficeTypeOK
<1> QED
  BY <1>3, <1>4, <1>5, <1>6, <1>7, VettingTyped, ContactsTyped, UsageTyped, MilestonesTyped, MonitorTyped,
     EachOfficePart, PTL

\* The same composed of what each part promises: who is approved is on the ballot, corrections are not
\* lost, the ledger and the lists keep their order, and every use is counted once.
THEOREM OfficeHolds == Spec => [](VettingSound /\ ContactsSound /\ LedgerSound /\ ListsOrdered /\ UsageSound)
<1>1. ListSpec => []ListsOrdered
  BY ListsAlwaysOrdered, PTL
<1> QED
  BY <1>1, VettingHolds, ContactsHold, LedgerAlwaysSound, UsageHolds, EachOfficePart, PTL

\* As long as the clock is punctual, the office sees to it that the election is watched.
THEOREM OfficeWatches == Punctual /\ Spec => []WatchKept
<1>1. Punctual /\ MilestonesSpec /\ MonitorSpec => []WatchKept
  BY WatchHolds
<1> QED
  BY <1>1, EachOfficePart, PTL

==============================================================================
