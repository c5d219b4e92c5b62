------------------------------ MODULE BatteryLog ------------------------------
(***************************************************************************)
(* The battery history (src/src/battery_logger.cpp): a ring of samples and *)
(* a ring of events, both in one file, and the figures that the history    *)
(* dialog computes from them.                                              *)
(*                                                                         *)
(* The client appends while the machine sleeps, wakes, turns its screen    *)
(* off and on and gains and loses its charger.  `day' records what really  *)
(* happened in each tick of the clock, and `mishaps' what the log was not  *)
(* told or has lost, so that the figures can be held against the truth.    *)
(* The clock only goes forward.                                            *)
(***************************************************************************)
EXTENDS Integers, Sequences, FiniteSets, SequencesExt, FiniteSetsExt

CONSTANTS
  HISTORY_SIZE,  \* slots for samples
  EVENTS_SIZE,   \* slots for events
  CleanupPeriod, \* 24 hours: how long between two clean-ups of the events
  KeepPeriod,    \* 72 hours: how old an event may become
  HibernateDelay,\* how long suspend-then-hibernate suspends (systemd's sleep.conf)
  Capacities,    \* the percentages a battery can show
  States,        \* what it can do: 0 discharge, 1 charge, 2 be full
  OldLogs,       \* the logs that an earlier version may have left in ~/.yabatman
  WaysUsed,      \* the ways in which the machine is put to sleep
  MishapBound,   \* how many of the mishaps below come to pass
  TimeBound,     \* ticks of the clock
  CallBound      \* handlers per tick that write to the log, but for those that begin a sleep

ASSUME BatteryLogAssumption ==
  /\ HISTORY_SIZE \in Nat \ {0} /\ EVENTS_SIZE \in Nat \ {0}
  /\ CleanupPeriod \in Nat /\ KeepPeriod \in Nat /\ HibernateDelay \in Nat \ {0}
  /\ Capacities \subseteq 0..100 /\ States \subseteq 0..2
  /\ WaysUsed \subseteq {"SUSPEND", "SUSPEND_THEN_HIBERNATE", "HIBERNATE", "HYBRID_SUSPEND"}
  /\ {TimeBound, CallBound, MishapBound} \subseteq Nat

Ways == {"SUSPEND", "SUSPEND_THEN_HIBERNATE", "HIBERNATE", "HYBRID_SUSPEND"}
ScreenTypes == {"SCREEN_OFF", "SCREEN_ON"}
ChargerTypes == {"CHARGER_CONNECTED", "CHARGER_DISCONNECTED"}
EventTypes == Ways \cup {"POWER_OFF", "WAKE_UP"} \cup ScreenTypes \cup ChargerTypes

Times == 0..TimeBound + 1
Samples == [timestamp : Times, capacity : Capacities, charging : 0..2]
Events == [timestamp : Times, type : EventTypes]

\* What can go wrong around the log.  That events are dropped from a full log is none
\* of it.
Mishaps ==
  {"refused",   \* logind refuses a sleep
   "others",    \* others ask for a sleep
   "dark",      \* the machine sleeps with the screen off
   "slow",      \* time passes between the event of a sleep and the sleep, or between the
                \* end of the sleep and the event of that
   "late",      \* a sample is logged between the two events of a sleep, before it ends
   "unlogged",  \* the screen comes on without an event
   "dimmed",    \* a screen that was merely dimmed is logged to come on
   "ended",     \* the client ends, with or without a crash
   "unsaved"}   \* a save fails

VARIABLES
  log,      \* m_log: battery_history and system_events
  file,     \* ~/.config/yabatman/battery_history.bin
  oldFile,  \* ~/.yabatman/battery_history.bin
  client,   \* "down", "running", or in save(): "saving" before fopen, "writing" after it
  todo,     \* events that the running handler has yet to log and save
  pending,  \* the sleep that is logged and being prepared (m_actionInProgress), "woken"
            \* from the end of a sleep until the client hears of it, or "none"
  asleep,   \* the way the machine sleeps, "others" or "none"
  since,    \* since when
  dark,     \* m_screenSleeping: the client has turned the screen off
  shown,    \* m_batteryPercentage and m_chargingState, -1 until the first poll
  calls,    \* handlers that wrote to the log in this tick
  day,      \* history: what each tick of the past was
  mishaps   \* history: what went wrong since the log was last complete

vars ==
  <<log, file, oldFile, client, todo, pending, asleep, since, dark, shown, calls, day, mishaps>>
machine == <<asleep, since, dark>>
files == <<file, oldFile>>
history == <<day, mishaps>>

now == Len(day) + 1

Unseen == [percentage |-> -1, state |-> -1]

-----------------------------------------------------------------------------
(***************************************************************************)
(* The rings.                                                              *)
(***************************************************************************)
NoEntry == [timestamp |-> 0]
EmptyRing(size) == [slots |-> [i \in 0..size - 1 |-> NoEntry], next_index |-> 0, count |-> 0]

Put(ring, size, x) ==
  [slots |-> [ring.slots EXCEPT ![ring.next_index] = x],
   next_index |-> (ring.next_index + 1) % size,
   count |-> IF ring.count < size THEN ring.count + 1 ELSE ring.count]

\* A file: none, one of another size, or one that holds a log.
NoFile == [size |-> "none"]
Misfit == [size |-> "wrong"]
File(l) == [size |-> "right", log |-> l]

\* The entries of a ring, the oldest first.
InOrder(ring, size) ==
  [i \in 1..ring.count |-> ring.slots[(ring.next_index - ring.count + i - 1 + size) % size]]

\* What a log holds when it was written up to time t: rings whose entries are in the
\* order of their time.
Rings(size, entries) ==
  [slots : [0..size - 1 -> entries \cup {NoEntry}], next_index : 0..size - 1, count : 0..size]

Logs ==
  [samples : Rings(HISTORY_SIZE, Samples), events : Rings(EVENTS_SIZE, Events),
   last_cleanup : Times]

Ordered(entries) ==
  \A i, j \in DOMAIN entries : i <= j => entries[i].timestamp <= entries[j].timestamp

UpTo(t, entries) == Ordered(entries) /\ \A i \in DOMAIN entries : entries[i].timestamp <= t

WrittenBy(l, t) ==
  LET samples == InOrder(l.samples, HISTORY_SIZE)
      events == InOrder(l.events, EVENTS_SIZE)
  IN /\ l \in Logs
     /\ samples \in Seq(Samples) /\ UpTo(t, samples)
     /\ events \in Seq(Events) /\ UpTo(t, events)

\* The earlier version wrote its log in the same way, before the clock starts.
ASSUME OldLogsAssumption == \A l \in OldLogs : WrittenBy(l, 1)

\* Whether the earlier version was last told of an awake machine and a lit screen.
LeftAwake(l) ==
  LET events == InOrder(l.events, EVENTS_SIZE)
      Ended(types, by) ==
        \A i \in DOMAIN events : events[i].type \in types =>
          \E j \in DOMAIN events : j > i /\ events[j].type = by
  IN Ended(Ways \cup {"POWER_OFF"}, "WAKE_UP") /\ Ended({"SCREEN_OFF"}, "SCREEN_ON")

\* clear()
Cleared(t) ==
  [samples |-> EmptyRing(HISTORY_SIZE), events |-> EmptyRing(EVENTS_SIZE), last_cleanup |-> t]

\* The events of the last KeepPeriod, in their order.
ValidEvents(l) ==
  LET events == InOrder(l.events, EVENTS_SIZE)
      valid == {i \in DOMAIN events : events[i].timestamp >= now - KeepPeriod}
      Rank(i) == Cardinality({j \in valid : j <= i})
  IN [k \in 1..Cardinality(valid) |-> events[CHOOSE i \in valid : Rank(i) = k]]

MovedToFront(events) ==
  [i \in 0..EVENTS_SIZE - 1 |-> IF i < Len(events) THEN events[i + 1] ELSE NoEntry]

\* A slip for the mutation runs: the events move, the index does not.
CleanupKeepsIndex(l) ==
  IF now - l.last_cleanup < CleanupPeriod THEN l
  ELSE [l EXCEPT !.events = [@ EXCEPT !.slots = MovedToFront(ValidEvents(l)),
                                      !.count = Len(ValidEvents(l))],
                 !.last_cleanup = now]

\* cleanupOldEvents(): the valid events move to the front of a fresh ring.
CleanupOldEvents(l) ==
  IF now - l.last_cleanup < CleanupPeriod THEN l
  ELSE [l EXCEPT !.events = [slots |-> MovedToFront(ValidEvents(l)),
                             next_index |-> Len(ValidEvents(l)) % EVENTS_SIZE,
                             count |-> Len(ValidEvents(l))],
                 !.last_cleanup = now]

AddSample(l, capacity, charging) ==
  CleanupOldEvents([l EXCEPT !.samples =
    Put(@, HISTORY_SIZE, [timestamp |-> now, capacity |-> capacity, charging |-> charging])])

AddEvent(l, type) ==
  [l EXCEPT !.events = Put(@, EVENTS_SIZE, [timestamp |-> now, type |-> type])]

\* load(): a file of another size is deleted and the history starts anew; without
\* a file the place of the earlier versions is tried.
Load(t) ==
  CASE file = Misfit -> [log |-> Cleared(t), file |-> NoFile, oldFile |-> oldFile]
    [] file = NoFile /\ oldFile \in {NoFile, Misfit} ->
         [log |-> Cleared(t), file |-> NoFile, oldFile |-> NoFile]
    [] file = NoFile /\ oldFile \notin {NoFile, Misfit} ->
         [log |-> oldFile.log, file |-> NoFile, oldFile |-> oldFile]
    [] OTHER -> [log |-> file.log, file |-> file, oldFile |-> oldFile]

-----------------------------------------------------------------------------
(***************************************************************************)
(* The figures.                                                            *)
(***************************************************************************)
AllEvents == InOrder(log.events, EVENTS_SIZE)
AllSamples == InOrder(log.samples, HISTORY_SIZE)
Told(types) == {i \in DOMAIN AllEvents : AllEvents[i].type \in types}

\* A hybrid suspend does not end an active period ...
Sleeps == {"SUSPEND", "HIBERNATE", "SUSPEND_THEN_HIBERNATE", "POWER_OFF"}
\* (a slip for the mutation runs: nor does it cut the measuring of rates,
CutsAsIntervals == Sleeps
\* ... which in fact it does).
Cuts == Sleeps \cup {"HYBRID_SUSPEND"}

\* The state that a pair of event types tells just before `from': that of the last
\* such event, or else the opposite of what the first one later brings about.
StateBefore(from, on, off) ==
  LET told == Told(on \cup off)
      past == {i \in told : AllEvents[i].timestamp < from}
  IN CASE past # {} -> AllEvents[Max(past)].type \in on
       [] past = {} /\ told # {} -> AllEvents[Min(told)].type \in off
       [] OTHER -> TRUE

\* The intervals of from..to in which a state that holds at first lasts until an
\* event of `off'.
Intervals(from, to, holds, on, off) ==
  LET Step(s, e) ==
        CASE e.timestamp \in from..to /\ e.type \in on /\ ~s.holds ->
               [s EXCEPT !.holds = TRUE, !.start = e.timestamp]
          [] e.timestamp \in from..to /\ e.type \in off /\ s.holds ->
               [s EXCEPT !.holds = FALSE,
                         !.result = Append(@, [start |-> s.start, end |-> e.timestamp])]
          [] OTHER -> s
      after[n \in 0..Len(AllEvents)] ==
        IF n = 0 THEN [holds |-> holds, start |-> from, result |-> <<>>]
        ELSE Step(after[n - 1], AllEvents[n])
      last == after[Len(AllEvents)]
  IN IF last.holds THEN Append(last.result, [start |-> last.start, end |-> to]) ELSE last.result

CalculateActivePeriods(from, to) ==
  Intervals(from, to, StateBefore(from, {"WAKE_UP"}, Sleeps), {"WAKE_UP"}, Sleeps)

SumOf(numbers) ==
  LET sum[n \in 0..Len(numbers)] == IF n = 0 THEN 0 ELSE sum[n - 1] + numbers[n]
  IN sum[Len(numbers)]

Total(intervals) == SumOf([k \in DOMAIN intervals |-> intervals[k].end - intervals[k].start])

\* calculateScreenTimes, for the part of an active period that the screen is off.
ScreenOff(period) ==
  Total(Intervals(period.start, period.end,
                  ~StateBefore(period.start, {"SCREEN_ON"}, {"SCREEN_OFF"}),
                  {"SCREEN_OFF"}, {"SCREEN_ON"}))

CalculateScreenOff(from, to) ==
  LET periods == CalculateActivePeriods(from, to)
  IN SumOf([k \in DOMAIN periods |-> ScreenOff(periods[k])])

\* A slip for the mutation runs: the delay is counted from the start of the window.
SleepCountedAnew(way, start, end, from, to) ==
  LET begins == IF start < from THEN from ELSE start
      ends == IF end > to THEN to ELSE end
  IN IF end <= from \/ start >= to \/ way = "HIBERNATE" THEN 0
     ELSE IF way \in {"SUSPEND", "HYBRID_SUSPEND"} THEN ends - begins
     ELSE Min({ends - begins, HibernateDelay})

\* What a sleep from start to end counts for within from..to: a hibernation counts
\* for nothing, and suspend-then-hibernate until it hibernates.
SleepCounted(way, start, end, from, to) ==
  LET begins == IF start < from THEN from ELSE start
      ends == IF end > to THEN to ELSE end
      left == Max({0, HibernateDelay - (begins - start)})
  IN IF end <= from \/ start >= to \/ way = "HIBERNATE" THEN 0
     ELSE IF way \in {"SUSPEND", "HYBRID_SUSPEND"} THEN ends - begins
     ELSE Min({ends - begins, left})

\* calculateSleepTime
CalculateSleepTime(from, to) ==
  LET Step(s, e) ==
        CASE e.timestamp <= to /\ e.type \in Ways ->
               [s EXCEPT !.way = e.type, !.start = e.timestamp]
          [] e.timestamp <= to /\ e.type = "WAKE_UP" /\ s.way # "none" ->
               [way |-> "none", start |-> 0,
                total |-> s.total + SleepCounted(s.way, s.start, e.timestamp, from, to)]
          [] OTHER -> s
      after[n \in 0..Len(AllEvents)] ==
        IF n = 0 THEN [way |-> "none", start |-> 0, total |-> 0]
        ELSE Step(after[n - 1], AllEvents[n])
      last == after[Len(AllEvents)]
  IN IF to <= from THEN 0
     ELSE IF last.way = "none" THEN last.total
     ELSE last.total + SleepCounted(last.way, last.start, to, from, to)

\* The steps of getAverageRates: for each pair of neighbouring samples the time it
\* measures and whether it counts as charging (1), discharging (0) or not at all.
\* Events between the two samples decide; those before the first sample are met
\* when the first pair is.
Measured ==
  [i \in 1..Len(AllSamples) - 1 |->
     LET first == AllSamples[i]
         second == AllSamples[i + 1]
         met == {j \in DOMAIN AllEvents : /\ AllEvents[j].timestamp < second.timestamp
                                         /\ (i = 1 \/ AllEvents[j].timestamp >= first.timestamp)}
         telling == met \cap Told(Cuts \cup ChargerTypes)
         charging == CASE telling = {} -> first.charging
                       [] telling # {} /\ AllEvents[Max(telling)].type = "CHARGER_CONNECTED" -> 1
                       [] telling # {} /\ AllEvents[Max(telling)].type = "CHARGER_DISCONNECTED" -> 0
                       [] OTHER -> -1
         from == Max({first.timestamp} \cup {AllEvents[j].timestamp : j \in met})
     IN [from |-> from, to |-> second.timestamp, gained |-> second.capacity - first.capacity,
         charging |-> charging]]

Counts(m) ==
  /\ m.to > m.from
  /\ \/ m.charging = 1 /\ m.gained > 0
     \/ m.charging = 0 /\ m.gained < 0

-----------------------------------------------------------------------------
(***************************************************************************)
(* The client.  A handler is over when nothing is left to log and save.    *)
(***************************************************************************)
Mishap(m) ==
  /\ mishaps' = mishaps \cup {m}
  /\ Cardinality(mishaps' \ {"dropped"}) <= MishapBound

\* History: whether an event goes, and what else went wrong.
Remember(wrong) ==
  /\ mishaps' = mishaps \cup wrong \cup
       IF IsPrefix(AllEvents, InOrder(log'.events, EVENTS_SIZE)) THEN {} ELSE {"dropped"}
  /\ wrong # {} => Cardinality(mishaps' \ {"dropped"}) <= MishapBound
  /\ UNCHANGED day

\* Handlers run while the machine is awake: also in the nested loops and the waiting
\* that a sleep begins with, and when it wakes for a moment to hibernate.
Running ==
  /\ client = "running" /\ todo = <<>>
  /\ \/ asleep = "none"
     \/ asleep = "SUSPEND_THEN_HIBERNATE" /\ now = since + HibernateDelay

\* Most of them return when a sleep is being prepared.
Ready == Running /\ asleep = "none" /\ pending = "none" /\ calls < CallBound

\* save(): fopen empties the file, unless it fails and nothing is saved; ...
OpenFile ==
  /\ client = "saving"
  /\ \/ client' = "writing" /\ file' = Misfit /\ UNCHANGED mishaps
     \/ client' = "running" /\ file' = file /\ Mishap("unsaved")
  /\ UNCHANGED <<log, oldFile, todo, pending, machine, shown, calls, day>>

\* ... fwrite writes all of the log, or not all of it.
WriteFile ==
  /\ client = "writing"
  /\ client' = "running"
  /\ \/ file' = File(log) /\ UNCHANGED mishaps
     \/ file' = Misfit /\ Mishap("unsaved")
  /\ UNCHANGED <<log, oldFile, todo, pending, machine, shown, calls, day>>

\* The event of a charger that came or went.
ChargerEvents(oldState, state) ==
  CASE oldState \in {1, 2} /\ state = 0 -> <<"CHARGER_DISCONNECTED">>
    [] oldState = 0 /\ state \in {1, 2} -> <<"CHARGER_CONNECTED">>
    [] OTHER -> <<>>

\* checkBatteryStatus sees another percentage, or another state; when that means
\* that the charger came or went, it logs this too, and simulateUserActivity turns the
\* screen on.
BatteryChanges(capacity, state) ==
  /\ Running
  /\ calls < CallBound
  /\ shown' = [percentage |-> capacity, state |-> state]
  /\ shown' # shown
  /\ log' = AddSample(log, capacity, state)
  /\ LET events == ChargerEvents(shown.state, state)
     IN todo' = IF events # <<>> /\ dark THEN Append(events, "SCREEN_ON") ELSE events
  /\ calls' = calls + 1
  /\ client' = "saving"
  /\ Remember(IF pending \in Ways \/ asleep # "none" THEN {"late"} ELSE {})
  /\ UNCHANGED <<files, pending, machine>>

\* The event of the screen is not saved.
LogNext ==
  /\ client = "running"
  /\ todo # <<>>
  /\ log' = AddEvent(log, Head(todo))
  /\ todo' = Tail(todo)
  /\ client' = IF Head(todo) = "SCREEN_ON" THEN client ELSE "saving"
  /\ dark' = (dark /\ Head(todo) # "SCREEN_ON")
  /\ Remember({})
  /\ UNCHANGED <<files, pending, asleep, since, shown, calls>>

\* checkIdle turns the screen off or on, or brightens it after so long a time that it
\* takes it to have been off; that is not saved.
TurnScreen ==
  /\ Ready
  /\ dark' \in {~dark, FALSE}
  /\ log' = AddEvent(log, IF dark' THEN "SCREEN_OFF" ELSE "SCREEN_ON")
  /\ calls' = calls + 1
  /\ Remember(IF dark' = dark THEN {"dimmed"} ELSE {})
  /\ UNCHANGED <<files, client, todo, pending, asleep, since, shown>>

\* onResume, for an opened lid or for user activity over a screensaver, turns the
\* screen on without an event.
OnResume ==
  /\ Running
  /\ dark
  /\ dark' = FALSE
  /\ Mishap("unlogged")
  /\ UNCHANGED <<log, files, client, todo, pending, asleep, since, shown, calls, day>>

\* suspendSystem and its three siblings log first, then prepare and ask.
Sleep(way) ==
  /\ Ready
  /\ log' = AddEvent(log, way)
  /\ pending' = way
  /\ client' = "saving"
  /\ Remember({})
  /\ UNCHANGED <<files, todo, machine, shown, calls>>

\* logind refuses, or agrees and in the end the machine sleeps.
LogindAnswers ==
  /\ client = "running" /\ todo = <<>> /\ pending \in Ways
  /\ pending' = "none"
  /\ \/ /\ asleep' = pending /\ since' = now
        /\ IF dark THEN Mishap("dark") ELSE UNCHANGED mishaps
     \/ Mishap("refused") /\ UNCHANGED <<asleep, since>>
  /\ UNCHANGED <<log, files, client, todo, dark, shown, calls, day>>

\* onPrepareForShutdown(true)
PrepareForShutdown ==
  /\ Ready
  /\ client' = "saving"
  /\ UNCHANGED <<log, files, todo, pending, machine, shown, calls, history>>

\* Somebody else puts the machine to sleep: nothing is logged.
OthersSleep ==
  /\ Ready
  /\ asleep' = "others" /\ since' = now
  /\ Mishap("others")
  /\ UNCHANGED <<log, files, client, todo, pending, dark, shown, calls, day>>

\* The machine wakes; the signal PrepareForSleep(false) is on its way.
MachineWakes ==
  /\ client = "running" /\ todo = <<>> /\ asleep # "none"
  /\ asleep' = "none" /\ since' = 0 /\ pending' = "woken"
  /\ UNCHANGED <<log, files, client, todo, dark, shown, calls, history>>

\* It logs the wake-up; the screen comes on without an event.
AfterWakeActions ==
  /\ Running
  /\ pending = "woken"
  /\ log' = AddEvent(log, "WAKE_UP")
  /\ pending' = "none" /\ dark' = FALSE
  /\ calls' = calls + 1
  /\ Remember({})
  /\ UNCHANGED <<files, client, todo, asleep, since, shown>>

\* The client ends, of its own or not: nothing is saved any more.
End ==
  /\ client # "down" /\ asleep = "none"
  /\ client' = "down" /\ todo' = <<>> /\ pending' = "none" /\ dark' = FALSE
  /\ shown' = Unseen
  /\ Mishap("ended")
  /\ UNCHANGED <<log, files, asleep, since, calls, day>>

Start ==
  /\ client = "down"
  /\ client' = "running"
  /\ log' = Load(now).log /\ file' = Load(now).file /\ oldFile' = Load(now).oldFile
  /\ UNCHANGED <<todo, pending, machine, shown, calls, history>>

\* Time goes by: what the tick was like is recorded.
Tick ==
  /\ now <= TimeBound
  /\ client \in {"down", "running"} /\ todo = <<>>
  /\ IF pending = "none" THEN UNCHANGED mishaps ELSE Mishap("slow")
  /\ day' = Append(day, [slept |-> CASE asleep = "none" -> "no"
                                     [] asleep = "HIBERNATE" -> "deep"
                                     [] asleep = "SUSPEND_THEN_HIBERNATE"
                                          /\ now - since >= HibernateDelay -> "deep"
                                     [] OTHER -> "light",
                         dark |-> dark])
  /\ calls' = 0
  /\ UNCHANGED <<log, files, client, todo, pending, machine, shown>>

-----------------------------------------------------------------------------
Init ==
  /\ client = "down" /\ log = Cleared(1)
  /\ file = NoFile /\ oldFile \in {NoFile, Misfit} \cup {File(l) : l \in OldLogs}
  /\ todo = <<>> /\ pending = "none"
  /\ asleep = "none" /\ since = 0 /\ dark = FALSE /\ shown = Unseen
  /\ calls = 0 /\ day = <<>>
  /\ mishaps = IF oldFile \in {NoFile, Misfit} THEN {}
               ELSE IF LeftAwake(oldFile.log) THEN {} ELSE {"ended"}

Next ==
  \/ \E capacity \in Capacities, state \in States : BatteryChanges(capacity, state)
  \/ LogNext
  \/ TurnScreen
  \/ OnResume
  \/ \E way \in WaysUsed : Sleep(way)
  \/ LogindAnswers
  \/ OpenFile
  \/ WriteFile
  \/ PrepareForShutdown
  \/ OthersSleep
  \/ MachineWakes
  \/ AfterWakeActions
  \/ End
  \/ Start
  \/ Tick

Spec == Init /\ [][Next]_vars

-----------------------------------------------------------------------------
TypeOK ==
  /\ log \in Logs
  /\ \A f \in {file, oldFile} : f \in {NoFile, Misfit} \/ (f = File(f.log) /\ f.log \in Logs)
  /\ client \in {"down", "running", "saving", "writing"}
  /\ todo \in Seq(ChargerTypes \cup {"SCREEN_ON"})
  /\ pending \in Ways \cup {"woken", "none"}
  /\ asleep \in Ways \cup {"others", "none"}
  /\ since \in Times /\ dark \in BOOLEAN
  /\ calls \in Nat /\ mishaps \subseteq Mishaps \cup {"dropped"}

(***************************************************************************)
(* Either ring, with the file behind it, is a log of the newest entries:   *)
(* wrapping around, cleaning up, torn and failed saves and the change of   *)
(* place of the file neither reorder entries nor bring back one that was   *)
(* dropped, except for the file of the earlier version.                    *)
(***************************************************************************)
Entry(part, l) ==
  IF part = "samples" THEN InOrder(l.samples, HISTORY_SIZE) ELSE InOrder(l.events, EVENTS_SIZE)

Old(part) == IF oldFile \in {NoFile, Misfit} THEN <<>> ELSE Entry(part, oldFile.log)

Kept(part) ==
  CASE file = Misfit -> <<>>
    [] file = NoFile -> Old(part)
    [] OTHER -> Entry(part, file.log)

SampleLog == INSTANCE RecentLog WITH
  Entries <- Samples, Size <- HISTORY_SIZE, ancient <- Old("samples"),
  recent <- AllSamples, kept <- Kept("samples")

EventLog == INSTANCE RecentLog WITH
  Entries <- Events, Size <- EVENTS_SIZE, ancient <- Old("events"),
  recent <- AllEvents, kept <- Kept("events")

IsRecentLog == SampleLog!Spec /\ EventLog!Spec

-----------------------------------------------------------------------------
\* The ticks of from..to that were spent in a certain way.
Ticks(from, to, P(_)) == Cardinality({t \in from..to - 1 : P(day[t])})

\* The windows up to now for which the log still tells the state they begin in.
Windows(types) ==
  {t \in 1..now : \/ "dropped" \notin mishaps
                  \/ \E i \in Told(types) : AllEvents[i].timestamp <= t}

(***************************************************************************)
(* The sleep that the history dialog reports (battery_history_dialog.cpp)  *)
(* is the time the machine was suspended, not hibernated: for every window *)
(* that the log still covers, however the ring wrapped and was cleaned up, *)
(* as long as every sleep was the client's own, none was refused, no time  *)
(* passed between a sleep's event and the sleep, and the client did not    *)
(* end.                                                                    *)
(***************************************************************************)
PowerTypes == Ways \cup {"WAKE_UP"}

SleepReported ==
  mishaps \cap {"refused", "others", "slow", "ended"} = {} =>
    \A from \in Windows(PowerTypes) :
      CalculateSleepTime(from, now) = Ticks(from, now, LAMBDA d : d.slept = "light")

(***************************************************************************)
(* The active periods are the time awake, under the same provisos; a       *)
(* hybrid suspend counts as activity.                                      *)
(***************************************************************************)
ActivityReported ==
  mishaps \cap {"refused", "others", "slow", "ended"} = {} /\ Told({"HYBRID_SUSPEND"}) = {} =>
    \A from \in Windows(PowerTypes) :
      Total(CalculateActivePeriods(from, now)) = Ticks(from, now, LAMBDA d : d.slept = "no")

(***************************************************************************)
(* The time the screen is reported off is the time it was off; sleeping    *)
(* with the screen off spoils that and so does an opened lid, since the    *)
(* screen then comes on without an event, and so does a screen that is     *)
(* logged to come on when it was only dimmed.                              *)
(***************************************************************************)
ScreenOffReported ==
  mishaps \subseteq {"dropped", "unsaved", "late"} /\ Told({"HYBRID_SUSPEND"}) = {} =>
    \A from \in Windows(PowerTypes) \cap Windows(ScreenTypes) :
      CalculateScreenOff(from, now) = Ticks(from, now, LAMBDA d : d.slept = "no" /\ d.dark)

\* All three, for every window up to now.
TimesReported == SleepReported /\ ActivityReported /\ ScreenOffReported

(***************************************************************************)
(* The average rates are of what was gained or lost awake: a difference    *)
(* between two samples that a sleep separates counts for nothing, however  *)
(* the machine sleeps, as long as the event of that sleep is still there   *)
(* and no sample was taken after it and before the sleep ended: a charger  *)
(* that comes or goes at that time leaves a newer event, and the           *)
(* difference counts.                                                      *)
(***************************************************************************)
RatesMeasureActivity ==
  mishaps \cap {"others", "ended", "late"} = {} =>
    \A i \in DOMAIN Measured :
      LET from == AllSamples[i].timestamp
      IN Counts(Measured[i]) /\ from \in Windows(PowerTypes) =>
           \A t \in from..Measured[i].to - 1 : day[t].slept = "no"
=============================================================================
