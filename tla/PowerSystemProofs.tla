--------------------------- MODULE PowerSystemProofs ---------------------------
(***************************************************************************)
(* For every set of configurations, every backlog and every machine: the   *)
(* profile that the client believes to be in force is in force once the    *)
(* commands on their way are served, unless a calibration has told another *)
(* one past that belief, and a client that has ended leaves no freezing in *)
(* force, however often the daemon goes down and comes back.               *)
(*                                                                         *)
(* What a command changes is settled by the last command about it that is  *)
(* still on its way, first in the calls of the client's handler, then in   *)
(* the daemon's backlog, or else by what the daemon did last.  Moving a    *)
(* call from the one to the other leaves that as it is; what remains to be *)
(* shown is that each function of the members keeps the client's belief in *)
(* step with the calls that it adds.                                       *)
(***************************************************************************)
EXTENDS PowerSystem, SequenceTheorems, TLAPS

Members ==
  {"config", "phase", "calls", "chargingState", "warnSimple", "warnCrit",
   "criticalLevelReached", "powerProfile", "lastHwProfile", "lastOpmode", "wifiInitialState",
   "bluetoothInitialState", "bluetoothTimer", "calibrationActive", "actionInProgress",
   "minimalMode", "batteryTimer", "lidOpen", "powernapEnabled", "inPowernap", "bypassed"}

FreezeCall == <<"freeze_processes", TRUE>>
ThawCall == <<"freeze_processes", FALSE>>
ProfileNames == {"set_low_profile", "set_normal_profile", "set_perf_profile"}

\* The last of the commands `all' in calls, or what was before them, says `on'.
Settled(calls, on, all, old) ==
  LET relevant == {i \in DOMAIN calls : calls[i] \in all}
  IN IF relevant = {} THEN old
     ELSE \E i \in relevant : calls[i] = on /\ \A j \in relevant : j <= i

\* Profile p is in force when the backlog is served, or excused by a loss.
InForce(p) ==
  Settled(backlog, G!ProfileCommand(p), ProfileCommands, lost \/ hw.profile = ProfileOf(p))

\* What the client believes, once its own calls are served too.
Believed(m) ==
  ~m.bypassed /\ m.lastHwProfile # -1 =>
    Settled(m.calls, G!ProfileCommand(m.lastHwProfile), ProfileCommands, InForce(m.lastHwProfile))

\* Nothing else goes by the name of a profile command or of a freezing command.
Known(calls) ==
  \A i \in DOMAIN calls :
    /\ calls[i][1] \in ProfileNames => calls[i] \in ProfileCommands
    /\ calls[i][1] = "freeze_processes" => calls[i] \in {FreezeCall, ThawCall}

Queue(calls) == \E S : calls \in Seq(S)

Sound(m) ==
  /\ DOMAIN m = Members
  /\ m.config \in Configs
  /\ m.lastHwProfile \in -1..3
  /\ Queue(m.calls) /\ Known(m.calls)
  /\ Believed(m)

\* What the daemon makes of the freezing commands in its backlog.
FreezingServed ==
  mode = "up" /\ Settled(backlog, FreezeCall, {FreezeCall, ThawCall}, frozen_procs)

Frozen(calls) == Settled(calls, FreezeCall, {FreezeCall, ThawCall}, FreezingServed)

(***************************************************************************)
(* The inductive invariant.                                                *)
(***************************************************************************)
IInv ==
  /\ Sound(gui)
  /\ Queue(backlog) /\ Known(backlog)
  /\ "profile" \in DOMAIN hw
  /\ mode # "up" => backlog = <<>>
  /\ gui.phase = "exited" => ~Frozen(gui.calls)

-----------------------------------------------------------------------------
(* Commands that are appended, and the one that is taken. *)

LEMMA Appended ==
  ASSUME NEW calls, Queue(calls), NEW call
  PROVE  /\ Queue(Append(calls, call))
         /\ DOMAIN Append(calls, call) = DOMAIN calls \cup {Len(calls) + 1}
         /\ DOMAIN calls = 1..Len(calls) /\ Len(calls) \in Nat
         /\ \A i \in DOMAIN calls : Append(calls, call)[i] = calls[i]
         /\ Append(calls, call)[Len(calls) + 1] = call
<1>1. PICK S : calls \in Seq(S)
  BY DEF Queue
<1> DEFINE T == S \cup {call}
           more == Append(calls, call)
<1>2. calls \in Seq(T) /\ call \in T
  BY <1>1, SeqMonotonic
<1>3. /\ more \in Seq(T) /\ Len(more) = Len(calls) + 1
      /\ \A i \in 1..Len(calls) : more[i] = calls[i]
      /\ more[Len(calls) + 1] = call
  BY <1>2, AppendProperties
<1>4. /\ Len(calls) \in Nat /\ DOMAIN calls = 1..Len(calls)
      /\ DOMAIN more = 1..(Len(calls) + 1)
  BY <1>2, <1>3, LenProperties
<1> HIDE DEF more, T
<1> QED
  BY <1>3, <1>4 DEF Queue, more

LEMMA SettledAppended ==
  ASSUME NEW calls, Queue(calls), NEW call, NEW on, NEW all, on \in all, NEW old
  PROVE  /\ call = on => Settled(Append(calls, call), on, all, old)
         /\ call \in all \ {on} => ~Settled(Append(calls, call), on, all, old)
         /\ call \notin all =>
              (Settled(Append(calls, call), on, all, old) <=> Settled(calls, on, all, old))
<1> DEFINE more == Append(calls, call)
           last == Len(calls) + 1
           some == {i \in DOMAIN calls : calls[i] \in all}
           now == {i \in DOMAIN more : more[i] \in all}
<1>1. /\ DOMAIN more = DOMAIN calls \cup {last}
      /\ DOMAIN calls = 1..Len(calls) /\ Len(calls) \in Nat
      /\ \A i \in DOMAIN calls : more[i] = calls[i]
      /\ more[last] = call
  BY Appended
<1>2. /\ Settled(more, on, all, old) <=>
           IF now = {} THEN old ELSE \E i \in now : more[i] = on /\ \A j \in now : j <= i
      /\ Settled(calls, on, all, old) <=>
           IF some = {} THEN old ELSE \E i \in some : calls[i] = on /\ \A j \in some : j <= i
  BY DEF Settled
<1>3. CASE call \in all
  <2>1. last \in now /\ \A j \in now : j <= last
    BY <1>1, <1>3
  <2>2. \A i \in now : (\A j \in now : j <= i) => i = last
    BY <1>1, <2>1
  <2> HIDE DEF now
  <2> QED
    BY <1>1, <1>2, <1>3, <2>1, <2>2
<1>4. CASE call \notin all
  <2>1. now = some /\ \A i \in some : more[i] = calls[i]
    BY <1>1, <1>4
  <2> HIDE DEF now, some
  <2> QED
    BY <1>2, <1>4, <2>1
<1> QED
  BY <1>3, <1>4

LEMMA Taken ==
  ASSUME NEW calls, Queue(calls), calls # <<>>
  PROVE  /\ Queue(Tail(calls))
         /\ Len(calls) \in Nat \ {0}
         /\ DOMAIN calls = 1..Len(calls) /\ DOMAIN Tail(calls) = 1..(Len(calls) - 1)
         /\ \A i \in 1..(Len(calls) - 1) : Tail(calls)[i] = calls[i + 1]
         /\ Head(calls) = calls[1]
<1>1. PICK S : calls \in Seq(S)
  BY DEF Queue
<1>2. /\ Tail(calls) \in Seq(S) /\ Len(Tail(calls)) = Len(calls) - 1
      /\ \A i \in 1..Len(Tail(calls)) : Tail(calls)[i] = calls[i + 1]
      /\ Head(calls) = calls[1]
  BY <1>1, HeadTailProperties
<1>3. /\ DOMAIN calls = 1..Len(calls) /\ Len(calls) \in Nat \ {0}
      /\ DOMAIN Tail(calls) = 1..(Len(calls) - 1)
  BY <1>1, <1>2, LenProperties, EmptySeq
<1> QED
  BY <1>2, <1>3 DEF Queue

\* The first command is the oldest: it counts as what was before the others.
LEMMA SettledTaken ==
  ASSUME NEW calls, Queue(calls), calls # <<>>, NEW on, NEW all, NEW old
  PROVE  /\ Head(calls) \notin all =>
              (Settled(calls, on, all, old) <=> Settled(Tail(calls), on, all, old))
         /\ Head(calls) \in all =>
              (Settled(calls, on, all, old) <=> Settled(Tail(calls), on, all, Head(calls) = on))
<1> DEFINE rest == Tail(calls)
           some == {i \in DOMAIN calls : calls[i] \in all}
           left == {i \in DOMAIN rest : rest[i] \in all}
<1>1. /\ Len(calls) \in Nat \ {0}
      /\ DOMAIN calls = 1..Len(calls) /\ DOMAIN rest = 1..(Len(calls) - 1)
      /\ \A i \in 1..(Len(calls) - 1) : rest[i] = calls[i + 1]
      /\ Head(calls) = calls[1]
  BY Taken
<1>2. /\ Settled(calls, on, all, old) <=>
           IF some = {} THEN old ELSE \E i \in some : calls[i] = on /\ \A j \in some : j <= i
      /\ \A was : Settled(rest, on, all, was) <=>
           IF left = {} THEN was ELSE \E i \in left : rest[i] = on /\ \A j \in left : j <= i
  BY DEF Settled
<1>3. /\ \A i \in left : i \in Nat \ {0} /\ i + 1 \in some /\ rest[i] = calls[i + 1]
      /\ \A i \in some : i \in Nat \ {0}
      /\ \A i \in some : i # 1 => i - 1 \in left /\ rest[i - 1] = calls[i]
      /\ 1 \in some <=> Head(calls) \in all
      /\ 1 \in some => calls[1] = Head(calls)
  BY <1>1
<1> HIDE DEF some, left, rest
<1>4. ASSUME left # {}
      PROVE  /\ some # {}
             /\ (\E i \in some : calls[i] = on /\ \A j \in some : j <= i)
                  <=> (\E i \in left : rest[i] = on /\ \A j \in left : j <= i)
  <2>1. PICK k : k \in left
    BY <1>4
  <2>2. ASSUME NEW i \in some, calls[i] = on, \A j \in some : j <= i
        PROVE  \E l \in left : rest[l] = on /\ \A j \in left : j <= l
    <3>1. i # 1
      BY <1>3, <2>1, <2>2
    <3>2. i - 1 \in left /\ rest[i - 1] = on
      BY <1>3, <2>2, <3>1
    <3>3. \A j \in left : j <= i - 1
      BY <1>3, <2>2
    <3> QED
      BY <3>2, <3>3
  <2>3. ASSUME NEW i \in left, rest[i] = on, \A j \in left : j <= i
        PROVE  \E l \in some : calls[l] = on /\ \A j \in some : j <= l
    <3>1. i + 1 \in some /\ calls[i + 1] = on
      BY <1>3, <2>3
    <3>2. ASSUME NEW j \in some PROVE j <= i + 1
      <4>1. CASE j = 1
        BY <1>3, <4>1
      <4>2. CASE j # 1
        <5>1. j - 1 \in left
          BY <1>3, <4>2
        <5>2. j - 1 <= i
          BY <2>3, <5>1
        <5> QED
          BY <1>3, <5>2
      <4> QED
        BY <4>1, <4>2
    <3> QED
      BY <3>1, <3>2
  <2> QED
    BY <1>3, <2>1, <2>2, <2>3
<1>5. ASSUME left = {}
      PROVE  some = IF Head(calls) \in all THEN {1} ELSE {}
  BY <1>3, <1>5
<1>6. CASE left # {}
  BY <1>2, <1>4, <1>6 DEF rest
<1>7. CASE left = {} /\ Head(calls) \in all
  <2>1. some = {1} /\ 1 <= 1
    BY <1>5, <1>7
  <2>2. Settled(calls, on, all, old) <=> Head(calls) = on
    BY <1>2, <1>3, <2>1
  <2>3. Settled(rest, on, all, Head(calls) = on) <=> Head(calls) = on
    BY <1>2, <1>7
  <2> QED
    BY <1>7, <2>2, <2>3 DEF rest
<1>8. CASE left = {} /\ Head(calls) \notin all
  <2>1. some = {}
    BY <1>5, <1>8
  <2> QED
    BY <1>2, <1>8, <2>1 DEF rest
<1> QED
  BY <1>6, <1>7, <1>8

LEMMA SettledMonotone ==
  ASSUME NEW calls, NEW on, NEW all, NEW old, NEW new, old => new, Settled(calls, on, all, old)
  PROVE  Settled(calls, on, all, new)
BY DEF Settled

LEMMA SettledEmpty ==
  ASSUME NEW on, NEW all, NEW old
  PROVE  Settled(<<>>, on, all, old) <=> old
<1>1. DOMAIN <<>> = {}
  OBVIOUS
<1> QED
  BY <1>1 DEF Settled

LEMMA KnownCommands ==
  /\ Queue(<<>>) /\ Known(<<>>)
  /\ \A calls, call :
       Queue(calls) /\ Known(calls) /\ Known(<<call>>) => Known(Append(calls, call))
  /\ \A calls :
       Queue(calls) /\ calls # <<>> /\ Known(calls) => Known(Tail(calls)) /\ Known(<<Head(calls)>>)
<1>1. Queue(<<>>) /\ Known(<<>>)
  <2>1. DOMAIN <<>> = {}
    OBVIOUS
  <2> QED
    BY <2>1, EmptySeq DEF Queue, Known
<1>2. ASSUME NEW calls, NEW call, Queue(calls), Known(calls), Known(<<call>>)
      PROVE  Known(Append(calls, call))
  <2>1. /\ DOMAIN Append(calls, call) = DOMAIN calls \cup {Len(calls) + 1}
        /\ \A i \in DOMAIN calls : Append(calls, call)[i] = calls[i]
        /\ Append(calls, call)[Len(calls) + 1] = call
    BY <1>2, Appended
  <2>2. 1 \in DOMAIN <<call>> /\ <<call>>[1] = call
    OBVIOUS
  <2> QED
    BY <1>2, <2>1, <2>2 DEF Known
<1>3. ASSUME NEW calls, Queue(calls), calls # <<>>, Known(calls)
      PROVE  Known(Tail(calls)) /\ Known(<<Head(calls)>>)
  <2>1. /\ Len(calls) \in Nat \ {0}
        /\ DOMAIN calls = 1..Len(calls) /\ DOMAIN Tail(calls) = 1..(Len(calls) - 1)
        /\ \A i \in 1..(Len(calls) - 1) : Tail(calls)[i] = calls[i + 1]
        /\ Head(calls) = calls[1]
    BY <1>3, Taken
  <2>2. DOMAIN <<Head(calls)>> = {1} /\ <<Head(calls)>>[1] = Head(calls)
    OBVIOUS
  <2> QED
    BY <1>3, <2>1, <2>2 DEF Known
<1> QED
  BY <1>1, <1>2, <1>3
-----------------------------------------------------------------------------
(* The functions of the members: each keeps the belief in step with its calls. *)

\* In a handler the client runs, or starts to.
Live(m) == Sound(m) /\ m.phase \in {"new", "running"}

Mild(name) == name \notin ProfileNames \cup {"freeze_processes"}

LEMMA MildNames ==
  /\ Mild("set_webcam_power") /\ Mild("toggle_ethernet") /\ Mild("shutdown")
  /\ Mild("set_cpu_driver_opmode") /\ Mild("set_eco_freq_cap")
  /\ Mild("set_balanced_usb_autosuspend") /\ Mild("set_ultra_perf_mode")
  /\ Mild("set_charge_limit") /\ Mild("disable_cpu_cores") /\ Mild("reenable_cpu_cores")
  /\ Mild("set_rfkill_wifi") /\ Mild("set_rfkill_bluetooth")
  /\ Mild("set_procs_whitelist") /\ Mild("set_procs_blacklist")
  /\ Mild("set_whitelist") /\ Mild("set_blacklist") /\ Mild("logind")
  /\ Mild("freeze_services_dbus") /\ Mild("unfreeze_all_frozen_services")
BY DEF Mild, ProfileNames

LEMMA EachProfileCommand ==
  /\ G!Profiles = 0..3
  /\ G!ProfileCommand(0) = <<"set_low_profile", FALSE>>
  /\ G!ProfileCommand(1) = <<"set_normal_profile", "-">>
  /\ G!ProfileCommand(2) = <<"set_perf_profile", "-">>
  /\ G!ProfileCommand(3) = <<"set_low_profile", TRUE>>
<1>1. 0 # 1 /\ 0 # 2 /\ 0 # 3 /\ 1 # 2 /\ 1 # 3 /\ 2 # 3
  OBVIOUS
<1>2. G!ProfileCommand(0) = <<"set_low_profile", FALSE>>
  BY <1>1, Zenon DEF G!ProfileCommand
<1>3. G!ProfileCommand(1) = <<"set_normal_profile", "-">>
  BY DEF G!ProfileCommand
<1>4. G!ProfileCommand(2) = <<"set_perf_profile", "-">>
  BY DEF G!ProfileCommand
<1>5. G!ProfileCommand(3) = <<"set_low_profile", TRUE>>
  BY <1>1, Zenon DEF G!ProfileCommand
<1> QED
  BY <1>2, <1>3, <1>4, <1>5 DEF G!Profiles

LEMMA ProfileCommandNames ==
  /\ \A p \in G!Profiles : G!ProfileCommand(p) \in ProfileCommands
  /\ \A call \in ProfileCommands : call[1] \in ProfileNames
<1>1. \A p \in G!Profiles : G!ProfileCommand(p)[1] \in ProfileNames
  <2>1. ASSUME NEW p \in G!Profiles PROVE p = 0 \/ p = 1 \/ p = 2 \/ p = 3
    BY EachProfileCommand
  <2> QED
    BY <2>1, EachProfileCommand DEF ProfileNames
<1> QED
  BY <1>1 DEF ProfileCommands

LEMMA KnownOne ==
  ASSUME NEW call,
         call[1] \in ProfileNames => call \in ProfileCommands,
         call[1] = "freeze_processes" => call \in {FreezeCall, ThawCall}
  PROVE  Known(<<call>>)
<1>1. DOMAIN <<call>> = {1} /\ <<call>>[1] = call
  OBVIOUS
<1> QED
  BY <1>1 DEF Known

\* A member that the belief does not depend on, or a belief that is given up.
LEMMA OtherMember ==
  ASSUME NEW m, Live(m), NEW n, DOMAIN n = Members,
         n.calls = m.calls, n.config \in Configs, n.phase \in {"new", "running"},
         n.lastHwProfile \in {m.lastHwProfile, -1}, n.bypassed = m.bypassed
  PROVE  Live(n)
<1>1. CASE n.lastHwProfile = -1
  BY <1>1 DEF Live, Sound, Believed
<1>2. CASE n.lastHwProfile = m.lastHwProfile /\ n.bypassed = m.bypassed
  BY <1>2 DEF Live, Sound, Believed
<1> QED
  BY <1>1, <1>2

LEMMA CallSound ==
  ASSUME NEW m, Sound(m), NEW name, NEW arg,
         Mild(name) \/ <<name, arg>> \in {FreezeCall, ThawCall}
  PROVE  /\ Sound(G!Call(m, name, arg)) /\ G!Call(m, name, arg).phase = m.phase
         /\ G!Call(m, name, arg).calls = Append(m.calls, <<name, arg>>)
<1> DEFINE call == <<name, arg>>
           n == G!Call(m, name, arg)
           on == G!ProfileCommand(m.lastHwProfile)
<1>1. /\ DOMAIN n = Members /\ n.config = m.config
      /\ n.lastHwProfile = m.lastHwProfile /\ n.bypassed = m.bypassed
      /\ n.phase = m.phase /\ n.calls = Append(m.calls, call)
  BY DEF G!Call, Sound, Members
<1>2. call[1] = name
  OBVIOUS
<1>3. name \notin ProfileNames /\ (name = "freeze_processes" => call \in {FreezeCall, ThawCall})
  <2>1. FreezeCall[1] = "freeze_processes" /\ ThawCall[1] = "freeze_processes"
    BY DEF FreezeCall, ThawCall
  <2>2. CASE Mild(name)
    BY <2>2 DEF Mild
  <2>3. CASE call \in {FreezeCall, ThawCall}
    BY <1>2, <2>1, <2>3 DEF ProfileNames
  <2> QED
    BY <2>2, <2>3
<1>4. Queue(m.calls) /\ Known(m.calls)
  BY DEF Sound
<1> HIDE DEF call, n, on
<1>5. call \notin ProfileCommands
  BY <1>2, <1>3, ProfileCommandNames
<1>6. Queue(n.calls) /\ Known(n.calls)
  <2>1. Known(<<call>>)
    BY <1>2, <1>3, KnownOne
  <2>2. Queue(Append(m.calls, call)) /\ Known(Append(m.calls, call))
    BY <1>4, <2>1, Appended, KnownCommands
  <2> QED
    BY <1>1, <2>2
<1>7. ASSUME ~m.bypassed, m.lastHwProfile # -1
      PROVE  Settled(n.calls, on, ProfileCommands, InForce(m.lastHwProfile))
  <2>1. m.lastHwProfile \in G!Profiles
    BY <1>7, EachProfileCommand DEF Sound
  <2>2. on \in ProfileCommands
    BY <2>1, ProfileCommandNames DEF on
  <2>3. Settled(m.calls, on, ProfileCommands, InForce(m.lastHwProfile))
    BY <1>7 DEF Sound, Believed, on
  <2> QED
    BY <1>1, <1>4, <1>5, <2>2, <2>3, SettledAppended
<1>8. Sound(n)
  BY <1>1, <1>6, <1>7 DEF Sound, Believed, on
<1> QED
  BY <1>1, <1>8 DEF n, call

LEMMA CallLive ==
  ASSUME NEW m, Live(m)
  PROVE  /\ \A name, arg : Mild(name) => /\ Live(G!Call(m, name, arg))
                                         /\ \A b : Live(G!CallIf(b, m, name, arg))
         /\ \A b : Live(G!CallIf(b, m, "freeze_processes", FALSE))
         /\ Live(G!Call(m, "freeze_processes", TRUE)) /\ Live(G!Call(m, "freeze_processes", FALSE))
         /\ \A state : Live(G!SetWifi(m, state)) /\ Live(G!SetBluetooth(m, state))
<1>1. ASSUME NEW name, NEW arg, Mild(name) \/ <<name, arg>> \in {FreezeCall, ThawCall}
      PROVE  Live(G!Call(m, name, arg))
  BY <1>1, CallSound DEF Live
<1>2. Live(G!Call(m, "freeze_processes", TRUE)) /\ Live(G!Call(m, "freeze_processes", FALSE))
  BY <1>1 DEF FreezeCall, ThawCall
<1>3. \A state : Live(G!SetWifi(m, state)) /\ Live(G!SetBluetooth(m, state))
  BY <1>1, MildNames DEF G!SetWifi, G!SetBluetooth
<1> QED
  BY <1>1, <1>2, <1>3 DEF G!CallIf

LEMMA SetProfileLive ==
  ASSUME NEW m, Live(m), NEW p \in G!Profiles
  PROVE  Live(G!SetProfile(m, p))
<1> DEFINE call == G!ProfileCommand(p)
           n == [m EXCEPT !.lastHwProfile = p,
                          !.bypassed = FALSE,
                          !.powerProfile = IF p = 3 THEN 0 ELSE p,
                          !.calls = Append(@, call)]
<1>1. G!SetProfile(m, p) = IF p = m.lastHwProfile THEN m ELSE n
  BY DEF G!SetProfile
<1>2. /\ DOMAIN n = Members /\ n.config = m.config /\ n.lastHwProfile = p
      /\ n.phase = m.phase /\ n.calls = Append(m.calls, call) /\ ~n.bypassed
  BY DEF Live, Sound, Members
<1>3. call \in ProfileCommands
  BY ProfileCommandNames
<1>4. Known(<<call>>)
  <2>1. "freeze_processes" \notin ProfileNames
    BY DEF ProfileNames
  <2> QED
    BY <1>3, <2>1, ProfileCommandNames, KnownOne
<1>5. Queue(m.calls) /\ Known(m.calls)
  BY DEF Live, Sound
<1> HIDE DEF n, call
<1>6. Queue(n.calls) /\ Known(n.calls)
  BY <1>2, <1>4, <1>5, Appended, KnownCommands
<1>7. Settled(n.calls, call, ProfileCommands, InForce(p))
  BY <1>2, <1>3, <1>5, SettledAppended
<1>8. p \in -1..3
  BY EachProfileCommand
<1>9. Live(n)
  BY <1>2, <1>6, <1>7, <1>8 DEF Live, Sound, Believed, call
<1> QED
  BY <1>1, <1>9

\* A calibration gives the belief up; nothing is to be shown of what it tells.
LEMMA CalibrationTellsLive ==
  ASSUME NEW m, Live(m), NEW p \in G!Profiles
  PROVE  Live(G!CalibrationTells(m, p))
<1> DEFINE call == G!ProfileCommand(p)
           n == [m EXCEPT !.bypassed = TRUE, !.calls = Append(@, call)]
<1>1. G!CalibrationTells(m, p) = n
  BY DEF G!CalibrationTells
<1>2. /\ DOMAIN n = Members /\ n.config = m.config /\ n.lastHwProfile = m.lastHwProfile
      /\ n.phase = m.phase /\ n.calls = Append(m.calls, call) /\ n.bypassed
  BY DEF Live, Sound, Members
<1>3. call \in ProfileCommands
  BY ProfileCommandNames
<1>4. Known(<<call>>)
  <2>1. "freeze_processes" \notin ProfileNames
    BY DEF ProfileNames
  <2> QED
    BY <1>3, <2>1, ProfileCommandNames, KnownOne
<1>5. Queue(m.calls) /\ Known(m.calls)
  BY DEF Live, Sound
<1> HIDE DEF n, call
<1>6. Queue(n.calls) /\ Known(n.calls)
  BY <1>2, <1>4, <1>5, Appended, KnownCommands
<1>7. Live(n)
  BY <1>2, <1>6 DEF Live, Sound, Believed
<1> QED
  BY <1>1, <1>7

LEMMA HeardLive ==
  ASSUME NEW m, Live(m), NEW percent, NEW p \in G!Wanted(m, percent)
  PROVE  Live(G!Heard(m, p))
<1>1. CASE p = -1
  BY <1>1 DEF G!Heard
<1>2. CASE p # -1
  <2>1. p \in G!Profiles
    BY <1>2, EachProfileCommand DEF G!Wanted
  <2> QED
    BY <1>2, <2>1, CalibrationTellsLive DEF G!Heard
<1> QED
  BY <1>1, <1>2

LEMMA AdjustProfileLive ==
  ASSUME NEW m, Live(m)
  PROVE  Live(G!AdjustProfile(m))
<1> DEFINE opmode == IF G!OnMains(m) THEN 1 ELSE 0
           told == G!Call(m, "set_cpu_driver_opmode", G!OnMains(m))
           eth == G!CallIf(m.config.disable_eth = 2, told, "toggle_ethernet", G!OnMains(m))
           fresh == [eth EXCEPT !.lastOpmode = opmode,
                                !.lastHwProfile = IF opmode # m.lastOpmode THEN -1 ELSE @]
<1>1. \/ G!AdjustProfile(m) = fresh
      \/ \E p \in G!Profiles : G!AdjustProfile(m) = G!SetProfile(fresh, p)
  <2>1. {m.config.bat_power_profile, m.config.ac_power_profile, m.config.ac_full_power_profile}
          \subseteq G!Profiles /\ {1, 3} \subseteq G!Profiles
    BY SystemAssumption, EachProfileCommand DEF Live, Sound
  <2> QED
    BY <2>1 DEF G!AdjustProfile
<1>2. Live(told)
  BY CallLive, MildNames
<1> HIDE DEF told
<1>3. Live(eth)
  BY <1>2, CallLive, MildNames
<1> HIDE DEF eth
<1>4. /\ DOMAIN fresh = Members /\ fresh.calls = eth.calls /\ fresh.config = eth.config
      /\ fresh.phase = eth.phase /\ fresh.lastHwProfile \in {eth.lastHwProfile, -1}
      /\ fresh.bypassed = eth.bypassed
  BY <1>3 DEF Live, Sound, Members
<1> HIDE DEF fresh
<1>5. Live(fresh)
  BY <1>3, <1>4, OtherMember DEF Live, Sound
<1> QED
  BY <1>1, <1>5, SetProfileLive
-----------------------------------------------------------------------------
(* Going to sleep, and the lid. *)

LEMMA MinimalModeLive ==
  ASSUME NEW m, Live(m)
  PROVE  Live(G!EnterMinimalMode(m)) /\ Live(G!ExitMinimalMode(m))
<1>1. Live(G!EnterMinimalMode(m))
  <2> DEFINE wifi == G!SetWifi(m, 0)
             bt == G!SetBluetooth(wifi, 0)
             quiet == G!Call(bt, "set_webcam_power", FALSE)
             low == G!SetProfile(quiet, 3)
             off == G!Call(low, "disable_cpu_cores", "-")
             n == [off EXCEPT !.minimalMode = TRUE]
  <2>1. G!EnterMinimalMode(m) = n
    BY DEF G!EnterMinimalMode
  <2>2. Live(wifi)
    BY CallLive
  <2> HIDE DEF wifi
  <2>3. Live(bt)
    BY <2>2, CallLive
  <2> HIDE DEF bt
  <2>4. Live(quiet)
    BY <2>3, CallLive, MildNames
  <2> HIDE DEF quiet
  <2>5. Live(low)
    BY <2>4, SetProfileLive, EachProfileCommand
  <2> HIDE DEF low
  <2>6. Live(off)
    BY <2>5, CallLive, MildNames
  <2> HIDE DEF off
  <2>7. /\ DOMAIN n = Members /\ n.calls = off.calls /\ n.config = off.config
        /\ n.phase = off.phase /\ n.lastHwProfile = off.lastHwProfile /\ n.bypassed = off.bypassed
    BY <2>6 DEF Live, Sound, Members
  <2> HIDE DEF n
  <2> QED
    BY <2>1, <2>6, <2>7, OtherMember DEF Live, Sound
<1>2. Live(G!ExitMinimalMode(m))
  <2> DEFINE on == G!Call(m, "reenable_cpu_cores", "-")
             seen == G!Call(on, "set_webcam_power", TRUE)
             n == [seen EXCEPT !.minimalMode = FALSE]
  <2>1. G!ExitMinimalMode(m) = IF m.minimalMode THEN n ELSE m
    BY DEF G!ExitMinimalMode
  <2>2. Live(on)
    BY CallLive, MildNames
  <2> HIDE DEF on
  <2>3. Live(seen)
    BY <2>2, CallLive, MildNames
  <2> HIDE DEF seen
  <2>4. /\ DOMAIN n = Members /\ n.calls = seen.calls /\ n.config = seen.config
        /\ n.phase = seen.phase /\ n.lastHwProfile = seen.lastHwProfile
        /\ n.bypassed = seen.bypassed
    BY <2>3 DEF Live, Sound, Members
  <2> HIDE DEF n
  <2> QED
    BY <2>1, <2>3, <2>4, OtherMember DEF Live, Sound
<1> QED
  BY <1>1, <1>2

LEMMA PrepareSuspendGeneralLive ==
  ASSUME NEW m, Live(m), NEW hibernate, NEW radios
  PROVE  Live(G!PrepareSuspendGeneral(m, hibernate, radios))
<1> DEFINE still == [m EXCEPT
             !.batteryTimer = FALSE,
             !.wifiInitialState = IF @ = -1 THEN radios.wifi ELSE @,
             !.bluetoothInitialState = IF @ = -1 THEN radios.bluetooth ELSE @]
           cores == G!Call(still, "reenable_cpu_cores", "-")
           fast == G!SetProfile(cores, 2)
<1>1. G!PrepareSuspendGeneral(m, hibernate, radios) \in {fast, G!EnterMinimalMode(still), still}
  BY DEF G!PrepareSuspendGeneral
<1>2. /\ DOMAIN still = Members /\ still.calls = m.calls /\ still.config = m.config
      /\ still.phase = m.phase /\ still.lastHwProfile = m.lastHwProfile
      /\ still.bypassed = m.bypassed
  BY DEF Live, Sound, Members
<1> HIDE DEF still
<1>3. Live(still)
  BY <1>2, OtherMember DEF Live, Sound
<1>4. Live(cores)
  BY <1>3, CallLive, MildNames
<1> HIDE DEF cores
<1>5. Live(fast)
  BY <1>4, SetProfileLive, EachProfileCommand
<1> HIDE DEF fast
<1>6. Live(G!EnterMinimalMode(still))
  BY <1>3, MinimalModeLive
<1> QED
  BY <1>1, <1>3, <1>5, <1>6

LEMMA SleepLive ==
  ASSUME NEW m, Live(m), NEW way, NEW radios
  PROVE  Live(G!Sleep(m, way, radios))
<1> DEFINE acting == [m EXCEPT !.actionInProgress = TRUE]
           prepared == G!PrepareSuspendGeneral(acting, way = "hibernate", radios)
           n == G!Call(prepared, "logind", way)
<1>1. G!Sleep(m, way, radios) = IF m.actionInProgress THEN m ELSE n
  BY DEF G!Sleep
<1>2. /\ DOMAIN acting = Members /\ acting.calls = m.calls /\ acting.config = m.config
      /\ acting.phase = m.phase /\ acting.lastHwProfile = m.lastHwProfile
      /\ acting.bypassed = m.bypassed
  BY DEF Live, Sound, Members
<1> HIDE DEF acting
<1>3. Live(acting)
  BY <1>2, OtherMember DEF Live, Sound
<1>4. Live(prepared)
  BY <1>3, PrepareSuspendGeneralLive
<1> HIDE DEF prepared
<1>5. Live(n)
  BY <1>4, CallLive, MildNames
<1> HIDE DEF n
<1> QED
  BY <1>1, <1>5

LEMMA RestoreRadiosLive ==
  ASSUME NEW m, Live(m)
  PROVE  Live(G!RestoreRadios(m))
<1> DEFINE wifi == IF m.wifiInitialState # -1 THEN G!SetWifi(m, m.wifiInitialState) ELSE m
<1>1. Live(wifi)
  BY CallLive
<1>2. G!RestoreRadios(m) \in {G!SetBluetooth(wifi, m.bluetoothInitialState), wifi}
  BY DEF G!RestoreRadios
<1> HIDE DEF wifi
<1> QED
  BY <1>1, <1>2, CallLive

LEMMA EnterPowernapLive ==
  ASSUME NEW m, Live(m), NEW radios
  PROVE  Live(G!EnterPowernap(m, radios))
<1> DEFINE marked == [m EXCEPT !.bluetoothInitialState = IF @ = -1 THEN radios.bluetooth ELSE @]
           off == G!SetBluetooth(marked, 0)
           bt == IF m.config.ac_lid_powernap_mode_disable_bt THEN off ELSE m
           marked2 == [bt EXCEPT !.wifiInitialState = IF @ = -1 THEN radios.wifi ELSE @]
           off2 == G!SetWifi(marked2, 0)
           wifi == IF m.config.ac_lid_powernap_mode_disable_wifi THEN off2 ELSE bt
           low == G!SetProfile(wifi, 0)
           nap == [low EXCEPT !.inPowernap = TRUE, !.batteryTimer = TRUE]
<1>1. G!EnterPowernap(m, radios) = nap
  BY DEF G!EnterPowernap
<1>2. /\ DOMAIN marked = Members /\ marked.calls = m.calls /\ marked.config = m.config
      /\ marked.phase = m.phase /\ marked.lastHwProfile = m.lastHwProfile
      /\ marked.bypassed = m.bypassed
  BY DEF Live, Sound, Members
<1> HIDE DEF marked
<1>3. Live(marked)
  BY <1>2, OtherMember DEF Live, Sound
<1>4. Live(bt)
  BY <1>3, CallLive
<1> HIDE DEF bt
<1>5. /\ DOMAIN marked2 = Members /\ marked2.calls = bt.calls /\ marked2.config = bt.config
      /\ marked2.phase = bt.phase /\ marked2.lastHwProfile = bt.lastHwProfile
      /\ marked2.bypassed = bt.bypassed
  BY <1>4 DEF Live, Sound, Members
<1> HIDE DEF marked2
<1>6. Live(marked2)
  BY <1>4, <1>5, OtherMember DEF Live, Sound
<1>7. Live(wifi)
  BY <1>4, <1>6, CallLive
<1> HIDE DEF wifi
<1>8. Live(low)
  BY <1>7, SetProfileLive, EachProfileCommand
<1> HIDE DEF low
<1>9. /\ DOMAIN nap = Members /\ nap.calls = low.calls /\ nap.config = low.config
      /\ nap.phase = low.phase /\ nap.lastHwProfile = low.lastHwProfile
      /\ nap.bypassed = low.bypassed
  BY <1>8 DEF Live, Sound, Members
<1> HIDE DEF nap
<1> QED
  BY <1>1, <1>8, <1>9, OtherMember DEF Live, Sound

LEMMA LidClosedLive ==
  ASSUME NEW m, Live(m), NEW radios
  PROVE  Live(G!LidClosed(m, radios))
<1> DEFINE still == [m EXCEPT !.batteryTimer = FALSE]
           timer == [still EXCEPT !.batteryTimer = TRUE]
<1>1. \/ G!LidClosed(m, radios) \in {m, timer, G!EnterPowernap(still, radios)}
      \/ \E way : G!LidClosed(m, radios) = G!Sleep(still, way, radios)
  BY DEF G!LidClosed
<1>2. \A n \in {still, timer} :
        /\ DOMAIN n = Members /\ n.calls = m.calls /\ n.config = m.config
        /\ n.phase = m.phase /\ n.lastHwProfile = m.lastHwProfile /\ n.bypassed = m.bypassed
  BY DEF Live, Sound, Members
<1> HIDE DEF still, timer
<1>3. Live(still) /\ Live(timer)
  BY <1>2, OtherMember DEF Live, Sound
<1>4. Live(G!EnterPowernap(still, radios)) /\ \A way : Live(G!Sleep(still, way, radios))
  BY <1>3, EnterPowernapLive, SleepLive
<1> QED
  BY <1>1, <1>3, <1>4

LEMMA LidOpenedLive ==
  ASSUME NEW m, Live(m)
  PROVE  Live(G!LidOpened(m))
<1> DEFINE ended == [m EXCEPT !.inPowernap = FALSE]
           adjusted == G!AdjustProfile(ended)
           restored == G!RestoreRadios(adjusted)
           nap == [restored EXCEPT !.batteryTimer = TRUE]
           timer == [m EXCEPT !.batteryTimer = TRUE]
<1>1. G!LidOpened(m) \in {m, nap, timer}
  BY DEF G!LidOpened
<1>2. \A n \in {ended, timer} :
        /\ DOMAIN n = Members /\ n.calls = m.calls /\ n.config = m.config
        /\ n.phase = m.phase /\ n.lastHwProfile = m.lastHwProfile /\ n.bypassed = m.bypassed
  BY DEF Live, Sound, Members
<1> HIDE DEF ended, timer
<1>3. Live(ended) /\ Live(timer)
  BY <1>2, OtherMember DEF Live, Sound
<1>4. Live(adjusted)
  BY <1>3, AdjustProfileLive
<1> HIDE DEF adjusted
<1>5. Live(restored)
  BY <1>4, RestoreRadiosLive
<1> HIDE DEF restored
<1>6. /\ DOMAIN nap = Members /\ nap.calls = restored.calls /\ nap.config = restored.config
      /\ nap.phase = restored.phase /\ nap.lastHwProfile = restored.lastHwProfile
      /\ nap.bypassed = restored.bypassed
  BY <1>5 DEF Live, Sound, Members
<1> HIDE DEF nap
<1>7. Live(nap)
  BY <1>5, <1>6, OtherMember DEF Live, Sound
<1> QED
  BY <1>1, <1>3, <1>7
-----------------------------------------------------------------------------
(* A poll of the battery. *)

LEMMA TransitionLive ==
  ASSUME NEW m, Live(m), NEW state, NEW radios
  PROVE  Live(G!Transition(m, state, radios))
<1> DEFINE read == [m EXCEPT !.chargingState = state]
           adjusted == G!AdjustProfile(read)
           ended == [adjusted EXCEPT !.inPowernap = FALSE]
           restored == G!RestoreRadios(ended)
<1>1. G!Transition(m, state, radios) \in {read, adjusted, G!LidClosed(restored, radios)}
  BY DEF G!Transition
<1>2. /\ DOMAIN read = Members /\ read.calls = m.calls /\ read.config = m.config
      /\ read.phase = m.phase /\ read.lastHwProfile = m.lastHwProfile /\ read.bypassed = m.bypassed
  BY DEF Live, Sound, Members
<1> HIDE DEF read
<1>3. Live(read)
  BY <1>2, OtherMember DEF Live, Sound
<1>4. Live(adjusted)
  BY <1>3, AdjustProfileLive
<1> HIDE DEF adjusted
<1>5. /\ DOMAIN ended = Members /\ ended.calls = adjusted.calls /\ ended.config = adjusted.config
      /\ ended.phase = adjusted.phase /\ ended.lastHwProfile = adjusted.lastHwProfile
      /\ ended.bypassed = adjusted.bypassed
  BY <1>4 DEF Live, Sound, Members
<1> HIDE DEF ended
<1>6. Live(ended)
  BY <1>4, <1>5, OtherMember DEF Live, Sound
<1>7. Live(G!LidClosed(restored, radios))
  BY <1>6, RestoreRadiosLive, LidClosedLive
<1> QED
  BY <1>1, <1>3, <1>4, <1>7

LEMMA FreezingLive ==
  ASSUME NEW m, Live(m)
  PROVE  Live(G!FreezeProcesses(m)) /\ Live(G!FreezeServices(m))
<1>1. Live(G!FreezeProcesses(m))
  <2> DEFINE white == G!Call(m, "set_procs_whitelist", m.config.p_whitelist)
             black == G!Call(white, "set_procs_blacklist", m.config.p_blacklist)
  <2>1. G!FreezeProcesses(m) = G!Call(black, "freeze_processes", TRUE)
    BY DEF G!FreezeProcesses
  <2>2. Live(white)
    BY CallLive, MildNames
  <2> HIDE DEF white
  <2>3. Live(black)
    BY <2>2, CallLive, MildNames
  <2> HIDE DEF black
  <2>4. Live(G!Call(black, "freeze_processes", TRUE))
    BY <2>3, CallLive
  <2> QED
    BY <2>1, <2>4
<1>2. Live(G!FreezeServices(m))
  <2> DEFINE white == G!Call(m, "set_whitelist", m.config.whitelist)
             black == G!Call(white, "set_blacklist", m.config.blacklist)
  <2>1. G!FreezeServices(m) = G!Call(black, "freeze_services_dbus", "-")
    BY DEF G!FreezeServices
  <2>2. Live(white)
    BY CallLive, MildNames
  <2> HIDE DEF white
  <2>3. Live(black)
    BY <2>2, CallLive, MildNames
  <2> HIDE DEF black
  <2>4. Live(G!Call(black, "freeze_services_dbus", "-"))
    BY <2>3, CallLive, MildNames
  <2> QED
    BY <2>1, <2>4
<1> QED
  BY <1>1, <1>2

LEMMA EnterWarningLive ==
  ASSUME NEW m, Live(m), NEW percent
  PROVE  Live(G!EnterCritical(m, percent)) /\ Live(G!EnterLow(m))
<1>1. Live(G!EnterCritical(m, percent))
  <2> DEFINE warned == [m EXCEPT !.warnCrit = TRUE, !.criticalLevelReached = percent]
             seen == G!Call(warned, "set_webcam_power", FALSE)
             dark == G!SetBluetooth(seen, 0)
  <2>1. G!EnterCritical(m, percent) \in
          {G!AdjustProfile(G!FreezeProcesses(dark)), G!AdjustProfile(dark)}
    BY DEF G!EnterCritical
  <2>2. /\ DOMAIN warned = Members /\ warned.calls = m.calls /\ warned.config = m.config
        /\ warned.phase = m.phase /\ warned.lastHwProfile = m.lastHwProfile
        /\ warned.bypassed = m.bypassed
    BY DEF Live, Sound, Members
  <2> HIDE DEF warned
  <2>3. Live(warned)
    BY <2>2, OtherMember DEF Live, Sound
  <2>4. Live(seen)
    BY <2>3, CallLive, MildNames
  <2> HIDE DEF seen
  <2>5. Live(dark)
    BY <2>4, CallLive
  <2> HIDE DEF dark
  <2> QED
    BY <2>1, <2>5, FreezingLive, AdjustProfileLive
<1>2. Live(G!EnterLow(m))
  <2> DEFINE warned == [m EXCEPT !.warnSimple = TRUE]
  <2>1. G!EnterLow(m) \in {G!AdjustProfile(G!FreezeServices(warned)), G!AdjustProfile(warned)}
    BY DEF G!EnterLow
  <2>2. /\ DOMAIN warned = Members /\ warned.calls = m.calls /\ warned.config = m.config
        /\ warned.phase = m.phase /\ warned.lastHwProfile = m.lastHwProfile
        /\ warned.bypassed = m.bypassed
    BY DEF Live, Sound, Members
  <2> HIDE DEF warned
  <2>3. Live(warned)
    BY <2>2, OtherMember DEF Live, Sound
  <2> QED
    BY <2>1, <2>3, FreezingLive, AdjustProfileLive
<1> QED
  BY <1>1, <1>2

LEMMA WarnLive ==
  ASSUME NEW m, Live(m), NEW percent, NEW radios
  PROVE  Live(G!Warn(m, percent, radios))
<1> DEFINE calm == [m EXCEPT !.warnCrit = FALSE]
           action == G!RunCriticalAction(calm, radios)
<1>1. G!Warn(m, percent, radios) \in {m, G!EnterCritical(m, percent), action, G!EnterLow(m)}
  BY DEF G!Warn
<1>2. /\ DOMAIN calm = Members /\ calm.calls = m.calls /\ calm.config = m.config
      /\ calm.phase = m.phase /\ calm.lastHwProfile = m.lastHwProfile /\ calm.bypassed = m.bypassed
  BY DEF Live, Sound, Members
<1> HIDE DEF calm
<1>3. Live(calm)
  BY <1>2, OtherMember DEF Live, Sound
<1>4. Live(action)
  <2>1. calm.config.critical_action \in 0..2
    BY <1>3, SystemAssumption DEF Live, Sound
  <2>2. \/ \E way : action = G!Sleep(calm, way, radios)
        \/ action = G!Call(calm, "shutdown", "-")
    BY <2>1 DEF G!RunCriticalAction
  <2>3. Live(G!Call(calm, "shutdown", "-"))
    BY <1>3, CallLive, MildNames
  <2> HIDE DEF action
  <2> QED
    BY <1>3, <2>2, <2>3, SleepLive
<1> QED
  BY <1>1, <1>4, EnterWarningLive

LEMMA ResetLive ==
  ASSUME NEW m, Live(m), NEW percent
  PROVE  Live(G!Reset(m, percent))
<1>1. ASSUME NEW n, Live(n) PROVE Live(G!LeaveCritical(n))
  <2> DEFINE ended == [n EXCEPT !.warnCrit = FALSE]
             seen == G!Call(ended, "set_webcam_power", TRUE)
             woken == G!CallIf(n.config.critical_freeze_processes, seen, "freeze_processes", FALSE)
  <2>1. \E state : G!LeaveCritical(n) = G!SetBluetooth(woken, state)
    BY DEF G!LeaveCritical
  <2>2. /\ DOMAIN ended = Members /\ ended.calls = n.calls /\ ended.config = n.config
        /\ ended.phase = n.phase /\ ended.lastHwProfile = n.lastHwProfile
        /\ ended.bypassed = n.bypassed
    BY <1>1 DEF Live, Sound, Members
  <2> HIDE DEF ended
  <2>3. Live(ended)
    BY <1>1, <2>2, OtherMember DEF Live, Sound
  <2>4. Live(seen)
    BY <2>3, CallLive, MildNames
  <2> HIDE DEF seen
  <2>5. Live(woken)
    BY <2>4, CallLive
  <2> HIDE DEF woken
  <2> QED
    BY <2>1, <2>5, CallLive
<1>2. ASSUME NEW n, Live(n) PROVE Live(G!LeaveLow(n))
  <2> DEFINE ended == [n EXCEPT !.warnSimple = FALSE]
  <2>1. /\ DOMAIN ended = Members /\ ended.calls = n.calls /\ ended.config = n.config
        /\ ended.phase = n.phase /\ ended.lastHwProfile = n.lastHwProfile
        /\ ended.bypassed = n.bypassed
    BY <1>2 DEF Live, Sound, Members
  <2>2. G!LeaveLow(n) =
          G!CallIf(n.config.lowbat_freeze_services, ended, "unfreeze_all_frozen_services", "-")
    BY DEF G!LeaveLow
  <2> HIDE DEF ended
  <2>3. Live(ended)
    BY <1>2, <2>1, OtherMember DEF Live, Sound
  <2> QED
    BY <2>2, <2>3, CallLive, MildNames
<1>3. PICK calm \in {m, G!LeaveCritical(m)} : G!Reset(m, percent) \in {calm, G!LeaveLow(calm)}
  BY DEF G!Reset
<1> QED
  BY <1>1, <1>2, <1>3

LEMMA CheckBatteryStatusLive ==
  ASSUME NEW m, Live(m), NEW reading
  PROVE  Live(G!CheckBatteryStatus(m, reading))
<1> DEFINE moved == G!Transition(m, reading.state, reading.radios)
           warned == G!Warn(moved, reading.percent, reading.radios)
           reset == G!Reset(warned, reading.percent)
<1>1. G!CheckBatteryStatus(m, reading) \in {reset, G!AdjustProfile(reset)}
  BY DEF G!CheckBatteryStatus
<1>2. Live(moved)
  BY TransitionLive
<1> HIDE DEF moved
<1>3. Live(warned)
  BY <1>2, WarnLive
<1> HIDE DEF warned
<1>4. Live(reset)
  BY <1>3, ResetLive
<1> HIDE DEF reset
<1> QED
  BY <1>1, <1>4, AdjustProfileLive

LEMMA SyncLive ==
  ASSUME NEW m, Live(m)
  PROVE  Live(G!SyncDaemonAdvancedSettings(m))
<1> DEFINE capped == G!Call(m, "set_eco_freq_cap", m.config.eco_freq_cap)
           usb == G!Call(capped, "set_balanced_usb_autosuspend", m.config.balanced_usb_autosuspend)
           ultra == G!Call(usb, "set_ultra_perf_mode", m.config.ultra_performance_mode)
           n == G!CallIf(m.config.charge_limit_enabled, ultra, "set_charge_limit",
                         m.config.charge_limit_value)
<1>1. G!SyncDaemonAdvancedSettings(m) = n
  BY DEF G!SyncDaemonAdvancedSettings
<1>2. Live(capped)
  BY CallLive, MildNames
<1> HIDE DEF capped
<1>3. Live(usb)
  BY <1>2, CallLive, MildNames
<1> HIDE DEF usb
<1>4. Live(ultra)
  BY <1>3, CallLive, MildNames
<1> HIDE DEF ultra
<1>5. Live(n)
  BY <1>4, CallLive, MildNames
<1> QED
  BY <1>1, <1>5
-----------------------------------------------------------------------------
(* The handlers. *)

LEMMA PollLive ==
  ASSUME Live(gui), NEW reading
  PROVE  /\ G!TimerPoll(reading) => \E n : gui' = n /\ Live(n)
         /\ G!OtherPoll(reading) => \E n : gui' = n /\ Live(n)
         /\ \A way : G!CheckIdle(reading, way) => \E n : gui' = n /\ Live(n)
<1>1. Live(G!CheckBatteryStatus(gui, reading))
  BY CheckBatteryStatusLive
<1>2. \A way : Live(G!Sleep(G!CheckBatteryStatus(gui, reading), way, reading.radios))
  BY <1>1, SleepLive
<1>3. ASSUME G!TimerPoll(reading) \/ G!OtherPoll(reading)
      PROVE  \E n : gui' = n /\ Live(n)
  <2> DEFINE polled == G!CheckBatteryStatus(gui, reading)
  <2>1. PICK p \in G!Wanted(polled, reading.percent) : gui' = G!Heard(polled, p)
    BY <1>3 DEF G!TimerPoll, G!OtherPoll, G!Becomes
  <2> HIDE DEF polled
  <2>2. Live(G!Heard(polled, p))
    BY <1>1, HeardLive DEF polled
  <2> QED
    BY <2>1, <2>2
<1> QED
  BY <1>2, <1>3 DEF G!CheckIdle, G!Becomes

LEMMA StartLive ==
  ASSUME Live(gui), NEW reading, G!Start(reading)
  PROVE  \E n : gui' = n /\ Live(n)
<1> DEFINE polled == G!CheckBatteryStatus(gui, reading)
           eth == G!CallIf(gui.config.disable_eth = 1, polled, "toggle_ethernet", FALSE)
           sent == G!SyncDaemonAdvancedSettings(eth)
           n == [sent EXCEPT !.phase = "running", !.batteryTimer = TRUE]
<1>1. gui' = n
  BY DEF G!Start, G!Becomes
<1>2. Live(polled)
  BY CheckBatteryStatusLive
<1> HIDE DEF polled
<1>3. Live(eth)
  BY <1>2, CallLive, MildNames
<1> HIDE DEF eth
<1>4. Live(sent)
  BY <1>3, SyncLive
<1> HIDE DEF sent
<1>5. /\ DOMAIN n = Members /\ n.calls = sent.calls /\ n.config = sent.config
      /\ n.phase = "running" /\ n.lastHwProfile = sent.lastHwProfile /\ n.bypassed = sent.bypassed
  BY <1>4 DEF Live, Sound, Members
<1> HIDE DEF n
<1>6. Live(n)
  BY <1>4, <1>5, OtherMember DEF Live, Sound
<1> QED
  BY <1>1, <1>6

LEMMA EndCalibrationLive ==
  ASSUME Live(gui), NEW reading, G!EndCalibration(reading)
  PROVE  \E n : gui' = n /\ Live(n)
<1> DEFINE told == G!CalibrationTells(gui, 0)
           ended == [told EXCEPT !.calibrationActive = FALSE, !.batteryTimer = TRUE]
<1>1. gui' = G!CheckBatteryStatus(ended, reading)
  BY DEF G!EndCalibration, G!Becomes
<1>2. Live(told)
  BY EachProfileCommand, CalibrationTellsLive
<1> HIDE DEF told
<1>3. /\ DOMAIN ended = Members /\ ended.calls = told.calls /\ ended.config = told.config
      /\ ended.phase = told.phase /\ ended.lastHwProfile = told.lastHwProfile
      /\ ended.bypassed = told.bypassed
  BY <1>2 DEF Live, Sound, Members
<1> HIDE DEF ended
<1>4. Live(ended)
  BY <1>2, <1>3, OtherMember DEF Live, Sound
<1> QED
  BY <1>1, <1>4, CheckBatteryStatusLive

LEMMA ConfigureLive ==
  ASSUME Live(gui), NEW c \in Configs, NEW reading, NEW due, G!Configure(c, reading, due)
  PROVE  \E n : gui' = n /\ Live(n)
<1> DEFINE saved == [gui EXCEPT !.config = c]
           sent == G!SyncDaemonAdvancedSettings(saved)
<1>1. gui' \in {sent, G!CheckBatteryStatus(sent, reading)}
  BY DEF G!Configure, G!Becomes
<1>2. /\ DOMAIN saved = Members /\ saved.calls = gui.calls /\ saved.config = c
      /\ saved.phase = gui.phase /\ saved.lastHwProfile = gui.lastHwProfile
      /\ saved.bypassed = gui.bypassed
  BY DEF Live, Sound, Members
<1> HIDE DEF saved
<1>3. Live(saved)
  BY <1>2, OtherMember DEF Live
<1>4. Live(sent)
  BY <1>3, SyncLive
<1> HIDE DEF sent
<1> QED
  BY <1>1, <1>4, CheckBatteryStatusLive

LEMMA UserLive ==
  ASSUME Live(gui)
  PROVE  /\ \A p \in Picks : G!UserProfile(p) => \E n : gui' = n /\ Live(n)
         /\ \A way, radios : G!UserSleep(way, radios) => \E n : gui' = n /\ Live(n)
         /\ G!SelectPowernap => \E n : gui' = n /\ Live(n)
         /\ G!PollWithoutBattery => \E n : gui' = n /\ Live(n)
         /\ G!Calibrate => \E n : gui' = n /\ Live(n)
         /\ G!PrepareForShutdown => \E n : gui' = n /\ Live(n)
<1>1. ASSUME NEW p \in Picks, G!UserProfile(p)
      PROVE  \E n : gui' = n /\ Live(n)
  BY <1>1, SystemAssumption, SetProfileLive DEF G!UserProfile, G!Becomes
<1>2. ASSUME NEW way, NEW radios, G!UserSleep(way, radios)
      PROVE  \E n : gui' = n /\ Live(n)
  <2>1. gui' \in {G!Call(gui, "shutdown", "-"), G!Sleep(gui, way, radios)}
    BY <1>2 DEF G!UserSleep, G!Becomes
  <2>2. Live(G!Call(gui, "shutdown", "-")) /\ Live(G!Sleep(gui, way, radios))
    BY CallLive, MildNames, SleepLive
  <2> QED
    BY <2>1, <2>2
<1>3. ASSUME G!SelectPowernap \/ G!PollWithoutBattery \/ G!Calibrate \/ G!PrepareForShutdown
      PROVE  \E n : gui' = n /\ Live(n)
  <2> DEFINE selected == [gui EXCEPT !.powernapEnabled = ~@]
             removed == [gui EXCEPT !.chargingState = 2, !.warnSimple = FALSE, !.warnCrit = FALSE]
             calibrating == [gui EXCEPT !.calibrationActive = TRUE]
             resting == [gui EXCEPT !.batteryTimer = @ /\ gui.actionInProgress]
  <2>1. \/ gui' \in {selected, calibrating, resting}
        \/ \E p \in G!Wanted(removed, 0) : gui' = G!Heard(removed, p)
    BY <1>3
       DEF G!SelectPowernap, G!PollWithoutBattery, G!Calibrate, G!CheckWithoutBattery,
           G!PrepareForShutdown, G!Becomes
  <2>2. \A n \in {selected, removed, calibrating, resting} :
          /\ DOMAIN n = Members /\ n.calls = gui.calls /\ n.config = gui.config
          /\ n.phase = gui.phase /\ n.lastHwProfile = gui.lastHwProfile /\ n.bypassed = gui.bypassed
    <3>1. /\ DOMAIN selected = Members /\ selected.calls = gui.calls /\ selected.config = gui.config
          /\ selected.phase = gui.phase /\ selected.lastHwProfile = gui.lastHwProfile
          /\ selected.bypassed = gui.bypassed
      BY DEF Live, Sound, Members
    <3>2. /\ DOMAIN removed = Members /\ removed.calls = gui.calls /\ removed.config = gui.config
          /\ removed.phase = gui.phase /\ removed.lastHwProfile = gui.lastHwProfile
          /\ removed.bypassed = gui.bypassed
      BY DEF Live, Sound, Members
    <3>3. /\ DOMAIN calibrating = Members
          /\ calibrating.calls = gui.calls /\ calibrating.config = gui.config
          /\ calibrating.phase = gui.phase /\ calibrating.lastHwProfile = gui.lastHwProfile
          /\ calibrating.bypassed = gui.bypassed
      BY DEF Live, Sound, Members
    <3>4. /\ DOMAIN resting = Members /\ resting.calls = gui.calls /\ resting.config = gui.config
          /\ resting.phase = gui.phase /\ resting.lastHwProfile = gui.lastHwProfile
          /\ resting.bypassed = gui.bypassed
      BY DEF Live, Sound, Members
    <3> HIDE DEF selected, removed, calibrating, resting
    <3> QED
      BY <3>1, <3>2, <3>3, <3>4
  <2> HIDE DEF selected, removed, calibrating, resting
  <2>3. \A n \in {selected, removed, calibrating, resting} : Live(n)
    BY <2>2, OtherMember DEF Live, Sound
  <2> QED
    BY <2>1, <2>3, HeardLive
<1> QED
  BY <1>1, <1>2, <1>3

LEMMA LidLive ==
  ASSUME Live(gui), NEW radios, G!LidMoves(radios)
  PROVE  \E n : gui' = n /\ Live(n)
<1> DEFINE moved == [gui EXCEPT !.lidOpen = ~@]
<1>1. gui' \in {G!LidClosed(moved, radios), G!LidOpened(moved)}
  BY DEF G!LidMoves, G!Becomes
<1>2. /\ DOMAIN moved = Members /\ moved.calls = gui.calls /\ moved.config = gui.config
      /\ moved.phase = gui.phase /\ moved.lastHwProfile = gui.lastHwProfile
      /\ moved.bypassed = gui.bypassed
  BY DEF Live, Sound, Members
<1> HIDE DEF moved
<1>3. Live(moved)
  BY <1>2, OtherMember DEF Live, Sound
<1> QED
  BY <1>1, <1>3, LidClosedLive, LidOpenedLive

LEMMA SignalsLive ==
  ASSUME Live(gui)
  PROVE  /\ \A radios : G!PrepareForSleep(radios) => \E n : gui' = n /\ Live(n)
         /\ G!AfterWakeActions => \E n : gui' = n /\ Live(n)
         /\ G!RestoreBluetooth => \E n : gui' = n /\ Live(n)
<1>1. ASSUME NEW radios, G!PrepareForSleep(radios)
      PROVE  \E n : gui' = n /\ Live(n)
  <2>1. gui' \in {G!PrepareSuspendGeneral(gui, FALSE, radios), gui}
    BY <1>1 DEF G!PrepareForSleep, G!Becomes
  <2>2. Live(G!PrepareSuspendGeneral(gui, FALSE, radios))
    BY PrepareSuspendGeneralLive
  <2> QED
    BY <2>1, <2>2
<1>2. ASSUME G!AfterWakeActions
      PROVE  \E n : gui' = n /\ Live(n)
  <2> DEFINE up == [gui EXCEPT !.actionInProgress = FALSE]
             whole == IF gui.config.minimal_state_before_suspend
                        THEN G!ExitMinimalMode(up) ELSE up
             adjusted == G!AdjustProfile(whole)
             wifi == IF gui.wifiInitialState # -1
                       THEN G!SetWifi(adjusted, gui.wifiInitialState) ELSE adjusted
             n == [wifi EXCEPT !.batteryTimer = TRUE,
                               !.bluetoothTimer = @ \/ gui.bluetoothInitialState # -1]
  <2>1. gui' = n
    BY <1>2 DEF G!AfterWakeActions, G!Becomes
  <2>2. /\ DOMAIN up = Members /\ up.calls = gui.calls /\ up.config = gui.config
        /\ up.phase = gui.phase /\ up.lastHwProfile = gui.lastHwProfile
        /\ up.bypassed = gui.bypassed
    BY DEF Live, Sound, Members
  <2> HIDE DEF up
  <2>3. Live(up)
    BY <2>2, OtherMember DEF Live, Sound
  <2>4. Live(whole)
    BY <2>3, MinimalModeLive
  <2> HIDE DEF whole
  <2>5. Live(adjusted)
    BY <2>4, AdjustProfileLive
  <2> HIDE DEF adjusted
  <2>6. Live(wifi)
    BY <2>5, CallLive
  <2> HIDE DEF wifi
  <2>7. /\ DOMAIN n = Members /\ n.calls = wifi.calls /\ n.config = wifi.config
        /\ n.phase = wifi.phase /\ n.lastHwProfile = wifi.lastHwProfile
        /\ n.bypassed = wifi.bypassed
    BY <2>6 DEF Live, Sound, Members
  <2> HIDE DEF n
  <2>8. Live(n)
    BY <2>6, <2>7, OtherMember DEF Live, Sound
  <2> QED
    BY <2>1, <2>8
<1>3. ASSUME G!RestoreBluetooth
      PROVE  \E n : gui' = n /\ Live(n)
  <2> DEFINE bt == IF gui.bluetoothInitialState # -1
                     THEN G!SetBluetooth(gui, gui.bluetoothInitialState) ELSE gui
             n == [bt EXCEPT !.bluetoothTimer = FALSE, !.bluetoothInitialState = -1]
  <2>1. gui' = n
    BY <1>3 DEF G!RestoreBluetooth, G!Becomes
  <2>2. Live(bt)
    BY CallLive
  <2> HIDE DEF bt
  <2>3. /\ DOMAIN n = Members /\ n.calls = bt.calls /\ n.config = bt.config
        /\ n.phase = bt.phase /\ n.lastHwProfile = bt.lastHwProfile /\ n.bypassed = bt.bypassed
    BY <2>2 DEF Live, Sound, Members
  <2> HIDE DEF n
  <2>4. Live(n)
    BY <2>2, <2>3, OtherMember DEF Live, Sound
  <2> QED
    BY <2>1, <2>4
<1> QED
  BY <1>1, <1>2, <1>3

LEMMA HandlersLive ==
  ASSUME Sound(gui), G!Handlers
  PROVE  \/ G!Stop \/ G!Killed \/ G!Login
         \/ \E n : gui' = n /\ Live(n)
<1>1. ASSUME ~(G!Stop \/ G!Killed \/ G!Login)
      PROVE  Live(gui)
  <2>1. gui.phase \in {"new", "running"}
    BY <1>1 DEF G!Handlers, G!Start, G!TimerPoll, G!OtherPoll, G!EndCalibration, G!CheckIdle,
         G!PollWithoutBattery, G!UserProfile, G!Configure, G!UserSleep, G!LidMoves,
         G!PrepareForSleep, G!SelectPowernap, G!AfterWakeActions, G!RestoreBluetooth, G!Calibrate,
         G!PrepareForShutdown
  <2> QED
    BY <2>1 DEF Live
<1>2. ASSUME Live(gui), NEW reading,
             G!Start(reading) \/ G!TimerPoll(reading) \/ G!OtherPoll(reading)
               \/ G!EndCalibration(reading)
      PROVE  \E n : gui' = n /\ Live(n)
  BY <1>2, StartLive, PollLive, EndCalibrationLive
<1> QED
  BY <1>1, <1>2, PollLive, UserLive, ConfigureLive, LidLive, SignalsLive DEF G!Handlers
-----------------------------------------------------------------------------
(* The steps of the client. *)

LEMMA BelievedDaemon ==
  ASSUME UNCHANGED <<daemonVars, lost>>
  PROVE  /\ \A p : InForce(p)' <=> InForce(p)
         /\ FreezingServed' <=> FreezingServed
         /\ backlog' = backlog /\ hw' = hw /\ mode' = mode
<1>1. backlog' = backlog /\ hw' = hw /\ mode' = mode /\ lost' = lost /\ frozen_procs' = frozen_procs
  BY DEF daemonVars
<1> QED
  BY <1>1 DEF InForce, FreezingServed, ProfileOf, ProfileCommands

\* While the daemon rests, the invariant is one of the members.
LEMMA SoundMembers ==
  ASSUME IInv, UNCHANGED <<daemonVars, lost>>,
         NEW n, gui' = n, Sound(n), n.phase = "exited" => ~Frozen(n.calls)
  PROVE  IInv'
<1>1. /\ \A p : InForce(p)' <=> InForce(p)
      /\ FreezingServed' <=> FreezingServed
      /\ backlog' = backlog /\ hw' = hw /\ mode' = mode
  BY BelievedDaemon
<1>2. Believed(gui)'
  <2>1. ASSUME ~n.bypassed, n.lastHwProfile # -1
        PROVE  Settled(n.calls, G!ProfileCommand(n.lastHwProfile), ProfileCommands,
                       InForce(n.lastHwProfile)')
    <3>1. Settled(n.calls, G!ProfileCommand(n.lastHwProfile), ProfileCommands,
                  InForce(n.lastHwProfile))
      BY <2>1 DEF Sound, Believed
    <3> QED
      BY <1>1, <3>1, SettledMonotone
  <2> QED
    BY <2>1 DEF Believed
<1>3. Sound(gui)'
  BY <1>2 DEF Sound
<1>4. (gui.phase = "exited" => ~Frozen(gui.calls))'
  <2>1. ASSUME n.phase = "exited", Frozen(gui.calls)' PROVE FALSE
    <3>1. Settled(n.calls, FreezeCall, {FreezeCall, ThawCall}, FreezingServed')
      BY <2>1 DEF Frozen
    <3> QED
      BY <1>1, <2>1, <3>1, SettledMonotone DEF Frozen
  <2> QED
    BY <2>1
<1> QED
  BY <1>1, <1>3, <1>4 DEF IInv

LEMMA NewSound ==
  ASSUME NEW c \in Configs
  PROVE  /\ Sound(G!New(c)) /\ G!New(c).phase = "new"
         /\ Sound([G!New(c) EXCEPT !.phase = "killed"])
         /\ [G!New(c) EXCEPT !.phase = "killed"].phase = "killed"
<1> DEFINE killed == [G!New(c) EXCEPT !.phase = "killed"]
<1>1. \A n \in {G!New(c), killed} :
        /\ DOMAIN n = Members /\ n.config = c /\ n.calls = <<>> /\ n.lastHwProfile = -1
  BY DEF G!New, Members
<1>2. G!New(c).phase = "new" /\ killed.phase = "killed"
  BY DEF G!New
<1> HIDE DEF killed
<1>3. \A n \in {G!New(c), killed} : Sound(n)
  BY <1>1, KnownCommands DEF Sound, Believed
<1> QED
  BY <1>2, <1>3 DEF killed

\* stop() thaws after whatever froze before it.
LEMMA StopSound ==
  ASSUME Sound(gui), G!Stop
  PROVE  \E n : gui' = n /\ Sound(n) /\ ~Frozen(n.calls)
<1> DEFINE eth == G!CallIf(gui.config.disable_eth # 0, gui, "toggle_ethernet", TRUE)
           units == G!Call(eth, "unfreeze_all_frozen_services", "-")
           thawed == G!Call(units, "freeze_processes", FALSE)
           seen == G!Call(thawed, "set_webcam_power", TRUE)
           bt == IF gui.bluetoothInitialState # -1
                   THEN G!SetBluetooth(seen, gui.bluetoothInitialState) ELSE seen
           wifi == IF gui.wifiInitialState # -1 THEN G!SetWifi(bt, gui.wifiInitialState) ELSE bt
           n == [wifi EXCEPT !.phase = "exited", !.batteryTimer = FALSE, !.bluetoothTimer = FALSE]
<1>1. gui' = n /\ Live(gui)
  BY DEF G!Stop, G!Becomes, Live
\* What follows the thaw is not about freezing.
<1>2. ASSUME NEW m, Live(m), ~Frozen(m.calls), NEW name, Mild(name), NEW arg
      PROVE  Live(G!Call(m, name, arg)) /\ ~Frozen(G!Call(m, name, arg).calls)
  <2> DEFINE call == <<name, arg>>
             more == G!Call(m, name, arg)
  <2>1. Live(more) /\ more.calls = Append(m.calls, call)
    BY <1>2, CallSound DEF Live
  <2>2. call[1] = name /\ FreezeCall[1] = "freeze_processes" /\ ThawCall[1] = "freeze_processes"
    BY DEF FreezeCall, ThawCall
  <2>3. Queue(m.calls) /\ FreezeCall \in {FreezeCall, ThawCall}
    BY <1>2 DEF Live, Sound
  <2> HIDE DEF call, more
  <2>4. call \notin {FreezeCall, ThawCall}
    BY <1>2, <2>2 DEF Mild
  <2>5. ~Frozen(more.calls)
    <3>1. Settled(Append(m.calls, call), FreezeCall, {FreezeCall, ThawCall}, FreezingServed)
            <=> Settled(m.calls, FreezeCall, {FreezeCall, ThawCall}, FreezingServed)
      BY <2>3, <2>4, SettledAppended
    <3> QED
      BY <1>2, <2>1, <3>1 DEF Frozen
  <2> QED
    BY <2>1, <2>5 DEF more
<1>3. Live(eth)
  BY <1>1, CallLive, MildNames
<1> HIDE DEF eth
<1>4. Live(units)
  BY <1>3, CallLive, MildNames
<1> HIDE DEF units
<1>5. Live(thawed) /\ ~Frozen(thawed.calls)
  <2>1. Live(thawed)
    BY <1>4, CallLive
  <2>2. thawed.calls = Append(units.calls, ThawCall)
    BY <1>4, CallSound DEF Live, ThawCall
  <2>3. ThawCall \in {FreezeCall, ThawCall} \ {FreezeCall} /\ FreezeCall \in {FreezeCall, ThawCall}
    <3>1. FreezeCall # ThawCall
      BY DEF FreezeCall, ThawCall
    <3> QED
      BY <3>1
  <2>4. Queue(units.calls)
    BY <1>4 DEF Live, Sound
  <2> HIDE DEF thawed
  <2> QED
    BY <2>1, <2>2, <2>3, <2>4, SettledAppended DEF Frozen
<1> HIDE DEF thawed
<1>6. Live(seen) /\ ~Frozen(seen.calls)
  BY <1>2, <1>5, MildNames
<1> HIDE DEF seen
<1>7. Live(bt) /\ ~Frozen(bt.calls)
  BY <1>2, <1>6, MildNames DEF G!SetBluetooth
<1> HIDE DEF bt
<1>8. Live(wifi) /\ ~Frozen(wifi.calls)
  BY <1>2, <1>7, MildNames DEF G!SetWifi
<1> HIDE DEF wifi
<1>9. /\ DOMAIN n = Members /\ n.calls = wifi.calls /\ n.config = wifi.config
      /\ n.lastHwProfile = wifi.lastHwProfile /\ n.bypassed = wifi.bypassed
  BY <1>8 DEF Live, Sound, Members
<1> HIDE DEF n
<1>10. Sound(n) /\ ~Frozen(n.calls)
  BY <1>8, <1>9 DEF Live, Sound, Believed
<1> QED
  BY <1>1, <1>10

LEMMA HandlersStep ==
  ASSUME IInv, G!Handlers, UNCHANGED <<daemonVars, lost>>
  PROVE  IInv'
<1>1. Sound(gui) /\ gui.config \in Configs
  BY DEF IInv, Sound
<1>2. CASE \E n : gui' = n /\ Live(n)
  <2>1. PICK n : gui' = n /\ Live(n)
    BY <1>2
  <2>2. Sound(n) /\ n.phase # "exited"
    BY <2>1 DEF Live
  <2> QED
    BY <2>1, <2>2, SoundMembers
<1>3. CASE G!Stop
  BY <1>1, <1>3, StopSound, SoundMembers
<1>4. CASE G!Killed
  <2>1. gui' = [G!New(gui.config) EXCEPT !.phase = "killed"]
    BY <1>4 DEF G!Killed
  <2> QED
    BY <1>1, <2>1, NewSound, SoundMembers
<1>5. CASE G!Login
  <2>1. gui' = G!New(gui.config)
    BY <1>5 DEF G!Login
  <2> QED
    BY <1>1, <2>1, NewSound, SoundMembers
<1> QED
  BY <1>1, <1>2, <1>3, <1>4, <1>5, HandlersLive

\* Taking the first call of a handler leaves the others as they were ...
LEMMA FirstGone ==
  ASSUME NEW m, Sound(m), m.calls # <<>>, NEW n,
         DOMAIN n = Members, n.config = m.config,
         n.lastHwProfile = m.lastHwProfile, n.bypassed = m.bypassed,
         n.calls = Tail(m.calls)
  PROVE  Queue(n.calls) /\ Known(n.calls) /\ Known(<<Head(m.calls)>>)
BY Taken, KnownCommands DEF Sound

\* ... and one that goes to logind is about neither a profile nor freezing.
LEMMA LogindStep ==
  ASSUME IInv, G!Logind, UNCHANGED <<daemonVars, lost>>
  PROVE  IInv'
<1>1. Sound(gui)
  BY DEF IInv
<1>2. CASE gui' = gui
  BY <1>1, <1>2, SoundMembers DEF IInv
<1>3. CASE gui' # gui
  <2>1. /\ gui.calls # <<>> /\ Head(gui.calls)[1] = "logind"
        /\ \E bus \in BOOLEAN :
             \/ gui' = [gui EXCEPT !.calls = Tail(@)]
             \/ gui' = [gui EXCEPT !.calls = Tail(@), !.actionInProgress = @ /\ ~bus]
    BY <1>3 DEF G!Logind, G!LogindAccepts, G!LogindRefuses, G!OthersSleep, G!FallAsleep, G!Resume
  <2>2. PICK n : /\ gui' = n /\ DOMAIN n = Members /\ n.config = gui.config
                 /\ n.phase = gui.phase /\ n.lastHwProfile = gui.lastHwProfile
                 /\ n.bypassed = gui.bypassed
                 /\ n.calls = Tail(gui.calls)
    <3>1. PICK bus \in BOOLEAN :
            \/ gui' = [gui EXCEPT !.calls = Tail(@)]
            \/ gui' = [gui EXCEPT !.calls = Tail(@), !.actionInProgress = @ /\ ~bus]
      BY <2>1
    <3>2. /\ DOMAIN gui' = Members /\ gui'.config = gui.config /\ gui'.phase = gui.phase
          /\ gui'.lastHwProfile = gui.lastHwProfile /\ gui'.bypassed = gui.bypassed
          /\ gui'.calls = Tail(gui.calls)
      <4>1. CASE gui' = [gui EXCEPT !.calls = Tail(@)]
        BY <1>1, <4>1 DEF Sound, Members
      <4>2. CASE gui' = [gui EXCEPT !.calls = Tail(@), !.actionInProgress = @ /\ ~bus]
        BY <1>1, <4>2 DEF Sound, Members
      <4> QED
        BY <3>1, <4>1, <4>2
    <3> QED
      BY <3>2
  <2>3. Queue(n.calls) /\ Known(n.calls) /\ Queue(gui.calls)
    BY <1>1, <2>1, <2>2, FirstGone DEF Sound
  <2>4. Head(gui.calls) \notin ProfileCommands /\ Head(gui.calls) \notin {FreezeCall, ThawCall}
    <3>1. FreezeCall[1] = "freeze_processes" /\ ThawCall[1] = "freeze_processes"
      BY DEF FreezeCall, ThawCall
    <3> QED
      BY <2>1, <3>1, ProfileCommandNames DEF ProfileNames
  <2>5. Sound(n)
    BY <1>1, <2>1, <2>2, <2>3, <2>4, SettledTaken DEF Sound, Believed
  <2>6. n.phase = "exited" => ~Frozen(n.calls)
    BY <2>1, <2>2, <2>3, <2>4, SettledTaken DEF IInv, Frozen
  <2> QED
    BY <2>2, <2>5, <2>6, SoundMembers
<1> QED
  BY <1>2, <1>3

\* A call that moves from the client's calls to the end of the backlog settles the same.
LEMMA SettledMoved ==
  ASSUME NEW calls, Queue(calls), calls # <<>>, NEW queue, Queue(queue),
         NEW on, NEW all, on \in all, NEW old
  PROVE  Settled(calls, on, all, Settled(queue, on, all, old)) <=>
           Settled(Tail(calls), on, all, Settled(Append(queue, Head(calls)), on, all, old))
<1> DEFINE before == Settled(queue, on, all, old)
           after == Settled(Append(queue, Head(calls)), on, all, old)
<1>1. CASE Head(calls) \in all
  <2>1. Settled(calls, on, all, before) <=> Settled(Tail(calls), on, all, Head(calls) = on)
    BY <1>1, SettledTaken
  <2>2. after <=> Head(calls) = on
    BY <1>1, SettledAppended
  <2> HIDE DEF after, before
  <2>3. Settled(Tail(calls), on, all, Head(calls) = on) <=> Settled(Tail(calls), on, all, after)
    BY <2>2, SettledMonotone
  <2> QED
    BY <2>1, <2>3 DEF after, before
<1>2. CASE Head(calls) \notin all
  <2>1. Settled(calls, on, all, before) <=> Settled(Tail(calls), on, all, before)
    BY <1>2, SettledTaken
  <2>2. after <=> before
    BY <1>2, SettledAppended
  <2> HIDE DEF after, before
  <2>3. Settled(Tail(calls), on, all, before) <=> Settled(Tail(calls), on, all, after)
    BY <2>2, SettledMonotone
  <2> QED
    BY <2>1, <2>3 DEF after, before
<1> QED
  BY <1>1, <1>2

LEMMA CallDaemonStep ==
  ASSUME IInv, CallDaemon
  PROVE  IInv'
<1> DEFINE head == Head(gui.calls)
           left == Tail(gui.calls)
           both == {FreezeCall, ThawCall}
<1>1. Sound(gui) /\ Queue(gui.calls) /\ gui.calls # <<>> /\ Queue(backlog) /\ Known(backlog)
  BY DEF IInv, CallDaemon, Sound
<1>2. /\ DOMAIN gui' = Members /\ gui'.config = gui.config /\ gui'.phase = gui.phase
      /\ gui'.lastHwProfile = gui.lastHwProfile /\ gui'.bypassed = gui.bypassed
      /\ gui'.calls = left
  <2>1. gui' = [gui EXCEPT !.calls = Tail(@)]
    BY DEF CallDaemon, G!WriteCall
  <2> QED
    BY <1>1, <2>1 DEF Sound, Members
<1>3. Queue(left) /\ Known(left) /\ Known(<<head>>)
  BY <1>1, Taken, KnownCommands DEF Sound
<1>4. \/ /\ mode = "up" /\ backlog' = Append(backlog, head) /\ lost' = lost
      \/ /\ mode # "up" /\ backlog' = backlog
         /\ lost' = (lost \/ head \in ProfileCommands)
  BY DEF CallDaemon, D!Connect, daemonVars
<1>5. hw' = hw /\ mode' = mode /\ frozen_procs' = frozen_procs
  <2>1. CASE mode = "up"
    BY <2>1 DEF CallDaemon, D!Connect, D!procVars, D!lists
  <2>2. CASE mode # "up"
    BY <2>2 DEF CallDaemon, daemonVars
  <2> QED
    BY <2>1, <2>2
<1>6. FreezeCall \in both
  OBVIOUS
<1> HIDE DEF head, left, both
<1>7. Queue(backlog') /\ Known(backlog') /\ (mode' # "up" => backlog' = <<>>)
  <2>1. Queue(Append(backlog, head)) /\ Known(Append(backlog, head))
    BY <1>1, <1>3, Appended, KnownCommands
  <2> QED
    BY <1>1, <1>4, <1>5, <2>1 DEF IInv
<1>8. ASSUME NEW p \in G!Profiles,
             Settled(gui.calls, G!ProfileCommand(p), ProfileCommands, InForce(p))
      PROVE  Settled(left, G!ProfileCommand(p), ProfileCommands, InForce(p)')
  <2> DEFINE on == G!ProfileCommand(p)
             old == lost \/ hw.profile = ProfileOf(p)
             old2 == lost' \/ hw.profile = ProfileOf(p)
  <2>1. on \in ProfileCommands
    BY ProfileCommandNames
  <2>2. /\ InForce(p) <=> Settled(backlog, on, ProfileCommands, old)
        /\ InForce(p)' <=> Settled(backlog', on, ProfileCommands, old2)
    BY <1>5 DEF InForce, ProfileCommands, ProfileOf
  <2> HIDE DEF on, old, old2
  <2>3. Settled(gui.calls, on, ProfileCommands, Settled(backlog, on, ProfileCommands, old))
    BY <1>8, <2>2, SettledMonotone DEF on
  <2>4. Settled(left, on, ProfileCommands, Settled(backlog', on, ProfileCommands, old2))
    <3>1. CASE mode = "up" /\ backlog' = Append(backlog, head) /\ lost' = lost
      <4>1. old2 <=> old
        BY <3>1 DEF old, old2
      <4>2. Settled(left, on, ProfileCommands, Settled(backlog', on, ProfileCommands, old))
        BY <1>1, <2>1, <2>3, <3>1, SettledMoved DEF head, left
      <4>3. Settled(backlog', on, ProfileCommands, old) =>
              Settled(backlog', on, ProfileCommands, old2)
        BY <4>1, SettledMonotone
      <4> QED
        BY <4>2, <4>3, SettledMonotone
    <3>2. CASE /\ mode # "up" /\ backlog' = backlog
               /\ lost' = (lost \/ head \in ProfileCommands)
      <4>1. backlog = <<>> /\ (Settled(backlog, on, ProfileCommands, old) <=> old)
        BY <3>2, SettledEmpty DEF IInv
      <4>2. Settled(backlog', on, ProfileCommands, old2) <=> old2
        BY <3>2, <4>1, SettledEmpty
      <4>3. Settled(gui.calls, on, ProfileCommands, old)
        BY <2>3, <4>1, SettledMonotone
      <4>4. CASE head \in ProfileCommands
        <5>1. Settled(left, on, ProfileCommands, head = on)
          BY <1>1, <4>3, <4>4, SettledTaken DEF head, left
        <5>2. old2
          BY <3>2, <4>4 DEF old2
        <5> QED
          BY <4>2, <5>1, <5>2, SettledMonotone
      <4>5. CASE head \notin ProfileCommands
        <5>1. Settled(left, on, ProfileCommands, old)
          BY <1>1, <4>3, <4>5, SettledTaken DEF head, left
        <5>2. old => old2
          BY <3>2 DEF old, old2
        <5> QED
          BY <4>2, <5>1, <5>2, SettledMonotone
      <4> QED
        BY <4>4, <4>5
    <3> QED
      BY <1>4, <3>1, <3>2
  <2> QED
    BY <2>2, <2>4, SettledMonotone DEF on
<1>9. Believed(gui)'
  <2>1. ASSUME ~gui.bypassed, gui.lastHwProfile # -1
        PROVE  Settled(left, G!ProfileCommand(gui.lastHwProfile), ProfileCommands,
                       InForce(gui.lastHwProfile)')
    <3>1. PICK p \in G!Profiles : p = gui.lastHwProfile
      BY <1>1, <2>1, EachProfileCommand DEF Sound
    <3>2. Settled(gui.calls, G!ProfileCommand(p), ProfileCommands, InForce(p))
      BY <1>1, <2>1, <3>1 DEF Sound, Believed
    <3>3. Settled(left, G!ProfileCommand(p), ProfileCommands, InForce(p)')
      BY <1>8, <3>2
    <3> QED
      BY <1>2, <3>1, <3>3
  <2> QED
    BY <1>2, <2>1 DEF Believed
<1>10. ASSUME Frozen(gui.calls)' PROVE Frozen(gui.calls)
  <2> DEFINE served == Settled(backlog, FreezeCall, both, frozen_procs)
             served2 == Settled(backlog', FreezeCall, both, frozen_procs)
  <2>1. Settled(left, FreezeCall, both, mode = "up" /\ served2)
    BY <1>2, <1>5, <1>10 DEF Frozen, FreezingServed, both
  <2>2. Settled(gui.calls, FreezeCall, both, mode = "up" /\ served)
    <3>1. CASE mode = "up" /\ backlog' = Append(backlog, head)
      <4>1. Settled(left, FreezeCall, both, served2)
        BY <2>1, SettledMonotone
      <4>2. Settled(gui.calls, FreezeCall, both, served)
        BY <1>1, <1>6, <3>1, <4>1, SettledMoved DEF head, left
      <4> HIDE DEF served
      <4> DEFINE frozen == mode = "up" /\ served
      <4>3. served => frozen
        BY <3>1
      <4> HIDE DEF frozen
      <4>4. Settled(gui.calls, FreezeCall, both, frozen)
        BY <4>2, <4>3, SettledMonotone
      <4> QED
        BY <4>4 DEF frozen
    <3>2. CASE mode # "up"
      <4> HIDE DEF served, served2
      <4>1. Settled(left, FreezeCall, both, FALSE)
        BY <2>1, <3>2, SettledMonotone
      <4>2. Settled(left, FreezeCall, both, head = FreezeCall)
        BY <4>1, SettledMonotone
      <4>3. Settled(gui.calls, FreezeCall, both, FALSE)
        BY <1>1, <4>1, <4>2, SettledTaken DEF head, left
      <4> QED
        BY <4>3, SettledMonotone
    <3> QED
      BY <1>4, <3>1, <3>2
  <2> QED
    BY <2>2 DEF Frozen, FreezingServed, both
<1> QED
  BY <1>1, <1>2, <1>3, <1>5, <1>7, <1>9, <1>10 DEF IInv, Sound
-----------------------------------------------------------------------------
(* The steps of the daemon. *)

LEMMA ProfileServed ==
  ASSUME "profile" \in DOMAIN hw, NEW name, NEW arg, D!HandleCommand(name, arg)
  PROVE  /\ "profile" \in DOMAIN hw'
         /\ name = "set_normal_profile" => hw'.profile = "balanced"
         /\ name = "set_perf_profile" => hw'.profile = "performance"
         /\ name = "set_low_profile" => hw'.profile = IF arg THEN "ultra_low" ELSE "low"
         /\ name \notin ProfileNames => hw'.profile = hw.profile
<1>1. \A profile, ultra :
        D!SetEnergyProfile(profile, ultra) => "profile" \in DOMAIN hw' /\ hw'.profile = profile
  BY DEF D!SetEnergyProfile
<1>2. CASE D!WriteHardware(name, arg)
  <2>1. CASE name = "set_normal_profile" /\ D!SetEnergyProfile("balanced", FALSE)
    BY <1>1, <2>1 DEF ProfileNames
  <2>2. CASE name = "set_low_profile" /\ D!SetLowProfile(arg)
    BY <1>1, <2>2 DEF D!SetLowProfile, ProfileNames
  <2>3. CASE /\ name \notin ProfileNames
             /\ \E field \in {"opmode", "ethernet", "webcam", "wifi", "bluetooth", "charge_limit"} :
                  \E v : hw' \in {hw, [hw EXCEPT ![field] = v]}
    BY <2>3 DEF ProfileNames
  <2> QED
    BY <1>2, <2>1, <2>2, <2>3
       DEF D!WriteHardware, D!ManageInterface, D!SetWebcamPower, ProfileNames
<1>3. CASE D!Cpu(name)
  <2>1. CASE name = "set_perf_profile" /\ D!SetPerfProfile
    BY <1>1, <2>1 DEF D!SetPerfProfile, ProfileNames
  <2>2. CASE name \in {"disable_cpu_cores", "reenable_cpu_cores"} /\ hw' = hw
    BY <2>2 DEF ProfileNames
  <2> QED
    BY <1>3, <2>1, <2>2 DEF D!Cpu
<1>4. CASE D!Tune(name, arg)
  BY <1>4 DEF D!Tune, ProfileNames
<1>5. CASE D!Freezing(name, arg)
  BY <1>5 DEF D!Freezing, ProfileNames
<1>6. CASE D!ServiceFreezing(name, arg)
  BY <1>6 DEF D!ServiceFreezing, ProfileNames
<1>7. CASE D!Control(name)
  BY <1>7 DEF D!Control, D!Names, D!Plain, D!Switches, ProfileNames
<1> QED
  BY <1>2, <1>3, <1>4, <1>5, <1>6, <1>7 DEF D!HandleCommand

LEMMA FreezingCommandServed ==
  ASSUME NEW name, NEW arg, D!HandleCommand(name, arg)
  PROVE  /\ name = "freeze_processes" => frozen_procs' = arg
         /\ name # "freeze_processes" => frozen_procs' = frozen_procs
<1>1. CASE D!WriteHardware(name, arg)
  BY <1>1 DEF D!WriteHardware, D!procVars
<1>2. CASE D!Cpu(name)
  BY <1>2 DEF D!Cpu, D!procVars
<1>3. CASE D!Tune(name, arg)
  BY <1>3 DEF D!Tune, D!procVars
<1>4. CASE D!Freezing(name, arg)
  BY <1>4 DEF D!Freezing, D!FreezeProcesses, D!SetProcsWhitelist, D!SetProcsBlacklist
<1>5. CASE D!ServiceFreezing(name, arg)
  BY <1>5 DEF D!ServiceFreezing, D!procVars
<1>6. CASE D!Control(name)
  BY <1>6 DEF D!Control, D!procVars, D!Names, D!Switches
<1> QED
  BY <1>1, <1>2, <1>3, <1>4, <1>5, <1>6 DEF D!HandleCommand

\* With the client at rest, what is left to show is about the backlog alone.
LEMMA SoundBacklog ==
  ASSUME IInv, UNCHANGED guiVars,
         Queue(backlog'), Known(backlog'), "profile" \in DOMAIN hw',
         mode' # "up" => backlog' = <<>>,
         \A p \in G!Profiles : InForce(p) => InForce(p)',
         FreezingServed' => FreezingServed
  PROVE  IInv'
<1>1. gui' = gui
  BY DEF guiVars
<1>2. Believed(gui)'
  <2>1. ASSUME ~gui.bypassed, gui.lastHwProfile # -1
        PROVE  Settled(gui.calls, G!ProfileCommand(gui.lastHwProfile), ProfileCommands,
                       InForce(gui.lastHwProfile)')
    <3>1. PICK p \in G!Profiles : p = gui.lastHwProfile
      BY <2>1, EachProfileCommand DEF IInv, Sound
    <3>2. Settled(gui.calls, G!ProfileCommand(p), ProfileCommands, InForce(p))
      BY <2>1, <3>1 DEF IInv, Sound, Believed
    <3>3. Settled(gui.calls, G!ProfileCommand(p), ProfileCommands, InForce(p)')
      BY <3>2, SettledMonotone
    <3> QED
      BY <1>1, <3>1, <3>3
  <2> QED
    BY <1>1, <2>1 DEF Believed
<1>3. ASSUME Frozen(gui.calls)' PROVE Frozen(gui.calls)
  <2>1. Settled(gui.calls, FreezeCall, {FreezeCall, ThawCall}, FreezingServed')
    BY <1>1, <1>3 DEF Frozen
  <2> QED
    BY <2>1, SettledMonotone DEF Frozen
<1> QED
  BY <1>1, <1>2, <1>3 DEF IInv, Sound

LEMMA CommandParts ==
  \A head : /\ head = <<"freeze_processes", FALSE>> => head[1] = "freeze_processes" /\ ~head[2]
            /\ head = <<"set_low_profile", FALSE>> => head[1] = "set_low_profile" /\ ~head[2]
            /\ head = <<"set_low_profile", TRUE>> => head[1] = "set_low_profile" /\ head[2]
<1>1. \A a, b : <<a, b>>[1] = a /\ <<a, b>>[2] = b
  OBVIOUS
<1>2. ASSUME NEW head, NEW name, head = <<name, FALSE>>
      PROVE  head[1] = name /\ ~head[2]
  BY <1>1, <1>2, Zenon
<1>3. ASSUME NEW head, NEW name, head = <<name, TRUE>>
      PROVE  head[1] = name /\ head[2]
  BY <1>1, <1>3, Zenon
<1> QED
  BY <1>2, <1>3, Zenon

LEMMA ServeStep ==
  ASSUME IInv, Serve
  PROVE  IInv'
<1> DEFINE head == Head(backlog)
           both == {FreezeCall, ThawCall}
<1>1. /\ mode = "up" /\ mode' = "up" /\ backlog # <<>> /\ backlog' = Tail(backlog)
      /\ D!HandleCommand(head[1], head[2])
      /\ lost' = (lost /\ head \notin ProfileCommands)
      /\ UNCHANGED guiVars
  BY DEF Serve, D!Serve
<1>2. /\ Queue(backlog) /\ Known(backlog) /\ Queue(backlog') /\ Known(backlog')
      /\ Known(<<head>>)
  BY <1>1, Taken, KnownCommands DEF IInv
<1>3. /\ head[1] \in ProfileNames => head \in ProfileCommands
      /\ head[1] = "freeze_processes" => head \in both
  <2>1. 1 \in DOMAIN <<head>> /\ <<head>>[1] = head
    OBVIOUS
  <2> QED
    BY <1>2, <2>1 DEF Known
<1>4. "profile" \in DOMAIN hw /\ "profile" \in DOMAIN hw'
  BY <1>1, ProfileServed DEF IInv
<1> HIDE DEF both
<1>5. ASSUME NEW p \in G!Profiles, head = G!ProfileCommand(p)
      PROVE  hw'.profile = ProfileOf(p)
  <2>1. CASE p = 0
    <3>1. head[1] = "set_low_profile" /\ ~head[2]
      <4>1. head = <<"set_low_profile", FALSE>>
        BY <1>5, <2>1, EachProfileCommand, Zenon
      <4> QED
        BY <4>1, CommandParts, Zenon
    <3>2. hw'.profile = "low"
      BY <1>1, <1>4, <3>1, ProfileServed
    <3> QED
      BY <2>1, <3>2 DEF ProfileOf
  <2>2. CASE p = 1
    <3>1. head[1] = "set_normal_profile"
      BY <1>5, <2>2, EachProfileCommand
    <3>2. hw'.profile = "balanced"
      BY <1>1, <1>4, <3>1, ProfileServed
    <3> QED
      BY <2>2, <3>2 DEF ProfileOf
  <2>3. CASE p = 2
    <3>1. head[1] = "set_perf_profile"
      BY <1>5, <2>3, EachProfileCommand
    <3>2. hw'.profile = "performance"
      BY <1>1, <1>4, <3>1, ProfileServed
    <3> QED
      BY <2>3, <3>2 DEF ProfileOf
  <2>4. CASE p = 3
    <3>1. head[1] = "set_low_profile" /\ head[2]
      <4>1. head = <<"set_low_profile", TRUE>>
        BY <1>5, <2>4, EachProfileCommand, Zenon
      <4> QED
        BY <4>1, CommandParts, Zenon
    <3>2. hw'.profile = "ultra_low"
      BY <1>1, <1>4, <3>1, ProfileServed
    <3> QED
      BY <2>4, <3>2 DEF ProfileOf
  <2> QED
    BY <2>1, <2>2, <2>3, <2>4, EachProfileCommand
<1>6. ASSUME head \notin ProfileCommands
      PROVE  hw'.profile = hw.profile /\ (lost' <=> lost)
  BY <1>1, <1>3, <1>4, <1>6, ProfileServed
<1>7. ASSUME NEW p \in G!Profiles, InForce(p) PROVE InForce(p)'
  <2> DEFINE on == G!ProfileCommand(p)
             old == lost \/ hw.profile = ProfileOf(p)
             old2 == lost' \/ hw'.profile = ProfileOf(p)
  <2>1. on \in ProfileCommands
    BY ProfileCommandNames
  <2>2. /\ Settled(backlog, on, ProfileCommands, old)
        /\ InForce(p)' <=> Settled(Tail(backlog), on, ProfileCommands, old2)
    BY <1>1, <1>7 DEF InForce, ProfileCommands, ProfileOf
  <2>3. CASE head \in ProfileCommands
    <3>1. head = on => old2
      BY <1>5
    <3> HIDE DEF on, old, old2
    <3>2. Settled(Tail(backlog), on, ProfileCommands, head = on)
      BY <1>1, <1>2, <2>2, <2>3, SettledTaken
    <3> QED
      BY <2>2, <3>1, <3>2, SettledMonotone
  <2>4. CASE head \notin ProfileCommands
    <3>1. old => old2
      BY <1>6, <2>4
    <3> HIDE DEF on, old, old2
    <3>2. Settled(Tail(backlog), on, ProfileCommands, old)
      BY <1>1, <1>2, <2>2, <2>4, SettledTaken
    <3> QED
      BY <2>2, <3>1, <3>2, SettledMonotone
  <2> QED
    BY <2>3, <2>4
<1>8. head = ThawCall => ~frozen_procs'
  <2>1. ASSUME head = ThawCall
        PROVE  head[1] = "freeze_processes" /\ ~head[2]
    BY <2>1, CommandParts, Zenon DEF ThawCall
  <2> QED
    BY <1>1, <2>1, FreezingCommandServed
<1>9. head \notin both => frozen_procs' = frozen_procs
  BY <1>1, <1>3, FreezingCommandServed
<1>10. ASSUME FreezingServed' PROVE FreezingServed
  <2> DEFINE new == frozen_procs'
             first == head = FreezeCall
  <2>1. Settled(Tail(backlog), FreezeCall, both, new)
    BY <1>1, <1>10 DEF FreezingServed, both
  <2>2. CASE head \in both
    <3>1. new => first
      BY <1>8, <2>2 DEF both
    <3> HIDE DEF new, first
    <3>2. Settled(Tail(backlog), FreezeCall, both, first)
      BY <2>1, <3>1, SettledMonotone
    <3>3. Settled(backlog, FreezeCall, both, frozen_procs)
      BY <1>1, <1>2, <2>2, <3>2, SettledTaken DEF first
    <3> QED
      BY <1>1, <3>3 DEF FreezingServed, both
  <2>3. CASE head \notin both
    <3>1. Settled(Tail(backlog), FreezeCall, both, frozen_procs)
      BY <1>9, <2>1, <2>3
    <3>2. Settled(backlog, FreezeCall, both, frozen_procs)
      BY <1>1, <1>2, <2>3, <3>1, SettledTaken
    <3> QED
      BY <1>1, <3>2 DEF FreezingServed, both
  <2> QED
    BY <2>2, <2>3
<1> QED
  BY <1>1, <1>2, <1>4, <1>7, <1>10, SoundBacklog

\* A daemon that goes down takes its backlog with it, and excuses the belief.
LEMMA GoDownStep ==
  ASSUME IInv, GoDown
  PROVE  IInv'
<1>1. lost' /\ UNCHANGED guiVars /\ backlog' = <<>> /\ mode' # "up"
  BY DEF GoDown, D!LeaveLoop, D!PollError, D!Crash, D!ShutDown
<1>2. "profile" \in DOMAIN hw'
  <2>1. DOMAIN D!RestoredHardware = DOMAIN hw
    BY DEF D!RestoredHardware
  <2>2. hw' = hw \/ hw' = D!RestoredHardware
    BY DEF GoDown, D!LeaveLoop, D!PollError, D!Crash, D!ShutDown, D!RestoreDefaults
  <2> QED
    BY <2>1, <2>2 DEF IInv
<1>3. \A p \in G!Profiles : InForce(p)'
  BY <1>1, SettledEmpty DEF InForce
<1>4. ~FreezingServed'
  BY <1>1 DEF FreezingServed
<1> QED
  BY <1>1, <1>2, <1>3, <1>4, KnownCommands, SoundBacklog

\* One that starts again has frozen nothing, whatever it did before.
LEMMA OtherStep ==
  ASSUME IInv, Other
  PROVE  IInv'
<1>1. /\ UNCHANGED guiVars /\ backlog' = backlog /\ hw' = hw /\ lost' = lost
      /\ mode' = mode \/ mode' = "up"
  BY DEF Other, D!Start, D!Signal, D!Environment, D!loopVars
<1>2. \A p \in G!Profiles : InForce(p) => InForce(p)'
  BY <1>1 DEF InForce, ProfileOf, ProfileCommands
<1>3. ASSUME FreezingServed' PROVE FreezingServed
  <2>1. CASE D!Start
    <3>1. backlog' = <<>> /\ ~frozen_procs'
      BY <1>1, <2>1 DEF IInv, D!Start, D!LoseProcMemory
    <3> QED
      BY <1>3, <3>1, SettledEmpty DEF FreezingServed
  <2>2. CASE D!Signal \/ D!Environment
    <3>1. mode' = mode /\ frozen_procs' = frozen_procs
      BY <2>2 DEF D!Signal, D!Environment, D!loopVars, D!procVars, D!Spawn, D!Exit
    <3> QED
      BY <1>1, <1>3, <3>1 DEF FreezingServed
  <2> QED
    BY <2>1, <2>2 DEF Other
<1> QED
  BY <1>1, <1>2, <1>3, SoundBacklog DEF IInv

-----------------------------------------------------------------------------
LEMMA InvInit == Init => IInv
<1> SUFFICES ASSUME Init PROVE IInv
  OBVIOUS
<1>1. PICK c \in Configs : gui = G!New(c)
  BY DEF Init, G!Init
<1>2. Sound(gui) /\ gui.phase # "exited"
  BY <1>1, NewSound
<1>3. backlog = <<>> /\ "profile" \in DOMAIN hw
  BY DEF Init, D!Init
<1> QED
  BY <1>2, <1>3, KnownCommands DEF IInv

LEMMA InvStep == IInv /\ [Next]_vars => IInv'
<1> SUFFICES ASSUME IInv, [Next]_vars PROVE IInv'
  OBVIOUS
<1>1. CASE CallDaemon
  BY <1>1, CallDaemonStep
<1>2. CASE Client
  BY <1>2, HandlersStep, LogindStep DEF Client
<1>3. CASE Serve
  BY <1>3, ServeStep
<1>4. CASE GoDown
  BY <1>4, GoDownStep
<1>5. CASE Other
  BY <1>5, OtherStep
<1>6. CASE UNCHANGED vars
  <2>1. gui' = gui /\ UNCHANGED <<daemonVars, lost>>
    BY <1>6 DEF vars, guiVars
  <2>2. Sound(gui) /\ (gui.phase = "exited" => ~Frozen(gui.calls))
    BY DEF IInv
  <2> QED
    BY <2>1, <2>2, SoundMembers
<1> QED
  BY <1>1, <1>2, <1>3, <1>4, <1>5, <1>6 DEF Next

LEMMA Invariance == Spec => []IInv
BY InvInit, InvStep, PTL DEF Spec

(***************************************************************************)
(* SetProfile skips a profile that it believes to be in force, rightly:    *)
(* with no profile command under way, nothing lost since and no other one  *)
(* told by a calibration since, it is what set_energy_profile wrote last.  *)
(***************************************************************************)
THEOREM SystemBeliefIsRight == Spec => []BeliefIsRight
<1>1. IInv => BeliefIsRight
  <2> SUFFICES ASSUME IInv, ~lost, ~gui.bypassed, InFlight = {}, gui.lastHwProfile # -1
               PROVE  hw.profile = ProfileOf(gui.lastHwProfile)
    BY DEF BeliefIsRight
  <2> DEFINE on == G!ProfileCommand(gui.lastHwProfile)
             old == lost \/ hw.profile = ProfileOf(gui.lastHwProfile)
  <2>1. /\ {i \in DOMAIN gui.calls : gui.calls[i] \in ProfileCommands} = {}
        /\ {i \in DOMAIN backlog : backlog[i] \in ProfileCommands} = {}
    BY DEF InFlight
  <2>2. Settled(gui.calls, on, ProfileCommands, InForce(gui.lastHwProfile))
    BY DEF IInv, Sound, Believed
  <2>3. InForce(gui.lastHwProfile)
    BY <2>1, <2>2 DEF Settled
  <2>4. Settled(backlog, on, ProfileCommands, old)
    BY <2>3 DEF InForce
  <2> HIDE DEF old
  <2>5. old
    BY <2>1, <2>4 DEF Settled
  <2> QED
    BY <2>5 DEF old
<1> QED
  BY <1>1, Invariance, PTL

(***************************************************************************)
(* The freeze_processes:0 of stop() is the last word about freezing: once  *)
(* everything is served, a client that has ended has left nothing frozen.  *)
(***************************************************************************)
THEOREM SystemExitThaws == Spec => []ExitThaws
<1>1. IInv => ExitThaws
  <2> SUFFICES ASSUME IInv, gui.phase = "exited", gui.calls = <<>>, backlog = <<>>, mode = "up",
                      frozen_procs
               PROVE  FALSE
    BY DEF ExitThaws
  <2>1. FreezingServed
    BY SettledEmpty DEF FreezingServed
  <2>2. Frozen(gui.calls)
    BY <2>1, SettledEmpty DEF Frozen
  <2> QED
    BY <2>2 DEF IInv
<1> QED
  BY <1>1, Invariance, PTL
=============================================================================
