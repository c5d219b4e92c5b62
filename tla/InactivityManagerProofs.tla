------------------------ MODULE InactivityManagerProofs ------------------------
(***************************************************************************)
(* For every set of configurations, charge levels, radios and wishes, and  *)
(* any number of polls, sleeps, logins and turns of the lid: powernap is a *)
(* thing of mains and of a closed lid, a warning that ends thaws what it   *)
(* froze, and after a sleep the cores and the battery timer are back.      *)
(*                                                                         *)
(* A handler is a chain of functions of the members.  Each of them is      *)
(* shown once to keep certain members (Same, Good, Sound, Preparing), the  *)
(* chain follows, and with it the step.                                    *)
(***************************************************************************)
EXTENDS InactivityManager, SequenceTheorems, TLAPS

Members ==
  {"config", "phase", "calls", "chargingState", "warnSimple", "warnCrit",
   "criticalLevelReached", "powerProfile", "lastHwProfile", "lastOpmode", "wifiInitialState",
   "bluetoothInitialState", "bluetoothTimer", "calibrationActive", "actionInProgress",
   "minimalMode", "batteryTimer", "lidOpen", "powernapEnabled", "inPowernap", "bypassed"}

\* Calls that wait; whether one of them asks for a sleep, and what they make of the cores,
\* the processes and the services.
Queue(calls) == \E S : calls \in Seq(S)
SleepIn(calls) == \E i \in DOMAIN calls : calls[i][1] = "logind"
CoresIn(calls) ==
  Latest(calls, <<"disable_cpu_cores", "-">>, <<"reenable_cpu_cores", "-">>, asked.cores_off)
ProcsIn(calls) ==
  Latest(calls, <<"freeze_processes", TRUE>>, <<"freeze_processes", FALSE>>, asked.procs)
ServicesIn(calls) ==
  Latest(calls, <<"freeze_services_dbus", "-">>, <<"unfreeze_all_frozen_services", "-">>,
         asked.services)

Shape(m) == DOMAIN m = Members /\ m.config \in Configs /\ Queue(m.calls)

\* n has the members that powernap depends on as m has them.
Alike(m, n) ==
  /\ Shape(n)
  /\ n.inPowernap = m.inPowernap /\ n.chargingState = m.chargingState /\ n.lidOpen = m.lidOpen
  /\ n.config = m.config /\ n.phase = m.phase

\* From m to n a sleep that was asked for stays asked for, and the battery timer stops and
\* the cores go only for a sleep, with a note that they have.
Kept(m, n) ==
  /\ SleepIn(m.calls) => SleepIn(n.calls)
  /\ m.batteryTimer \/ SleepIn(m.calls) => n.batteryTimer \/ SleepIn(n.calls)
  /\ CoresIn(n.calls) => \/ n.minimalMode /\ SleepIn(n.calls)
                         \/ CoresIn(m.calls) /\ (m.minimalMode => n.minimalMode)

Sound(m, n) == Alike(m, n) /\ Kept(m, n)

\* From m to n no warning begins or ends, and nothing is frozen.
ProcsCalm(m, n) == n.warnCrit = m.warnCrit /\ (ProcsIn(n.calls) => ProcsIn(m.calls))
ServicesCalm(m, n) == n.warnSimple = m.warnSimple /\ (ServicesIn(n.calls) => ServicesIn(m.calls))
Calm(m, n) ==
  ProcsCalm(m, n) /\ ServicesCalm(m, n) /\ n.criticalLevelReached = m.criticalLevelReached

Same(m, n) == Alike(m, n) /\ Kept(m, n) /\ Calm(m, n)

\* What a warning may do instead: freeze for as long as it lasts, if it thaws at its end.
ThawsProcs(m, n) ==
  ProcsIn(n.calls) /\ ~n.warnCrit => \/ ProcsIn(m.calls) /\ ~m.warnCrit
                                     \/ ~n.config.critical_freeze_processes
ThawsServices(m, n) ==
  ServicesIn(n.calls) /\ ~n.warnSimple => \/ ServicesIn(m.calls) /\ ~m.warnSimple
                                          \/ ~n.config.lowbat_freeze_services

\* What holds of that while a sleep is prepared and not yet asked for.
Preparing(m, n) ==
  /\ Alike(m, n) /\ Calm(m, n)
  /\ SleepIn(m.calls) => SleepIn(n.calls)
  /\ (CoresIn(m.calls) => m.minimalMode) => (CoresIn(n.calls) => n.minimalMode)

\* The invariant of the members, ...
GuiOK(m) == Shape(m) /\ (m.inPowernap => OnMains(m))

\* ... and what all but the lid's own handler do with them: none of them starts a powernap.
Good(m, n) ==
  /\ GuiOK(n) /\ n.lidOpen = m.lidOpen /\ (n.inPowernap => m.inPowernap)
  /\ n.phase = m.phase
  /\ Kept(m, n)

-----------------------------------------------------------------------------
(* Calls that are appended, and the one that is made. *)

LEMMA AppendCall ==
  ASSUME NEW calls, Queue(calls), NEW call
  PROVE  /\ Queue(Append(calls, call))
         /\ SleepIn(Append(calls, call)) <=> SleepIn(calls) \/ call[1] = "logind"
         /\ DOMAIN Append(calls, call) = DOMAIN calls \cup {Len(calls) + 1}
         /\ DOMAIN calls = 1..Len(calls) /\ Len(calls) \in Nat
         /\ \A i \in DOMAIN calls : Append(calls, call)[i] = calls[i]
         /\ Append(calls, call)[Len(calls) + 1] = call
<1>1. PICK S : calls \in Seq(S)
  BY DEF Queue
<1> DEFINE T == S \cup {call}
           more == Append(calls, call)
<1>2. calls \in Seq(T) /\ call \in T
  BY <1>1, SeqMonotonic
<1>3. /\ more \in Seq(T) /\ Len(more) = Len(calls) + 1
      /\ \A i \in 1..Len(calls) : more[i] = calls[i]
      /\ more[Len(calls) + 1] = call
  BY <1>2, AppendProperties
<1>4. /\ Len(calls) \in Nat /\ DOMAIN calls = 1..Len(calls)
      /\ DOMAIN more = 1..(Len(calls) + 1)
  BY <1>2, <1>3, LenProperties
<1> HIDE DEF more, T
<1>5. SleepIn(more) <=> SleepIn(calls) \/ call[1] = "logind"
  BY <1>3, <1>4 DEF SleepIn
<1>6. Queue(more)
  BY <1>3 DEF Queue
<1> QED
  BY <1>3, <1>4, <1>5, <1>6 DEF more

LEMMA LatestAppended ==
  ASSUME NEW calls, Queue(calls), NEW call, NEW on, NEW off, on # off, NEW old
  PROVE  /\ call = on => Latest(Append(calls, call), on, off, old)
         /\ call = off => ~Latest(Append(calls, call), on, off, old)
         /\ call \notin {on, off} =>
              (Latest(Append(calls, call), on, off, old) <=> Latest(calls, on, off, old))
<1> DEFINE more == Append(calls, call)
           last == Len(calls) + 1
           some == {i \in DOMAIN calls : calls[i] \in {on, off}}
           now == {i \in DOMAIN more : more[i] \in {on, off}}
<1>1. /\ DOMAIN more = DOMAIN calls \cup {last}
      /\ DOMAIN calls = 1..Len(calls) /\ Len(calls) \in Nat
      /\ \A i \in DOMAIN calls : more[i] = calls[i]
      /\ more[last] = call
  <2>1. DOMAIN Append(calls, call) = DOMAIN calls \cup {Len(calls) + 1}
    BY AppendCall
  <2>2. DOMAIN calls = 1..Len(calls) /\ Len(calls) \in Nat
    BY AppendCall
  <2>3. \A i \in DOMAIN calls : Append(calls, call)[i] = calls[i]
    BY AppendCall
  <2>4. Append(calls, call)[Len(calls) + 1] = call
    BY AppendCall
  <2> QED
    BY <2>1, <2>2, <2>3, <2>4
<1>2. /\ Latest(more, on, off, old) <=>
           IF now = {} THEN old ELSE \E i \in now : more[i] = on /\ \A j \in now : j <= i
      /\ Latest(calls, on, off, old) <=>
           IF some = {} THEN old ELSE \E i \in some : calls[i] = on /\ \A j \in some : j <= i
  BY DEF Latest
<1>3. CASE call \in {on, off}
  <2>1. last \in now /\ \A j \in now : j <= last
    BY <1>1, <1>3
  <2>2. \A i \in now : (\A j \in now : j <= i) => i = last
    BY <1>1, <2>1
  <2> HIDE DEF now
  <2> QED
    BY <1>1, <1>2, <1>3, <2>1, <2>2
<1>4. CASE call \notin {on, off}
  <2>1. now = some /\ \A i \in some : more[i] = calls[i]
    BY <1>1, <1>4
  <2> HIDE DEF now, some
  <2> QED
    BY <1>2, <1>4, <2>1
<1> QED
  BY <1>3, <1>4

LEMMA NoCalls ==
  /\ Queue(<<>>) /\ ~SleepIn(<<>>) /\ (CoresIn(<<>>) <=> asked.cores_off)
  /\ ProcsIn(<<>>) <=> asked.procs
  /\ ServicesIn(<<>>) <=> asked.services
<1>1. DOMAIN <<>> = {}
  OBVIOUS
<1>2. \A on, off, old : Latest(<<>>, on, off, old) = old
  BY <1>1 DEF Latest
<1> QED
  BY <1>1, <1>2, EmptySeq DEF Queue, SleepIn, CoresIn, ProcsIn, ServicesIn

\* The rest of the calls still holds a sleep that is not the first of them.
LEMMA TailCall ==
  ASSUME NEW calls, Queue(calls), calls # <<>>
  PROVE  /\ Queue(Tail(calls))
         /\ SleepIn(calls) /\ Head(calls)[1] # "logind" => SleepIn(Tail(calls))
<1>1. PICK S : calls \in Seq(S)
  BY DEF Queue
<1>2. /\ Tail(calls) \in Seq(S) /\ Len(Tail(calls)) = Len(calls) - 1
      /\ \A i \in 1..Len(Tail(calls)) : Tail(calls)[i] = calls[i + 1]
      /\ Head(calls) = calls[1]
  BY <1>1, HeadTailProperties
<1>3. /\ DOMAIN calls = 1..Len(calls) /\ Len(calls) \in Nat
      /\ DOMAIN Tail(calls) = 1..(Len(calls) - 1)
  BY <1>1, <1>2, LenProperties
<1>4. ASSUME SleepIn(calls), Head(calls)[1] # "logind"
      PROVE  SleepIn(Tail(calls))
  <2>1. PICK i \in 1..Len(calls) : calls[i][1] = "logind"
    BY <1>3, <1>4 DEF SleepIn
  <2>2. i # 1
    BY <1>2, <1>4, <2>1
  <2>3. i - 1 \in DOMAIN Tail(calls) /\ Tail(calls)[i - 1] = calls[i]
    BY <1>2, <1>3, <2>2
  <2> QED
    BY <2>1, <2>3 DEF SleepIn
<1> QED
  BY <1>2, <1>4 DEF Queue
-----------------------------------------------------------------------------
(* What leaves powernap, the lid and the charger alone. *)

LEMMA SameGood ==
  ASSUME NEW m, GuiOK(m), NEW n, Same(m, n)
  PROVE  Good(m, n)
BY DEF GuiOK, Same, Alike, Good, OnMains

LEMMA SameChain ==
  ASSUME NEW m, NEW n, NEW o, Same(m, n), Same(n, o)
  PROVE  Same(m, o)
BY DEF Same, Alike, Kept, Calm, ProcsCalm, ServicesCalm

LEMMA SameShape ==
  ASSUME NEW m, NEW n, Same(m, n)
  PROVE  Shape(n) /\ n.config = m.config
BY DEF Same, Alike

LEMMA GoodChain ==
  ASSUME NEW m, NEW n, NEW o, Good(m, n), Good(n, o)
  PROVE  Good(m, o)
BY DEF Good, Kept

LEMMA SameSelf ==
  ASSUME NEW m, Shape(m)
  PROVE  Same(m, m)
BY DEF Same, Alike, Kept, Calm, ProcsCalm, ServicesCalm

\* The calls that are neither about the cores nor about freezing.
Harmless(name) ==
  name \notin {"disable_cpu_cores", "reenable_cpu_cores", "freeze_processes",
               "freeze_services_dbus", "unfreeze_all_frozen_services"}

LEMMA HarmlessCalls ==
  /\ Harmless("set_webcam_power") /\ Harmless("toggle_ethernet") /\ Harmless("shutdown")
  /\ Harmless("set_cpu_driver_opmode") /\ Harmless("set_eco_freq_cap")
  /\ Harmless("set_balanced_usb_autosuspend") /\ Harmless("set_ultra_perf_mode")
  /\ Harmless("set_charge_limit") /\ Harmless("set_low_profile")
  /\ Harmless("set_normal_profile") /\ Harmless("set_perf_profile")
  /\ Harmless("set_rfkill_wifi") /\ Harmless("set_rfkill_bluetooth")
  /\ Harmless("set_procs_whitelist") /\ Harmless("set_procs_blacklist")
  /\ Harmless("set_whitelist") /\ Harmless("set_blacklist") /\ Harmless("logind")
BY DEF Harmless

\* A call, which may be one of the six that the history looks at.
LEMMA CallAlike ==
  ASSUME NEW m, Shape(m), NEW name, NEW arg
  PROVE  LET n == Call(m, name, arg)
         IN  /\ Alike(m, n)
             /\ SleepIn(n.calls) <=> SleepIn(m.calls) \/ name = "logind"
             /\ n.batteryTimer = m.batteryTimer /\ n.minimalMode = m.minimalMode
             /\ n.warnCrit = m.warnCrit /\ n.warnSimple = m.warnSimple
             /\ n.criticalLevelReached = m.criticalLevelReached
             /\ n.calls = Append(m.calls, <<name, arg>>)
<1> DEFINE n == Call(m, name, arg)
           call == <<name, arg>>
<1>1. /\ DOMAIN n = Members /\ n.config = m.config /\ n.calls = Append(m.calls, call)
      /\ n.phase = m.phase
      /\ n.inPowernap = m.inPowernap /\ n.chargingState = m.chargingState
      /\ n.lidOpen = m.lidOpen
      /\ n.batteryTimer = m.batteryTimer /\ n.minimalMode = m.minimalMode
      /\ n.warnCrit = m.warnCrit /\ n.warnSimple = m.warnSimple
      /\ n.criticalLevelReached = m.criticalLevelReached
  BY DEF Call, Shape, Members
<1>2. call[1] = name
  OBVIOUS
<1>3. Queue(m.calls) /\ m.config \in Configs
  BY DEF Shape
<1> HIDE DEF n
<1>4. Queue(n.calls) /\ (SleepIn(n.calls) <=> SleepIn(m.calls) \/ name = "logind")
  <2> HIDE DEF call
  <2>1. Queue(Append(m.calls, call))
    BY <1>3, AppendCall
  <2>2. SleepIn(Append(m.calls, call)) <=> SleepIn(m.calls) \/ call[1] = "logind"
    BY <1>3, AppendCall
  <2> QED
    BY <1>1, <1>2, <2>1, <2>2
<1> QED
  BY <1>1, <1>3, <1>4 DEF Alike, Shape, n

LEMMA CoresCalled ==
  ASSUME NEW calls, Queue(calls), NEW call
  PROVE  /\ call = <<"reenable_cpu_cores", "-">> => ~CoresIn(Append(calls, call))
         /\ call \notin {<<"disable_cpu_cores", "-">>, <<"reenable_cpu_cores", "-">>} =>
              (CoresIn(Append(calls, call)) <=> CoresIn(calls))
<1>1. <<"disable_cpu_cores", "-">> # <<"reenable_cpu_cores", "-">>
  OBVIOUS
<1> QED
  BY <1>1, LatestAppended DEF CoresIn

LEMMA ProcsCalled ==
  ASSUME NEW calls, Queue(calls), NEW call
  PROVE  /\ call = <<"freeze_processes", FALSE>> => ~ProcsIn(Append(calls, call))
         /\ call \notin {<<"freeze_processes", TRUE>>, <<"freeze_processes", FALSE>>} =>
              (ProcsIn(Append(calls, call)) <=> ProcsIn(calls))
<1>1. <<"freeze_processes", TRUE>> # <<"freeze_processes", FALSE>>
  OBVIOUS
<1> QED
  BY <1>1, LatestAppended DEF ProcsIn

LEMMA ServicesCalled ==
  ASSUME NEW calls, Queue(calls), NEW call
  PROVE  /\ call = <<"unfreeze_all_frozen_services", "-">> => ~ServicesIn(Append(calls, call))
         /\ call \notin {<<"freeze_services_dbus", "-">>, <<"unfreeze_all_frozen_services", "-">>} =>
              (ServicesIn(Append(calls, call)) <=> ServicesIn(calls))
<1>1. <<"freeze_services_dbus", "-">> # <<"unfreeze_all_frozen_services", "-">>
  OBVIOUS
<1> QED
  BY <1>1, LatestAppended DEF ServicesIn

\* What a call changes of that, by its name.
LEMMA CallChanges ==
  ASSUME NEW m, Shape(m), NEW name, NEW arg
  PROVE  LET n == Call(m, name, arg)
         IN  /\ name \notin {"disable_cpu_cores", "reenable_cpu_cores"} =>
                  (CoresIn(n.calls) <=> CoresIn(m.calls))
             /\ name # "freeze_processes" => (ProcsIn(n.calls) <=> ProcsIn(m.calls))
             /\ name \notin {"freeze_services_dbus", "unfreeze_all_frozen_services"} =>
                  (ServicesIn(n.calls) <=> ServicesIn(m.calls))
<1> DEFINE n == Call(m, name, arg)
           call == <<name, arg>>
<1>1. n.calls = Append(m.calls, call) /\ Queue(m.calls)
  BY CallAlike DEF Shape
<1>2. /\ name \notin {"disable_cpu_cores", "reenable_cpu_cores"} =>
           call \notin {<<"disable_cpu_cores", "-">>, <<"reenable_cpu_cores", "-">>}
      /\ name # "freeze_processes" =>
           call \notin {<<"freeze_processes", TRUE>>, <<"freeze_processes", FALSE>>}
      /\ name \notin {"freeze_services_dbus", "unfreeze_all_frozen_services"} =>
           call \notin {<<"freeze_services_dbus", "-">>, <<"unfreeze_all_frozen_services", "-">>}
  OBVIOUS
<1> HIDE DEF n, call
<1> QED
  BY <1>1, <1>2, CoresCalled, ProcsCalled, ServicesCalled DEF n

LEMMA CallGivesBack ==
  ASSUME NEW m, Shape(m)
  PROVE  /\ ~CoresIn(Call(m, "reenable_cpu_cores", "-").calls)
         /\ ~ProcsIn(Call(m, "freeze_processes", FALSE).calls)
         /\ ~ServicesIn(Call(m, "unfreeze_all_frozen_services", "-").calls)
<1>1. Queue(m.calls)
  BY DEF Shape
<1>2. ~CoresIn(Call(m, "reenable_cpu_cores", "-").calls)
  <2>1. Call(m, "reenable_cpu_cores", "-").calls = Append(m.calls, <<"reenable_cpu_cores", "-">>)
    BY CallAlike
  <2> QED
    BY <1>1, <2>1, CoresCalled
<1>3. ~ProcsIn(Call(m, "freeze_processes", FALSE).calls)
  <2>1. Call(m, "freeze_processes", FALSE).calls = Append(m.calls, <<"freeze_processes", FALSE>>)
    BY CallAlike
  <2> QED
    BY <1>1, <2>1, ProcsCalled
<1>4. ~ServicesIn(Call(m, "unfreeze_all_frozen_services", "-").calls)
  <2>1. Call(m, "unfreeze_all_frozen_services", "-").calls
          = Append(m.calls, <<"unfreeze_all_frozen_services", "-">>)
    BY CallAlike
  <2> QED
    BY <1>1, <2>1, ServicesCalled
<1> QED
  BY <1>2, <1>3, <1>4

LEMMA CallSame ==
  ASSUME NEW m, Shape(m)
  PROVE  /\ \A name, arg : Harmless(name) =>
              Same(m, Call(m, name, arg)) /\ \A b : Same(m, CallIf(b, m, name, arg))
         /\ Same(m, Call(m, "reenable_cpu_cores", "-"))
         /\ Same(m, Call(m, "freeze_processes", FALSE))
         /\ Same(m, Call(m, "unfreeze_all_frozen_services", "-"))
         /\ \A state : Same(m, SetWifi(m, state)) /\ Same(m, SetBluetooth(m, state))
<1>1. ASSUME NEW name, NEW arg,
             \/ Harmless(name)
             \/ ~CoresIn(Call(m, name, arg).calls) /\ name = "reenable_cpu_cores"
             \/ ~ProcsIn(Call(m, name, arg).calls) /\ name = "freeze_processes"
             \/ ~ServicesIn(Call(m, name, arg).calls) /\ name = "unfreeze_all_frozen_services"
      PROVE  Same(m, Call(m, name, arg))
  <2> DEFINE n == Call(m, name, arg)
  <2>1. /\ Alike(m, n) /\ (SleepIn(m.calls) => SleepIn(n.calls))
        /\ n.batteryTimer = m.batteryTimer /\ n.minimalMode = m.minimalMode
        /\ n.warnCrit = m.warnCrit /\ n.warnSimple = m.warnSimple
        /\ n.criticalLevelReached = m.criticalLevelReached
    BY CallAlike
  <2>2. /\ CoresIn(n.calls) => CoresIn(m.calls)
        /\ ProcsIn(n.calls) => ProcsIn(m.calls)
        /\ ServicesIn(n.calls) => ServicesIn(m.calls)
    BY <1>1, CallChanges DEF Harmless
  <2> HIDE DEF n
  <2>3. Same(m, n)
    BY <2>1, <2>2 DEF Same, Kept, Calm, ProcsCalm, ServicesCalm
  <2> QED
    BY <2>3 DEF n
<1>2. /\ Same(m, Call(m, "reenable_cpu_cores", "-"))
      /\ Same(m, Call(m, "freeze_processes", FALSE))
      /\ Same(m, Call(m, "unfreeze_all_frozen_services", "-"))
  BY <1>1, CallGivesBack
<1>3. \A state : Same(m, SetWifi(m, state)) /\ Same(m, SetBluetooth(m, state))
  BY <1>1, HarmlessCalls DEF SetWifi, SetBluetooth
<1> QED
  BY <1>1, <1>2, <1>3, SameSelf DEF CallIf

LEMMA ProfileCommandHarmless ==
  ASSUME NEW p \in Profiles
  PROVE  \E name, arg : ProfileCommand(p) = <<name, arg>> /\ Harmless(name)
<1>1. p = 0 \/ p = 1 \/ p = 2 \/ p = 3
  BY DEF Profiles
<1>2. CASE p = 0
  BY <1>2, HarmlessCalls DEF ProfileCommand
<1>3. CASE p = 1
  BY <1>3, HarmlessCalls DEF ProfileCommand
<1>4. CASE p = 2
  BY <1>4, HarmlessCalls DEF ProfileCommand
<1>5. CASE p = 3
  BY <1>5, HarmlessCalls DEF ProfileCommand
<1> QED
  BY <1>1, <1>2, <1>3, <1>4, <1>5

LEMMA SetProfileSame ==
  ASSUME NEW m, Shape(m), NEW p \in Profiles
  PROVE  Same(m, SetProfile(m, p))
<1>1. PICK name, arg : ProfileCommand(p) = <<name, arg>> /\ Harmless(name)
  BY ProfileCommandHarmless
<1> DEFINE told == Call(m, name, arg)
           n == [told EXCEPT !.lastHwProfile = p, !.powerProfile = IF p = 3 THEN 0 ELSE p,
                             !.bypassed = FALSE]
<1>2. SetProfile(m, p) \in {m, n}
  BY <1>1 DEF SetProfile, Call, Shape, Members
<1>3. Same(m, told)
  BY <1>1, CallSame, HarmlessCalls
<1> HIDE DEF told
<1>4. Same(told, n)
  BY <1>3 DEF Same, Alike, Kept, Calm, ProcsCalm, ServicesCalm, Shape, Members
<1> HIDE DEF n
<1> QED
  BY <1>2, <1>3, <1>4, SameChain, SameSelf

LEMMA AdjustProfileSame ==
  ASSUME NEW m, Shape(m)
  PROVE  Same(m, AdjustProfile(m))
<1> DEFINE opmode == IF OnMains(m) THEN 1 ELSE 0
           told == Call(m, "set_cpu_driver_opmode", OnMains(m))
           eth == CallIf(m.config.disable_eth = 2, told, "toggle_ethernet", OnMains(m))
           fresh == [eth EXCEPT !.lastOpmode = opmode,
                                !.lastHwProfile = IF opmode # m.lastOpmode THEN -1 ELSE @]
<1>1. AdjustProfile(m) = fresh \/ \E p \in Profiles : AdjustProfile(m) = SetProfile(fresh, p)
  <2>1. {m.config.bat_power_profile, m.config.ac_power_profile, m.config.ac_full_power_profile}
          \subseteq Profiles /\ {1, 3} \subseteq Profiles
    BY ConfigAssumption DEF Shape, Profiles
  <2> QED
    BY <2>1 DEF AdjustProfile
<1>2. Same(m, told)
  BY CallSame, HarmlessCalls
<1> HIDE DEF told
<1>3. Same(told, eth)
  BY <1>2, CallSame, HarmlessCalls, SameShape
<1> HIDE DEF eth
<1>4. Same(eth, fresh)
  BY <1>3 DEF Same, Alike, Kept, Calm, ProcsCalm, ServicesCalm, Shape, Members
<1> HIDE DEF fresh
<1>5. Same(m, fresh)
  BY <1>2, <1>3, <1>4, SameChain
<1> QED
  BY <1>1, <1>5, SetProfileSame, SameChain DEF Same, Alike

LEMMA EnterMinimalModePreparing ==
  ASSUME NEW m, Shape(m)
  PROVE  Preparing(m, EnterMinimalMode(m))
<1> DEFINE wifi == SetWifi(m, 0)
           bt == SetBluetooth(wifi, 0)
           quiet == Call(bt, "set_webcam_power", FALSE)
           low == SetProfile(quiet, 3)
           off == Call(low, "disable_cpu_cores", "-")
           n == [off EXCEPT !.minimalMode = TRUE]
<1>1. EnterMinimalMode(m) = n
  BY DEF EnterMinimalMode
<1>2. Same(m, wifi)
  BY CallSame, HarmlessCalls
<1> HIDE DEF wifi
<1>3. Same(wifi, bt)
  BY <1>2, CallSame, HarmlessCalls, SameShape
<1> HIDE DEF bt
<1>4. Same(bt, quiet)
  BY <1>3, CallSame, HarmlessCalls, SameShape
<1> HIDE DEF quiet
<1>5. Same(quiet, low)
  BY <1>4, SetProfileSame DEF Same, Alike, Profiles
<1> HIDE DEF low
<1>6. Same(m, low)
  BY <1>2, <1>3, <1>4, <1>5, SameChain
<1>7. Alike(low, off) /\ (SleepIn(low.calls) => SleepIn(off.calls)) /\ Calm(low, off)
  <2>1. Shape(low)
    BY <1>6, SameShape
  <2> QED
    BY <2>1, CallAlike, CallChanges DEF Calm, ProcsCalm, ServicesCalm
<1> HIDE DEF off
<1>8. Alike(off, n) /\ n.calls = off.calls /\ n.minimalMode /\ Calm(off, n)
  BY <1>7 DEF Alike, Shape, Members, Calm, ProcsCalm, ServicesCalm
<1> HIDE DEF n
<1> QED
  BY <1>1, <1>6, <1>7, <1>8 DEF Preparing, Same, Alike, Kept, Calm, ProcsCalm, ServicesCalm

LEMMA ExitMinimalModeSame ==
  ASSUME NEW m, Shape(m)
  PROVE  /\ Same(m, ExitMinimalMode(m))
         /\ CoresIn(ExitMinimalMode(m).calls) => CoresIn(m.calls) /\ ~m.minimalMode
<1> DEFINE on == Call(m, "reenable_cpu_cores", "-")
           seen == Call(on, "set_webcam_power", TRUE)
           n == [seen EXCEPT !.minimalMode = FALSE]
<1>1. ExitMinimalMode(m) = IF m.minimalMode THEN n ELSE m
  BY DEF ExitMinimalMode
<1>2. Same(m, on) /\ ~CoresIn(on.calls)
  BY CallSame, CallGivesBack
<1> HIDE DEF on
<1>3. Same(on, seen) /\ ~CoresIn(seen.calls)
  <2>1. Shape(on) /\ Harmless("set_webcam_power")
    BY <1>2, SameShape, HarmlessCalls
  <2>2. CoresIn(seen.calls) <=> CoresIn(on.calls)
    BY <2>1, CallChanges
  <2> QED
    BY <1>2, <2>1, <2>2, CallSame
<1> HIDE DEF seen
<1>4. Same(seen, n) /\ ~CoresIn(n.calls)
  BY <1>3 DEF Same, Alike, Kept, Calm, ProcsCalm, ServicesCalm, Shape, Members
<1> HIDE DEF n
<1>5. Same(m, n)
  BY <1>2, <1>3, <1>4, SameChain
<1> QED
  BY <1>1, <1>4, <1>5, SameSelf

LEMMA PrepareSuspendGeneralPreparing ==
  ASSUME NEW m, Shape(m), NEW hibernate, NEW radios
  PROVE  Preparing(m, PrepareSuspendGeneral(m, hibernate, radios))
<1> DEFINE still == [m EXCEPT
             !.batteryTimer = FALSE,
             !.wifiInitialState = IF @ = -1 THEN radios.wifi ELSE @,
             !.bluetoothInitialState = IF @ = -1 THEN radios.bluetooth ELSE @]
           cores == Call(still, "reenable_cpu_cores", "-")
           fast == SetProfile(cores, 2)
<1>1. PrepareSuspendGeneral(m, hibernate, radios) \in {fast, EnterMinimalMode(still), still}
  BY DEF PrepareSuspendGeneral
<1>2. Preparing(m, still)
  BY DEF Preparing, Alike, Calm, ProcsCalm, ServicesCalm, Shape, Members
<1> HIDE DEF still
<1>3. Same(still, cores)
  BY <1>2, CallSame DEF Preparing, Alike
<1> HIDE DEF cores
<1>4. Same(cores, fast)
  BY <1>3, SetProfileSame DEF Same, Alike, Profiles
<1> HIDE DEF fast
<1>5. Preparing(still, fast)
  BY <1>3, <1>4, SameChain DEF Same, Alike, Kept, Calm, ProcsCalm, ServicesCalm, Preparing
<1>6. Preparing(still, EnterMinimalMode(still))
  BY <1>2, EnterMinimalModePreparing DEF Preparing, Alike
<1>7. ASSUME NEW n, Preparing(still, n) PROVE Preparing(m, n)
  BY <1>2, <1>7 DEF Preparing, Alike, Calm, ProcsCalm, ServicesCalm
<1> QED
  BY <1>1, <1>2, <1>5, <1>6, <1>7

\* A sleep that is prepared is asked for in the same handler; a second one is not started.
LEMMA SleepAsks ==
  ASSUME NEW m, Shape(m), NEW way, NEW radios
  PROVE  /\ Same(m, Sleep(m, way, radios))
         /\ ~m.actionInProgress => SleepIn(Sleep(m, way, radios).calls)
<1> DEFINE acting == [m EXCEPT !.actionInProgress = TRUE]
           prepared == PrepareSuspendGeneral(acting, way = "hibernate", radios)
           n == Call(prepared, "logind", way)
<1>1. Sleep(m, way, radios) = IF m.actionInProgress THEN m ELSE n
  BY DEF Sleep
<1>2. Same(m, acting)
  BY DEF Same, Alike, Kept, Calm, ProcsCalm, ServicesCalm, Shape, Members
<1> HIDE DEF acting
<1>3. Preparing(acting, prepared)
  BY <1>2, PrepareSuspendGeneralPreparing DEF Same, Alike
<1> HIDE DEF prepared
<1>4. /\ Alike(prepared, n) /\ SleepIn(n.calls) /\ n.minimalMode = prepared.minimalMode
      /\ CoresIn(n.calls) => CoresIn(prepared.calls)
      /\ Calm(prepared, n)
  <2>1. Shape(prepared) /\ Harmless("logind")
    BY <1>3, HarmlessCalls DEF Preparing, Alike
  <2>2. CoresIn(n.calls) => CoresIn(prepared.calls)
    BY <2>1, CallChanges
  <2>3. Calm(prepared, n)
    BY <2>1, CallSame DEF Same
  <2> QED
    BY <2>1, <2>2, <2>3, CallAlike
<1> HIDE DEF n
<1>5. Same(acting, n)
  BY <1>3, <1>4 DEF Preparing, Same, Alike, Kept, Calm, ProcsCalm, ServicesCalm
<1> QED
  BY <1>1, <1>2, <1>4, <1>5, SameChain, SameSelf

LEMMA SleepSame ==
  ASSUME NEW m, Shape(m), NEW way, NEW radios
  PROVE  Same(m, Sleep(m, way, radios))
BY SleepAsks

LEMMA RestoreRadiosSame ==
  ASSUME NEW m, Shape(m)
  PROVE  Same(m, RestoreRadios(m))
<1> DEFINE wifi == IF m.wifiInitialState # -1 THEN SetWifi(m, m.wifiInitialState) ELSE m
<1>1. Same(m, wifi)
  BY CallSame, SameSelf
<1>2. RestoreRadios(m) \in {SetBluetooth(wifi, m.bluetoothInitialState), wifi}
  BY DEF RestoreRadios
<1> HIDE DEF wifi
<1>3. Same(wifi, SetBluetooth(wifi, m.bluetoothInitialState))
  BY <1>1, CallSame, HarmlessCalls, SameShape
<1> QED
  BY <1>1, <1>2, <1>3, SameChain

LEMMA SyncSame ==
  ASSUME NEW m, Shape(m)
  PROVE  Same(m, SyncDaemonAdvancedSettings(m))
<1> DEFINE capped == Call(m, "set_eco_freq_cap", m.config.eco_freq_cap)
           usb == Call(capped, "set_balanced_usb_autosuspend", m.config.balanced_usb_autosuspend)
           ultra == Call(usb, "set_ultra_perf_mode", m.config.ultra_performance_mode)
           n == CallIf(m.config.charge_limit_enabled, ultra, "set_charge_limit",
                       m.config.charge_limit_value)
<1>1. SyncDaemonAdvancedSettings(m) = n
  BY DEF SyncDaemonAdvancedSettings
<1>2. Same(m, capped)
  BY CallSame, HarmlessCalls
<1> HIDE DEF capped
<1>3. Same(capped, usb)
  BY <1>2, CallSame, HarmlessCalls, SameShape
<1> HIDE DEF usb
<1>4. Same(usb, ultra)
  BY <1>3, CallSame, HarmlessCalls, SameShape
<1> HIDE DEF ultra
<1>5. Same(ultra, n)
  BY <1>4, CallSame, HarmlessCalls, SameShape
<1> QED
  BY <1>1, <1>2, <1>3, <1>4, <1>5, SameChain
-----------------------------------------------------------------------------
(* The lid, and the charger: what starts and ends a powernap. *)

\* Closing the lid starts one on mains only.
LEMMA LidClosedOK ==
  ASSUME NEW m, GuiOK(m), NEW radios
  PROVE  /\ GuiOK(LidClosed(m, radios)) /\ LidClosed(m, radios).lidOpen = m.lidOpen
         /\ LidClosed(m, radios).phase = m.phase /\ LidClosed(m, radios).config = m.config
         /\ LidClosed(m, radios).chargingState = m.chargingState
         /\ Calm(m, LidClosed(m, radios))
         /\ Kept(m, LidClosed(m, radios))
         /\ ~OnMains(m) => Good(m, LidClosed(m, radios))
<1> DEFINE still == [m EXCEPT !.batteryTimer = FALSE]
           nap == EnterPowernap(still, radios)
           timer == [still EXCEPT !.batteryTimer = TRUE]
           n == LidClosed(m, radios)
<1>1. \/ n = m
      \/ OnMains(m) /\ n = nap
      \/ ~m.actionInProgress /\ \E way : n = Sleep(still, way, radios)
      \/ n = timer
  BY DEF LidClosed
<1>2. Shape(m)
  BY DEF GuiOK
<1>3. /\ Alike(m, still) /\ still.calls = m.calls /\ still.minimalMode = m.minimalMode
      /\ still.actionInProgress = m.actionInProgress /\ Calm(m, still)
  BY <1>2 DEF Alike, Shape, Members, Calm, ProcsCalm, ServicesCalm
<1>4. Same(m, timer)
  BY <1>2 DEF Same, Alike, Kept, Calm, ProcsCalm, ServicesCalm, Shape, Members
<1> HIDE DEF still, timer
\* The timer rests meanwhile, which is made up for in the end.
<1>5. ASSUME NEW o, Same(still, o), o.batteryTimer \/ SleepIn(o.calls)
      PROVE  Same(m, o)
  BY <1>3, <1>5 DEF Same, Alike, Kept, Calm, ProcsCalm, ServicesCalm
<1>6. ASSUME ~m.actionInProgress, NEW way PROVE Same(m, Sleep(still, way, radios))
  <2>1. Shape(still)
    BY <1>3 DEF Alike
  <2> QED
    BY <1>3, <1>5, <1>6, <2>1, SleepAsks
<1>7. OnMains(m) => /\ GuiOK(nap) /\ nap.lidOpen = m.lidOpen /\ nap.phase = m.phase
                    /\ nap.chargingState = m.chargingState /\ nap.config = m.config
                    /\ Kept(m, nap) /\ Calm(m, nap)
  <2> DEFINE noted == [still EXCEPT !.bluetoothInitialState =
                                      IF @ = -1 THEN radios.bluetooth ELSE @]
             off == SetBluetooth(noted, 0)
             bt == IF still.config.ac_lid_powernap_mode_disable_bt THEN off ELSE still
             noted2 == [bt EXCEPT !.wifiInitialState = IF @ = -1 THEN radios.wifi ELSE @]
             off2 == SetWifi(noted2, 0)
             wifi == IF still.config.ac_lid_powernap_mode_disable_wifi THEN off2 ELSE bt
             low == SetProfile(wifi, 0)
  <2>1. nap = [low EXCEPT !.inPowernap = TRUE, !.batteryTimer = TRUE]
    BY DEF EnterPowernap
  <2>2. Shape(still) /\ Same(still, still)
    BY <1>3, SameSelf DEF Alike
  <2>3. Same(still, noted)
    BY <2>2 DEF Same, Alike, Kept, Calm, ProcsCalm, ServicesCalm, Shape, Members
  <2> HIDE DEF noted
  <2>4. Same(noted, off)
    BY <2>3, CallSame, SameShape
  <2> HIDE DEF off
  <2>5. Same(still, bt)
    BY <2>2, <2>3, <2>4, SameChain
  <2> HIDE DEF bt
  <2>6. Same(bt, noted2)
    BY <2>5 DEF Same, Alike, Kept, Calm, ProcsCalm, ServicesCalm, Shape, Members
  <2> HIDE DEF noted2
  <2>7. Same(noted2, off2)
    BY <2>6, CallSame, SameShape
  <2> HIDE DEF off2
  <2>8. Same(still, wifi)
    BY <2>5, <2>6, <2>7, SameChain
  <2> HIDE DEF wifi
  <2>9. Same(wifi, low)
    BY <2>8, SetProfileSame, SameShape DEF Profiles
  <2>10. Same(still, low)
    BY <2>8, <2>9, SameChain
  <2> HIDE DEF low, nap
  <2>11. /\ DOMAIN nap = Members /\ nap.config = low.config /\ nap.phase = low.phase
         /\ nap.chargingState = low.chargingState /\ nap.lidOpen = low.lidOpen
         /\ nap.calls = low.calls /\ nap.minimalMode = low.minimalMode /\ nap.batteryTimer
         /\ nap.warnCrit = low.warnCrit /\ nap.warnSimple = low.warnSimple
         /\ nap.criticalLevelReached = low.criticalLevelReached
    BY <2>1, <2>10 DEF Same, Alike, Shape, Members
  <2>12. Kept(m, nap) /\ Calm(m, nap)
    BY <1>3, <2>10, <2>11 DEF Same, Alike, Kept, Calm, ProcsCalm, ServicesCalm
  <2>13. /\ Shape(nap) /\ nap.chargingState = m.chargingState /\ nap.lidOpen = m.lidOpen
         /\ nap.phase = m.phase /\ nap.config = m.config
    BY <1>3, <2>10, <2>11 DEF Same, Alike, Shape
  <2> QED
    BY <2>12, <2>13 DEF GuiOK, OnMains
<1> HIDE DEF n, nap
<1>8. CASE OnMains(m) /\ n = nap
  BY <1>7, <1>8 DEF n
<1>9. CASE ~(OnMains(m) /\ n = nap)
  <2>1. Same(m, n)
    BY <1>1, <1>2, <1>4, <1>6, <1>9, SameSelf
  <2>2. Good(m, n)
    BY <2>1, SameGood
  <2>3. n.chargingState = m.chargingState /\ n.config = m.config /\ Calm(m, n)
    BY <2>1 DEF Same, Alike
  <2> QED
    BY <2>2, <2>3 DEF Good, n
<1> QED
  BY <1>8, <1>9

\* Opening it ends one, if nothing is in the way.
LEMMA LidOpenedOK ==
  ASSUME NEW m, GuiOK(m)
  PROVE  /\ Good(m, LidOpened(m)) /\ Calm(m, LidOpened(m))
         /\ LidOpened(m).inPowernap => m.calibrationActive \/ m.actionInProgress
<1> DEFINE n == LidOpened(m)
           ended == [m EXCEPT !.inPowernap = FALSE]
           adjusted == AdjustProfile(ended)
           restored == RestoreRadios(adjusted)
           nap == [restored EXCEPT !.batteryTimer = TRUE]
           timer == [m EXCEPT !.batteryTimer = TRUE]
<1>1. \/ n = m /\ (m.calibrationActive \/ m.actionInProgress)
      \/ n = nap
      \/ n = timer /\ ~(~m.calibrationActive /\ ~m.actionInProgress /\ m.inPowernap)
           /\ ~(m.calibrationActive \/ m.actionInProgress)
  BY DEF LidOpened
<1>2. Shape(m)
  BY DEF GuiOK
<1>3. /\ Shape(ended) /\ ~ended.inPowernap /\ ended.lidOpen = m.lidOpen /\ Kept(m, ended)
      /\ ended.phase = m.phase /\ Calm(m, ended)
  BY <1>2 DEF Shape, Kept, Calm, ProcsCalm, ServicesCalm, Members
<1> HIDE DEF ended
<1>4. Same(ended, adjusted)
  BY <1>3, AdjustProfileSame
<1> HIDE DEF adjusted
<1>5. Same(adjusted, restored)
  BY <1>4, RestoreRadiosSame, SameShape
<1> HIDE DEF restored
<1>6. Same(restored, nap)
  BY <1>5 DEF Same, Alike, Kept, Calm, ProcsCalm, ServicesCalm, Shape, Members
<1> HIDE DEF nap
<1>7. Same(ended, nap)
  BY <1>4, <1>5, <1>6, SameChain
<1>8. Good(m, nap) /\ ~nap.inPowernap /\ Calm(m, nap)
  BY <1>3, <1>7 DEF Same, Alike, Good, GuiOK, Kept, Calm, ProcsCalm, ServicesCalm
<1>9. Same(m, timer) /\ Same(m, m)
  BY <1>2, SameSelf DEF Same, Alike, Kept, Calm, ProcsCalm, ServicesCalm, Shape, Members
<1> HIDE DEF timer
<1>10. /\ Good(m, timer) /\ Good(m, m) /\ timer.inPowernap = m.inPowernap
       /\ Calm(m, timer) /\ Calm(m, m)
  BY <1>9, SameGood DEF Same, Alike
<1> QED
  BY <1>1, <1>8, <1>10

\* Losing the charger ends one, and acts on a lid that is then on the battery.
LEMMA TransitionGood ==
  ASSUME NEW m, GuiOK(m), NEW state \in 0..2, NEW radios
  PROVE  LET n == Transition(m, state, radios)
         IN  Good(m, n) /\ Calm(m, n) /\ n.config = m.config /\ n.chargingState = state
<1> DEFINE read == [m EXCEPT !.chargingState = state]
           adjusted == AdjustProfile(read)
           ended == [adjusted EXCEPT !.inPowernap = FALSE]
           restored == RestoreRadios(ended)
           closed == LidClosed(restored, radios)
           n == Transition(m, state, radios)
<1>1. /\ Shape(read) /\ read.chargingState = state /\ Kept(m, read) /\ read.phase = m.phase
      /\ read.inPowernap = m.inPowernap /\ read.lidOpen = m.lidOpen
      /\ Calm(m, read) /\ read.config = m.config
  BY DEF GuiOK, Shape, Kept, Calm, ProcsCalm, ServicesCalm, Members
<1>2. \/ n = read /\ (m.chargingState = -1 \/ state = m.chargingState \/ state \in {1, 2})
      \/ n = closed /\ state = 0
      \/ n = adjusted /\ ~(m.chargingState \in {1, 2} /\ state = 0 /\ m.inPowernap)
  BY DEF Transition
<1> HIDE DEF read
<1>3. Same(read, adjusted)
  BY <1>1, AdjustProfileSame
<1> HIDE DEF adjusted
<1>4. /\ Shape(adjusted) /\ adjusted.chargingState = state /\ Kept(m, adjusted)
      /\ adjusted.phase = m.phase
      /\ adjusted.inPowernap = m.inPowernap /\ adjusted.lidOpen = m.lidOpen
      /\ Calm(m, adjusted) /\ adjusted.config = m.config
  BY <1>1, <1>3 DEF Same, Alike, Kept, Calm, ProcsCalm, ServicesCalm
<1>5. CASE n = closed /\ state = 0
  <2>1. /\ Shape(ended) /\ ~ended.inPowernap /\ ended.lidOpen = m.lidOpen
        /\ ended.chargingState = 0 /\ Kept(m, ended) /\ ended.phase = m.phase
        /\ Calm(m, ended) /\ ended.config = m.config
    BY <1>4, <1>5 DEF Kept, Calm, ProcsCalm, ServicesCalm, Shape, Members
  <2> HIDE DEF ended
  <2>2. Same(ended, restored)
    BY <2>1, RestoreRadiosSame
  <2> HIDE DEF restored
  <2>3. /\ Shape(restored) /\ ~OnMains(restored) /\ restored.lidOpen = m.lidOpen
        /\ ~restored.inPowernap /\ restored.phase = m.phase
    BY <2>1, <2>2 DEF Same, Alike, OnMains
  <2>4. /\ Kept(m, restored) /\ Calm(m, restored) /\ restored.config = m.config
        /\ restored.chargingState = 0
    BY <2>1, <2>2 DEF Same, Alike, Kept, Calm, ProcsCalm, ServicesCalm
  <2>5. GuiOK(restored)
    BY <2>3 DEF GuiOK
  <2>6. /\ Good(restored, closed) /\ Calm(restored, closed)
        /\ closed.config = restored.config /\ closed.chargingState = restored.chargingState
    BY <2>3, <2>5, LidClosedOK
  <2> HIDE DEF closed
  <2> QED
    BY <1>5, <2>3, <2>4, <2>6 DEF Good, Kept, Calm, ProcsCalm, ServicesCalm, n
<1>6. CASE n = read /\ (m.chargingState = -1 \/ state = m.chargingState \/ state \in {1, 2})
  BY <1>1, <1>6 DEF Good, GuiOK, OnMains, n
<1>7. CASE n = adjusted /\ ~(m.chargingState \in {1, 2} /\ state = 0 /\ m.inPowernap)
  BY <1>4, <1>7 DEF Good, GuiOK, OnMains, n
<1> HIDE DEF closed, n
<1> QED
  BY <1>2, <1>5, <1>6, <1>7
-----------------------------------------------------------------------------
(* The warnings. *)

LEMMA SoundChain ==
  ASSUME NEW m, NEW n, NEW o, Sound(m, n), Sound(n, o)
  PROVE  Sound(m, o)
BY DEF Sound, Alike, Kept

LEMMA SameSound ==
  ASSUME NEW m, NEW n, Same(m, n)
  PROVE  Sound(m, n) /\ ProcsCalm(m, n) /\ ServicesCalm(m, n)
BY DEF Same, Sound, Calm

LEMMA SoundShape ==
  ASSUME NEW m, NEW n, Sound(m, n)
  PROVE  Shape(n) /\ n.config = m.config
BY DEF Sound, Alike

LEMMA CalmChain ==
  ASSUME NEW m, NEW n, NEW o
  PROVE  /\ ProcsCalm(m, n) /\ ProcsCalm(n, o) => ProcsCalm(m, o)
         /\ ServicesCalm(m, n) /\ ServicesCalm(n, o) => ServicesCalm(m, o)
BY DEF ProcsCalm, ServicesCalm

LEMMA ThawsChain ==
  ASSUME NEW m, NEW n, NEW o, o.config = n.config
  PROVE  /\ ThawsProcs(m, n) /\ ThawsProcs(n, o) => ThawsProcs(m, o)
         /\ ThawsServices(m, n) /\ ThawsServices(n, o) => ThawsServices(m, o)
BY DEF ThawsProcs, ThawsServices

LEMMA CalmThaws ==
  ASSUME NEW m, NEW n
  PROVE  /\ ProcsCalm(m, n) => ThawsProcs(m, n)
         /\ ServicesCalm(m, n) => ThawsServices(m, n)
BY DEF ThawsProcs, ThawsServices, ProcsCalm, ServicesCalm

\* Freezing the one leaves the other alone.
LEMMA FreezingSound ==
  ASSUME NEW m, Shape(m)
  PROVE  /\ Sound(m, FreezeProcesses(m)) /\ ServicesCalm(m, FreezeProcesses(m))
         /\ FreezeProcesses(m).warnCrit = m.warnCrit
         /\ Sound(m, FreezeServices(m)) /\ ProcsCalm(m, FreezeServices(m))
         /\ FreezeServices(m).warnSimple = m.warnSimple
<1>1. ASSUME NEW n, Shape(n), NEW a, Harmless(a), NEW b, NEW c, Harmless(c), NEW d
      PROVE  Same(n, Call(Call(n, a, b), c, d))
  <2> DEFINE o == Call(n, a, b)
  <2>1. Same(n, o)
    BY <1>1, CallSame
  <2> HIDE DEF o
  <2>2. Same(o, Call(o, c, d))
    BY <1>1, <2>1, CallSame, SameShape
  <2> QED
    BY <2>1, <2>2, SameChain DEF o
<1> DEFINE procs == Call(Call(m, "set_procs_whitelist", m.config.p_whitelist),
                         "set_procs_blacklist", m.config.p_blacklist)
           services == Call(Call(m, "set_whitelist", m.config.whitelist),
                            "set_blacklist", m.config.blacklist)
           p == Call(procs, "freeze_processes", TRUE)
           s == Call(services, "freeze_services_dbus", "-")
<1>2. Same(m, procs) /\ Same(m, services)
  BY <1>1, HarmlessCalls
<1>3. FreezeProcesses(m) = p /\ FreezeServices(m) = s
  BY DEF FreezeProcesses, FreezeServices
<1> HIDE DEF procs, services
<1>4. Shape(procs) /\ Shape(services)
  BY <1>2, SameShape
<1>5. Sound(procs, p) /\ ServicesCalm(procs, p) /\ p.warnCrit = procs.warnCrit
  <2> DEFINE arg == TRUE
             q == Call(procs, "freeze_processes", arg)
  <2> HIDE DEF arg
  <2>1. /\ Alike(procs, q) /\ (SleepIn(procs.calls) => SleepIn(q.calls))
        /\ q.batteryTimer = procs.batteryTimer /\ q.minimalMode = procs.minimalMode
        /\ q.warnCrit = procs.warnCrit /\ q.warnSimple = procs.warnSimple
    BY <1>4, CallAlike
  <2>2. CoresIn(q.calls) => CoresIn(procs.calls)
    BY <1>4, CallChanges
  <2>3. ServicesIn(q.calls) => ServicesIn(procs.calls)
    BY <1>4, CallChanges
  <2> HIDE DEF q
  <2>4. Sound(procs, q) /\ ServicesCalm(procs, q) /\ q.warnCrit = procs.warnCrit
    BY <2>1, <2>2, <2>3 DEF Sound, Kept, ServicesCalm
  <2> QED
    BY <2>4 DEF q, arg
<1>6. Sound(services, s) /\ ProcsCalm(services, s) /\ s.warnSimple = services.warnSimple
  <2>1. /\ Alike(services, s) /\ (SleepIn(services.calls) => SleepIn(s.calls))
        /\ s.batteryTimer = services.batteryTimer /\ s.minimalMode = services.minimalMode
        /\ s.warnCrit = services.warnCrit /\ s.warnSimple = services.warnSimple
    BY <1>4, CallAlike
  <2>2. CoresIn(s.calls) => CoresIn(services.calls)
    BY <1>4, CallChanges
  <2>3. ProcsIn(s.calls) => ProcsIn(services.calls)
    BY <1>4, CallChanges
  <2> HIDE DEF s
  <2> QED
    BY <2>1, <2>2, <2>3 DEF Sound, Kept, ProcsCalm
<1> HIDE DEF p, s
<1>7. /\ Sound(m, p) /\ ServicesCalm(m, p) /\ p.warnCrit = m.warnCrit
      /\ Sound(m, s) /\ ProcsCalm(m, s) /\ s.warnSimple = m.warnSimple
  BY <1>2, <1>5, <1>6, SameSound, SoundChain, CalmChain DEF ProcsCalm, ServicesCalm
<1> QED
  BY <1>3, <1>7

\* A warning that begins.
LEMMA EnteringSound ==
  ASSUME NEW m, Shape(m), NEW percent
  PROVE  /\ Sound(m, EnterCritical(m, percent)) /\ ServicesCalm(m, EnterCritical(m, percent))
         /\ EnterCritical(m, percent).warnCrit
         /\ Sound(m, EnterLow(m)) /\ ProcsCalm(m, EnterLow(m)) /\ EnterLow(m).warnSimple
<1> DEFINE warned == [m EXCEPT !.warnCrit = TRUE, !.criticalLevelReached = percent]
           unseen == Call(warned, "set_webcam_power", FALSE)
           dark == SetBluetooth(unseen, 0)
           frozen == IF m.config.critical_freeze_processes THEN FreezeProcesses(dark) ELSE dark
           c == AdjustProfile(frozen)
           low == [m EXCEPT !.warnSimple = TRUE]
           still == IF m.config.lowbat_freeze_services THEN FreezeServices(low) ELSE low
           l == AdjustProfile(still)
<1>1. EnterCritical(m, percent) = c /\ EnterLow(m) = l
  BY DEF EnterCritical, EnterLow
<1>2. /\ Sound(m, warned) /\ ServicesCalm(m, warned) /\ warned.warnCrit
      /\ Sound(m, low) /\ ProcsCalm(m, low) /\ low.warnSimple
  BY DEF Sound, Alike, Kept, ProcsCalm, ServicesCalm, Shape, Members
<1> HIDE DEF warned, low
<1>3. Same(warned, unseen)
  BY <1>2, CallSame, HarmlessCalls, SoundShape
<1> HIDE DEF unseen
<1>4. Same(unseen, dark)
  BY <1>3, CallSame, HarmlessCalls, SameShape
<1> HIDE DEF dark
<1>5. Same(warned, dark) /\ Shape(dark) /\ Shape(low)
  BY <1>2, <1>3, <1>4, SameChain, SameShape, SoundShape
<1>6. /\ Sound(dark, frozen) /\ ServicesCalm(dark, frozen) /\ frozen.warnCrit = dark.warnCrit
      /\ Sound(low, still) /\ ProcsCalm(low, still) /\ still.warnSimple = low.warnSimple
  <2>1. Same(dark, dark) /\ Same(low, low)
    BY <1>5, SameSelf
  <2> QED
    BY <1>5, <2>1, FreezingSound, SameSound
<1> HIDE DEF frozen, still
<1>7. Same(frozen, c) /\ Same(still, l)
  BY <1>6, AdjustProfileSame, SoundShape
<1> HIDE DEF c, l
<1>8. Sound(m, c) /\ ServicesCalm(m, c)
  BY <1>2, <1>5, <1>6, <1>7, SameSound, SoundChain, CalmChain
<1>9. Sound(m, l) /\ ProcsCalm(m, l)
  BY <1>2, <1>6, <1>7, SameSound, SoundChain, CalmChain
<1>10. c.warnCrit /\ l.warnSimple
  BY <1>2, <1>5, <1>6, <1>7, SameSound DEF ProcsCalm, ServicesCalm
<1> QED
  BY <1>1, <1>8, <1>9, <1>10

\* The critical action is due at this reading.
PollDue(m, state, percent) ==
  state = 0 /\ percent <= m.config.critical_level /\ CriticalActionDue(m, percent)

LEMMA WarnSound ==
  ASSUME NEW m, Shape(m), NEW percent, NEW radios
  PROVE  /\ Sound(m, Warn(m, percent, radios)) /\ ThawsServices(m, Warn(m, percent, radios))
         /\ ThawsProcs(m, Warn(m, percent, radios)) \/ PollDue(m, m.chargingState, percent)
<1> DEFINE due == [m EXCEPT !.warnCrit = FALSE]
           acted == RunCriticalAction(due, radios)
           critical == EnterCritical(m, percent)
           low == EnterLow(m)
           n == Warn(m, percent, radios)
<1>1. \/ n = m \/ n = critical \/ n = low
      \/ n = acted /\ PollDue(m, m.chargingState, percent)
  BY DEF Warn, PollDue
<1>2. Sound(m, due) /\ ServicesCalm(m, due)
  BY DEF Sound, Alike, Kept, ServicesCalm, Shape, Members
<1> HIDE DEF due
<1>3. \/ \E way : acted = Sleep(due, way, radios)
      \/ acted = Call(due, "shutdown", "-")
  <2>1. due.config.critical_action \in 0..2
    BY <1>2, ConfigAssumption DEF Sound, Alike, Shape
  <2> QED
    BY <2>1 DEF RunCriticalAction
<1>4. (\A way : Same(due, Sleep(due, way, radios))) /\ Same(due, Call(due, "shutdown", "-"))
  BY <1>2, SleepSame, CallSame, HarmlessCalls, SoundShape
<1> HIDE DEF acted
<1>5. Same(due, acted)
  BY <1>3, <1>4
<1>6. Sound(m, acted) /\ ServicesCalm(m, acted)
  BY <1>2, <1>5, SameSound, SoundChain, CalmChain
<1>7. /\ Sound(m, critical) /\ ServicesCalm(m, critical) /\ critical.warnCrit
      /\ Sound(m, low) /\ ProcsCalm(m, low) /\ low.warnSimple
  BY EnteringSound
<1>8. Sound(m, m) /\ ServicesCalm(m, m) /\ ProcsCalm(m, m)
  BY SameSelf, SameSound
<1> HIDE DEF critical, low, n
<1>9. ThawsProcs(m, critical) /\ ThawsServices(m, low)
  BY <1>7 DEF ThawsProcs, ThawsServices
<1>10. /\ Sound(m, n) /\ ThawsServices(m, n)
       /\ ThawsProcs(m, n) \/ PollDue(m, m.chargingState, percent)
  BY <1>1, <1>6, <1>7, <1>8, <1>9, CalmThaws
<1> QED
  BY <1>10 DEF n

\* A warning that ends.
LEMMA LeavingSound ==
  ASSUME NEW m, Shape(m)
  PROVE  /\ Sound(m, LeaveCritical(m)) /\ ServicesCalm(m, LeaveCritical(m))
         /\ ThawsProcs(m, LeaveCritical(m))
         /\ Sound(m, LeaveLow(m)) /\ ProcsCalm(m, LeaveLow(m)) /\ ThawsServices(m, LeaveLow(m))
<1> DEFINE quiet == [m EXCEPT !.warnCrit = FALSE]
           seen == Call(quiet, "set_webcam_power", TRUE)
           thawed == Call(seen, "freeze_processes", FALSE)
           woken == IF m.config.critical_freeze_processes THEN thawed ELSE seen
           calm == [m EXCEPT !.warnSimple = FALSE]
           started == Call(calm, "unfreeze_all_frozen_services", "-")
           left == LeaveCritical(m)
           low == LeaveLow(m)
<1>1. /\ \E state : left = SetBluetooth(woken, state)
      /\ low = IF m.config.lowbat_freeze_services THEN started ELSE calm
  BY DEF LeaveCritical, LeaveLow, CallIf
<1>2. Sound(m, quiet) /\ ServicesCalm(m, quiet) /\ Sound(m, calm) /\ ProcsCalm(m, calm)
  BY DEF Sound, Alike, Kept, ProcsCalm, ServicesCalm, Shape, Members
<1> HIDE DEF quiet, calm
<1>3. Same(quiet, seen)
  BY <1>2, CallSame, HarmlessCalls, SoundShape
<1> HIDE DEF seen
<1>4. Same(seen, thawed) /\ ~ProcsIn(thawed.calls)
  BY <1>3, CallSame, CallGivesBack, SameShape
<1> HIDE DEF thawed
<1>5. Same(quiet, woken) /\ (m.config.critical_freeze_processes => ~ProcsIn(woken.calls))
  BY <1>3, <1>4, SameChain
<1> HIDE DEF woken
<1>6. \A state : Same(woken, SetBluetooth(woken, state))
  BY <1>5, CallSame, SameShape
<1> HIDE DEF left
<1>7. Same(woken, left)
  BY <1>1, <1>6
<1>8. Sound(m, left) /\ ServicesCalm(m, left)
  BY <1>2, <1>5, <1>7, SameSound, SoundChain, CalmChain
<1>9. ThawsProcs(m, left)
  BY <1>5, <1>7, <1>8, SameSound, SoundShape DEF ThawsProcs, ProcsCalm
<1>10. Same(calm, started) /\ ~ServicesIn(started.calls) /\ Same(calm, calm)
  BY <1>2, CallSame, CallGivesBack, SameSelf, SoundShape
<1> HIDE DEF started, low
<1>11. Sound(m, low) /\ ProcsCalm(m, low)
  BY <1>1, <1>2, <1>10, SameSound, SoundChain, CalmChain
<1>12. ThawsServices(m, low)
  BY <1>1, <1>10, <1>11, SoundShape DEF ThawsServices
<1> QED
  BY <1>8, <1>9, <1>11, <1>12 DEF left, low

LEMMA ResetSound ==
  ASSUME NEW m, Shape(m), NEW percent
  PROVE  LET n == Reset(m, percent)
         IN  Sound(m, n) /\ ThawsProcs(m, n) /\ ThawsServices(m, n)
<1> DEFINE calm == IF m.warnCrit /\ (percent > m.config.critical_level \/ m.chargingState # 0)
                     THEN LeaveCritical(m) ELSE m
           n == Reset(m, percent)
<1>1. Sound(m, m) /\ ThawsProcs(m, m) /\ ThawsServices(m, m)
  BY SameSelf, SameSound, CalmThaws
<1>2. Sound(m, calm) /\ ThawsProcs(m, calm) /\ ThawsServices(m, calm)
  BY <1>1, LeavingSound, CalmThaws
<1>3. n \in {LeaveLow(calm), calm}
  BY DEF Reset
<1> HIDE DEF calm, n
<1>4. /\ Sound(calm, LeaveLow(calm)) /\ ThawsProcs(calm, LeaveLow(calm))
      /\ ThawsServices(calm, LeaveLow(calm)) /\ LeaveLow(calm).config = calm.config
  BY <1>2, LeavingSound, CalmThaws, SoundShape
<1>5. Sound(m, n) /\ ThawsProcs(m, n) /\ ThawsServices(m, n)
  BY <1>2, <1>3, <1>4, SoundChain, ThawsChain
<1> QED
  BY <1>5 DEF n

\* A poll as a whole.
LEMMA CheckBatteryStatusGood ==
  ASSUME NEW m, GuiOK(m), NEW reading \in Readings
  PROVE  LET n == CheckBatteryStatus(m, reading)
         IN  /\ Good(m, n) /\ n.config = m.config /\ ThawsServices(m, n)
             /\ ThawsProcs(m, n) \/ PollDue(m, reading.state, reading.percent)
<1> DEFINE moved == Transition(m, reading.state, reading.radios)
           warned == Warn(moved, reading.percent, reading.radios)
           reset == Reset(warned, reading.percent)
           n == CheckBatteryStatus(m, reading)
<1>1. n \in {AdjustProfile(reset), reset}
  BY DEF CheckBatteryStatus
<1>2. /\ Good(m, moved) /\ Calm(m, moved) /\ moved.config = m.config
      /\ moved.chargingState = reading.state /\ Shape(moved) /\ GuiOK(moved)
  <2>1. reading.state \in 0..2
    BY DEF Readings
  <2> QED
    BY <2>1, TransitionGood DEF Good, GuiOK
<1> HIDE DEF moved
<1>3. /\ Sound(moved, warned) /\ ThawsServices(moved, warned)
      /\ ThawsProcs(moved, warned) \/ PollDue(moved, reading.state, reading.percent)
  BY <1>2, WarnSound
<1> HIDE DEF warned
<1>4. Sound(warned, reset) /\ ThawsProcs(warned, reset) /\ ThawsServices(warned, reset)
  BY <1>3, ResetSound, SoundShape
<1> HIDE DEF reset
<1>5. Same(reset, AdjustProfile(reset)) /\ Same(reset, reset)
  BY <1>4, AdjustProfileSame, SameSelf, SoundShape
<1> HIDE DEF n
<1>6. Sound(reset, n) /\ ThawsProcs(reset, n) /\ ThawsServices(reset, n)
  BY <1>1, <1>5, SameSound, CalmThaws
<1>7. Sound(moved, n) /\ reset.config = warned.config /\ n.config = reset.config
  BY <1>3, <1>4, <1>6, SoundChain, SoundShape
<1>8. /\ ThawsServices(moved, n)
      /\ ThawsProcs(moved, n) \/ PollDue(moved, reading.state, reading.percent)
  BY <1>3, <1>4, <1>6, <1>7, ThawsChain
<1>9. Good(moved, n)
  BY <1>2, <1>7 DEF Sound, Alike, Good, GuiOK, OnMains
<1>10. Good(m, n) /\ n.config = m.config
  BY <1>2, <1>7, <1>9, GoodChain, SoundShape
<1>11. ThawsServices(m, n)
  BY <1>2, <1>8 DEF ThawsServices, Calm, ServicesCalm
<1>12. ThawsProcs(m, n) \/ PollDue(m, reading.state, reading.percent)
  <2>1. PollDue(moved, reading.state, reading.percent) => PollDue(m, reading.state, reading.percent)
    BY <1>2 DEF PollDue, CriticalActionDue, Calm, ProcsCalm
  <2>2. ThawsProcs(moved, n) => ThawsProcs(m, n)
    BY <1>2 DEF ThawsProcs, Calm, ProcsCalm
  <2> QED
    BY <1>8, <2>1, <2>2
<1> QED
  BY <1>10, <1>11, <1>12 DEF n

\* What a calibration tells the daemon.
LEMMA CalibrationTellsSame ==
  ASSUME NEW m, Shape(m), NEW p \in Profiles
  PROVE  Same(m, CalibrationTells(m, p))
<1>1. PICK name, arg : ProfileCommand(p) = <<name, arg>> /\ Harmless(name)
  BY ProfileCommandHarmless
<1> DEFINE told == Call(m, name, arg)
           n == [told EXCEPT !.bypassed = TRUE]
<1>2. CalibrationTells(m, p) = n
  BY <1>1 DEF CalibrationTells, Call, Shape, Members
<1>3. Same(m, told)
  BY <1>1, CallSame, HarmlessCalls
<1> HIDE DEF told
<1>4. Same(told, n)
  BY <1>3 DEF Same, Alike, Kept, Calm, ProcsCalm, ServicesCalm, Shape, Members
<1> HIDE DEF n
<1> QED
  BY <1>2, <1>3, <1>4, SameChain

LEMMA HeardSame ==
  ASSUME NEW m, Shape(m), NEW percent, NEW p \in Wanted(m, percent)
  PROVE  Same(m, Heard(m, p))
<1>1. p = -1 \/ p \in Profiles \ {-1}
  BY DEF Wanted, Profiles
<1> QED
  BY <1>1, CalibrationTellsSame, SameSelf DEF Heard

LEMMA CheckWithoutBatteryGood ==
  ASSUME NEW m, GuiOK(m)
  PROVE  Good(m, CheckWithoutBattery(m))
BY DEF CheckWithoutBattery, GuiOK, Shape, Good, Kept, OnMains, Members

-----------------------------------------------------------------------------
(* The steps. *)

\* What logind has said and the event loop has yet to dispatch ends in a wake-up, unless the
\* machine is still in the sleep.
SignalsOK ==
  /\ signals \in Seq(BOOLEAN)
  /\ gui.phase # "running" => signals = <<>>
  /\ signals # <<>> /\ signals[Len(signals)] => machine # "awake"

\* A client that has not begun warns of nothing, and one that has ended leaves nothing frozen
\* that its warning would have thawed.
EndedOK ==
  /\ gui.phase = "new" => ~gui.warnCrit /\ ~gui.warnSimple
  /\ gui.phase \in {"exited", "killed"} => ~(asked.procs /\ gui.warnCrit)
                                         /\ ~(asked.services /\ gui.warnSimple)

IInv == GuiOK(gui) /\ SignalsOK /\ EndedOK

NapsOnClosedLid ==
  gui'.inPowernap /\ gui'.lidOpen =>
    (gui.inPowernap /\ gui.lidOpen) \/ gui.actionInProgress

CoresKept ==
  CoresTaken' => \/ CoresTaken
                 \/ LogindRefuses
                 \/ Killed
                 \/ Stop
                 \/ AfterWakeActions /\ ~gui.config.minimal_state_before_suspend

PollingKept == PollingLost' => PollingLost \/ LogindRefuses \/ PrepareForShutdown

FreezingKept ==
  /\ ProcsLeft' => \/ ProcsLeft
                   \/ CriticalActionTaken
                   \/ PollWithoutBattery
                   \/ Killed
                   \/ ~gui'.config.critical_freeze_processes
  /\ ServicesLeft' => \/ ServicesLeft
                      \/ PollWithoutBattery
                      \/ Killed
                      \/ ~gui'.config.lowbat_freeze_services

StepFacts == IInv' /\ NapsOnClosedLid /\ CoresKept /\ PollingKept /\ FreezingKept

LEMMA PendingIs ==
  SleepPending <=> /\ gui.phase = "running"
                   /\ machine # "awake" \/ signals # <<>> \/ SleepIn(gui.calls)
BY DEF SleepPending, SleepIn

LEMMA PendingWillBe ==
  SleepPending' <=> /\ gui'.phase = "running"
                    /\ machine' # "awake" \/ signals' # <<>> \/ SleepIn(gui'.calls)
BY DEF SleepPending, SleepIn

LEMMA AskedCores ==
  ASSUME asked' = Asked(gui'.calls)
  PROVE  /\ asked'.cores_off <=> CoresIn(gui'.calls)
         /\ asked'.procs <=> ProcsIn(gui'.calls)
         /\ asked'.services <=> ServicesIn(gui'.calls)
BY DEF Asked, CoresIn, ProcsIn, ServicesIn

\* Before a handler runs nothing waits in calls.
LEMMA IdleCalls ==
  ASSUME Idle
  PROVE  /\ ~SleepIn(gui.calls)
         /\ CoresIn(gui.calls) <=> asked.cores_off
         /\ ProcsIn(gui.calls) <=> asked.procs
         /\ ServicesIn(gui.calls) <=> asked.services
BY NoCalls DEF Idle

\* What a handler makes of the members tells what becomes of the freezing.
LEMMA ThawsOK ==
  ASSUME Idle, asked' = Asked(gui'.calls),
         ThawsProcs(gui, gui') \/ CriticalActionTaken, ThawsServices(gui, gui')
  PROVE  FreezingKept
<1>1. (asked'.procs <=> ProcsIn(gui'.calls)) /\ (asked'.services <=> ServicesIn(gui'.calls))
  BY AskedCores
<1>2. (ProcsIn(gui.calls) <=> asked.procs) /\ (ServicesIn(gui.calls) <=> asked.services)
  BY IdleCalls
<1>3. ProcsLeft' => \/ ProcsLeft \/ CriticalActionTaken
                   \/ ~gui'.config.critical_freeze_processes
  BY <1>1, <1>2 DEF ThawsProcs, ProcsLeft
<1>4. ServicesLeft' => ServicesLeft \/ ~gui'.config.lowbat_freeze_services
  BY <1>1, <1>2 DEF ThawsServices, ServicesLeft
<1> QED
  BY <1>3, <1>4 DEF FreezingKept

LEMMA CalmOK ==
  ASSUME Idle, asked' = Asked(gui'.calls), Calm(gui, gui')
  PROVE  FreezingKept
BY CalmThaws, ThawsOK DEF Calm

\* The poll at which the critical action is due takes it.
LEMMA DueTaken ==
  ASSUME NEW m, m.warnCrit = gui.warnCrit, m.criticalLevelReached = gui.criticalLevelReached,
         gui'.config = m.config, NEW reading \in Readings, Polled(reading),
         PollDue(m, reading.state, reading.percent)
  PROVE  CriticalActionTaken
BY DEF CriticalActionTaken, CriticalActionDue, PollDue

\* The first of the signals goes to the event loop.
LEMMA SignalTaken ==
  ASSUME SignalsOK, gui.phase = "running", signals # <<>>, signals' = Tail(signals),
         UNCHANGED machine, gui'.phase = "running"
  PROVE  SignalsOK' /\ (Head(signals) => machine' # "awake" \/ signals' # <<>>)
<1>1. /\ signals' \in Seq(BOOLEAN) /\ Len(signals') = Len(signals) - 1
      /\ \A i \in 1..Len(signals') : signals'[i] = signals[i + 1]
      /\ Head(signals) = signals[1] /\ Len(signals) \in Nat \ {0}
  BY HeadTailProperties, EmptySeq DEF SignalsOK
<1>2. Len(signals') \in Nat /\ (signals' # <<>> => Len(signals') \in 1..Len(signals'))
  BY <1>1, EmptySeq
<1>3. signals' # <<>> => signals'[Len(signals')] = signals[Len(signals)]
  BY <1>1, <1>2
<1>4. signals' = <<>> => Len(signals) = 1
  <2>1. signals' = <<>> => Len(signals') = 0
    BY EmptySeq
  <2> QED
    BY <1>1, <2>1
<1> QED
  BY <1>1, <1>3, <1>4 DEF SignalsOK

\* logind adds one: the start of a sleep, or its end.
LEMMA SignalAdded ==
  ASSUME SignalsOK, NEW b \in BOOLEAN, b => machine' # "awake",
         signals' = IF gui.phase = "running" THEN Append(signals, b) ELSE signals,
         gui'.phase = gui.phase
  PROVE  SignalsOK' /\ (gui.phase = "running" => signals' # <<>>)
<1>1. CASE gui.phase = "running"
  <2>1. /\ signals' \in Seq(BOOLEAN) /\ signals' # <<>>
        /\ Len(signals') = Len(signals) + 1 /\ signals'[Len(signals) + 1] = b
    BY <1>1, AppendProperties DEF SignalsOK
  <2> QED
    BY <1>1, <2>1 DEF SignalsOK
<1>2. CASE gui.phase # "running"
  BY <1>2 DEF SignalsOK
<1> QED
  BY <1>1, <1>2

\* A handler that neither ends the client nor takes a signal.
LEMMA HandlerOK ==
  ASSUME IInv, Idle, asked' = Asked(gui'.calls), UNCHANGED system,
         GuiOK(gui'), Kept(gui, gui'), gui'.phase = "running",
         gui.phase = "running" \/ (gui.phase = "new" /\ gui'.batteryTimer),
         NapsOnClosedLid, FreezingKept
  PROVE  StepFacts
<1>1. SignalsOK' /\ EndedOK'
  BY DEF IInv, SignalsOK, EndedOK, system
<1>2. asked'.cores_off <=> CoresIn(gui'.calls)
  BY AskedCores
<1>3. ~SleepIn(gui.calls) /\ (CoresIn(gui.calls) <=> asked.cores_off)
  BY IdleCalls
<1>4. machine' = machine /\ signals' = signals
  BY DEF system
<1>5. CoresTaken' => CoresTaken
  BY <1>2, <1>3, <1>4, PendingIs, PendingWillBe DEF Kept, CoresTaken
<1>6. PollingLost' => PollingLost
  BY <1>3, <1>4, PendingIs, PendingWillBe DEF Kept, PollingLost
<1> QED
  BY <1>1, <1>5, <1>6 DEF StepFacts, IInv, GuiOK, Shape, OnMains, CoresKept, PollingKept

LEMMA GoodOK ==
  ASSUME IInv, Idle, asked' = Asked(gui'.calls), UNCHANGED system, gui.phase = "running",
         Good(gui, gui'), FreezingKept
  PROVE  StepFacts
<1>1. GuiOK(gui') /\ Kept(gui, gui') /\ gui'.phase = "running" /\ NapsOnClosedLid
  BY DEF Good, NapsOnClosedLid
<1> QED
  BY <1>1, HandlerOK

LEMMA SameOK ==
  ASSUME IInv, Idle, asked' = Asked(gui'.calls), UNCHANGED system, gui.phase = "running",
         Same(gui, gui')
  PROVE  StepFacts
BY SameGood, GoodOK, CalmOK DEF IInv, Same

\* A step of logind, or a call that is made: the members stay, but for what waits.
LEMMA SystemOK ==
  ASSUME IInv, SignalsOK', Shape(gui'),
         gui'.phase = gui.phase /\ gui'.minimalMode = gui.minimalMode,
         gui'.batteryTimer = gui.batteryTimer /\ gui'.inPowernap = gui.inPowernap,
         gui'.chargingState = gui.chargingState /\ gui'.lidOpen = gui.lidOpen,
         gui'.warnCrit = gui.warnCrit /\ gui'.warnSimple = gui.warnSimple,
         asked' = asked,
         LogindRefuses \/ (SleepPending => SleepPending')
  PROVE  StepFacts
<1>1. GuiOK(gui')
  BY DEF IInv, GuiOK, OnMains
<1>2. CoresKept
  BY DEF CoresKept, CoresTaken
<1>3. PollingKept
  BY DEF PollingKept, PollingLost
<1>4. FreezingKept /\ EndedOK'
  BY DEF FreezingKept, ProcsLeft, ServicesLeft, IInv, EndedOK
<1> QED
  BY <1>1, <1>2, <1>3, <1>4 DEF StepFacts, IInv, GuiOK, Shape, OnMains, NapsOnClosedLid

-----------------------------------------------------------------------------
(* Each action. *)

LEMMA StartOK ==
  ASSUME IInv, NEW reading \in Readings, Start(reading)
  PROVE  StepFacts
<1> DEFINE polled == CheckBatteryStatus(gui, reading)
           eth == CallIf(gui.config.disable_eth = 1, polled, "toggle_ethernet", FALSE)
           sent == SyncDaemonAdvancedSettings(eth)
           n == [sent EXCEPT !.phase = "running", !.batteryTimer = TRUE]
<1>1. /\ gui' = n /\ gui.phase = "new" /\ Idle /\ UNCHANGED system
      /\ asked' = Asked(gui'.calls)
  BY DEF Start, Becomes
<1>2. /\ Good(gui, polled) /\ Shape(polled) /\ ThawsServices(gui, polled)
      /\ ThawsProcs(gui, polled) \/ PollDue(gui, reading.state, reading.percent)
  BY CheckBatteryStatusGood DEF IInv, Good, GuiOK
<1> HIDE DEF polled
<1>3. Same(polled, eth)
  BY <1>2, CallSame, HarmlessCalls
<1> HIDE DEF eth
<1>4. Same(eth, sent)
  BY <1>3, SyncSame, SameShape
<1> HIDE DEF sent
<1>5. /\ GuiOK(n) /\ Kept(sent, n) /\ n.phase = "running" /\ n.batteryTimer
      /\ n.inPowernap = sent.inPowernap /\ n.lidOpen = sent.lidOpen
      /\ Calm(sent, n) /\ n.config = sent.config
  <2>1. Good(polled, sent) /\ Shape(sent)
    BY <1>2, <1>3, <1>4, SameChain, SameGood, SameShape DEF Good
  <2> QED
    BY <2>1 DEF Good, GuiOK, Shape, Kept, Calm, ProcsCalm, ServicesCalm, OnMains, Members
<1> HIDE DEF n
<1>6. Good(gui, sent)
  BY <1>2, <1>3, <1>4, SameChain, SameGood, GoodChain DEF Good
<1>7. Kept(gui, gui') /\ NapsOnClosedLid
  BY <1>1, <1>5, <1>6 DEF Good, Kept, NapsOnClosedLid
<1>8. FreezingKept
  <2>1. ThawsProcs(gui, polled)
    BY <1>1, <1>2 DEF IInv, EndedOK, PollDue, CriticalActionDue
  <2>2. /\ ThawsProcs(polled, sent) /\ ThawsServices(polled, sent)
        /\ sent.config = polled.config
    BY <1>3, <1>4, SameChain, SameSound, SameShape, CalmThaws
  <2>3. ThawsProcs(sent, n) /\ ThawsServices(sent, n)
    BY <1>5, CalmThaws DEF Calm
  <2>4. ThawsProcs(gui, n) /\ ThawsServices(gui, n)
    BY <1>2, <1>5, <2>1, <2>2, <2>3, ThawsChain
  <2> QED
    BY <1>1, <2>4, ThawsOK
<1> QED
  BY <1>1, <1>5, <1>7, <1>8, HandlerOK

LEMMA PollsOK ==
  ASSUME IInv, NEW reading \in Readings,
         TimerPoll(reading) \/ OtherPoll(reading) \/ EndCalibration(reading)
  PROVE  StepFacts
<1>1. Shape(gui) /\ GuiOK(gui)
  BY DEF IInv, GuiOK
<1>2. /\ gui.phase = "running" /\ Idle /\ UNCHANGED system /\ asked' = Asked(gui'.calls)
  BY DEF TimerPoll, OtherPoll, EndCalibration, Becomes
<1>3. CASE TimerPoll(reading) \/ OtherPoll(reading)
  <2> DEFINE polled == CheckBatteryStatus(gui, reading)
  <2>1. PICK p \in Wanted(polled, reading.percent) : gui' = Heard(polled, p) /\ Polled(reading)
    BY <1>3 DEF TimerPoll, OtherPoll, Becomes, Poll, Polled
  <2>2. /\ Good(gui, polled) /\ GuiOK(polled) /\ Shape(polled)
        /\ polled.config = gui.config /\ ThawsServices(gui, polled)
        /\ ThawsProcs(gui, polled) \/ PollDue(gui, reading.state, reading.percent)
    BY <1>1, CheckBatteryStatusGood DEF Good, GuiOK
  <2> HIDE DEF polled
  <2>3. Same(polled, gui')
    BY <2>1, <2>2, HeardSame
  <2>4. Good(gui, gui') /\ gui'.config = polled.config
    BY <2>2, <2>3, SameGood, SameShape, GoodChain
  <2>5. ThawsServices(gui, gui') /\ (ThawsProcs(gui, gui') \/ CriticalActionTaken)
    BY <2>1, <2>2, <2>3, <2>4, SameSound, CalmThaws, ThawsChain, DueTaken
  <2>6. FreezingKept
    BY <1>2, <2>5, ThawsOK
  <2> QED
    BY <1>2, <2>4, <2>6, GoodOK
<1>4. CASE EndCalibration(reading)
  <2> DEFINE told == CalibrationTells(gui, 0)
             m == [told EXCEPT !.calibrationActive = FALSE, !.batteryTimer = TRUE]
  <2>1. gui' = CheckBatteryStatus(m, reading) /\ Polled(reading)
    BY <1>4 DEF EndCalibration, Becomes, Polled
  <2>2. Same(gui, m)
    <3>1. Same(gui, told)
      BY <1>1, CalibrationTellsSame DEF Profiles
    <3> HIDE DEF told
    <3>2. Same(told, m)
      BY <3>1 DEF Same, Alike, Kept, Calm, ProcsCalm, ServicesCalm, Shape, Members
    <3> HIDE DEF m
    <3> QED
      BY <3>1, <3>2, SameChain
  <2> HIDE DEF m
  <2>3. Good(gui, m) /\ GuiOK(m)
    BY <1>1, <2>2, SameGood DEF Good
  <2>4. /\ Good(gui, gui') /\ gui'.config = m.config /\ ThawsServices(m, gui')
        /\ ThawsProcs(m, gui') \/ PollDue(m, reading.state, reading.percent)
    BY <2>1, <2>3, CheckBatteryStatusGood, GoodChain
  <2>5. ThawsProcs(gui, gui') \/ CriticalActionTaken
    BY <2>1, <2>2, <2>4, SameSound, CalmThaws, ThawsChain, DueTaken
       DEF Same, Calm, ProcsCalm
  <2>6. ThawsServices(gui, gui')
    BY <2>2, <2>4, SameSound, CalmThaws, ThawsChain
  <2>7. FreezingKept
    BY <1>2, <2>5, <2>6, ThawsOK
  <2> QED
    BY <1>2, <2>4, <2>7, GoodOK
<1> QED
  BY <1>3, <1>4

LEMMA CheckIdleOK ==
  ASSUME IInv, NEW reading \in Readings, NEW way \in Wishes \cap Ways, CheckIdle(reading, way)
  PROVE  StepFacts
<1> DEFINE polled == CheckBatteryStatus(gui, reading)
           n == Sleep(polled, way, reading.radios)
<1>1. /\ gui' = n /\ gui.phase = "running" /\ Idle /\ UNCHANGED system
      /\ asked' = Asked(gui'.calls) /\ Polled(reading)
  BY DEF CheckIdle, Becomes, Polled
<1>2. /\ Good(gui, polled) /\ GuiOK(polled) /\ Shape(polled)
      /\ polled.config = gui.config /\ ThawsServices(gui, polled)
      /\ ThawsProcs(gui, polled) \/ PollDue(gui, reading.state, reading.percent)
  BY CheckBatteryStatusGood DEF IInv, Good, GuiOK
<1> HIDE DEF polled
<1>3. Same(polled, n)
  BY <1>2, SleepSame
<1> HIDE DEF n
<1>4. Good(gui, n) /\ n.config = polled.config
  BY <1>2, <1>3, SameGood, SameShape, GoodChain
<1>5. ThawsServices(gui, n) /\ (ThawsProcs(gui, n) \/ CriticalActionTaken)
  BY <1>1, <1>2, <1>3, <1>4, SameSound, CalmThaws, ThawsChain, DueTaken
<1>6. FreezingKept
  BY <1>1, <1>5, ThawsOK
<1> QED
  BY <1>1, <1>4, <1>6, GoodOK

LEMMA ConfigureOK ==
  ASSUME IInv, NEW c \in Configs, NEW reading \in Readings, NEW due \in BOOLEAN,
         Configure(c, reading, due)
  PROVE  StepFacts
<1> DEFINE m == [gui EXCEPT !.config = c]
           sent == SyncDaemonAdvancedSettings(m)
           n == CheckBatteryStatus(sent, reading)
<1>1. /\ gui' = sent \/ (gui' = n /\ due)
      /\ gui.phase = "running" /\ Idle /\ UNCHANGED system /\ asked' = Asked(gui'.calls)
  BY DEF Configure, Becomes
<1>2. Good(gui, m) /\ GuiOK(m) /\ Shape(m) /\ Calm(gui, m)
  BY DEF IInv, GuiOK, Good, Shape, Kept, Calm, ProcsCalm, ServicesCalm, OnMains, Members
<1> HIDE DEF m
<1>3. Same(m, sent)
  BY <1>2, SyncSame
<1> HIDE DEF sent
<1>4. Good(gui, sent) /\ GuiOK(sent) /\ Calm(gui, sent)
  BY <1>2, <1>3, SameGood, GoodChain, CalmChain DEF Good, Same, Calm
<1>5. /\ Good(gui, n) /\ n.config = sent.config /\ ThawsServices(sent, n)
      /\ ThawsProcs(sent, n) \/ PollDue(sent, reading.state, reading.percent)
  BY <1>4, CheckBatteryStatusGood, GoodChain
<1> HIDE DEF n
<1>6. Good(gui, gui')
  BY <1>1, <1>4, <1>5
<1>7. ASSUME gui' = n, due PROVE FreezingKept
  <2>1. Polled(reading)
    <3>1. due = TRUE
      BY <1>7
    <3> QED
      BY <3>1 DEF Polled
  <2>2. ThawsServices(gui, n) /\ (ThawsProcs(gui, n) \/ CriticalActionTaken)
    BY <1>4, <1>5, <1>7, <2>1, CalmThaws, ThawsChain, DueTaken DEF Calm, ProcsCalm
  <2> QED
    BY <1>1, <1>7, <2>2, ThawsOK
<1>8. FreezingKept
  BY <1>1, <1>4, <1>7, CalmOK
<1> QED
  BY <1>1, <1>6, <1>8, GoodOK

LEMMA LidMovesOK ==
  ASSUME IInv, NEW radios, LidMoves(radios)
  PROVE  StepFacts
<1> DEFINE moved == [gui EXCEPT !.lidOpen = ~@]
<1>1. /\ gui.lidOpen => gui' = LidClosed(moved, radios)
      /\ ~gui.lidOpen => gui' = LidOpened(moved)
      /\ ~gui.calibrationActive
      /\ gui.phase = "running" /\ Idle /\ UNCHANGED system /\ asked' = Asked(gui'.calls)
  BY DEF LidMoves, Becomes
<1>2. /\ GuiOK(moved) /\ moved.calibrationActive = gui.calibrationActive
      /\ moved.actionInProgress = gui.actionInProgress /\ moved.phase = gui.phase
      /\ Kept(gui, moved) /\ Calm(gui, moved)
  BY DEF IInv, GuiOK, Shape, Kept, Calm, ProcsCalm, ServicesCalm, OnMains, Members
<1>3. gui.lidOpen => ~moved.lidOpen
  BY DEF IInv, GuiOK, Shape, Members
<1> HIDE DEF moved
<1>4. /\ GuiOK(gui') /\ Kept(moved, gui') /\ gui'.phase = "running" /\ NapsOnClosedLid
      /\ Calm(moved, gui')
  <2>1. CASE gui.lidOpen
    BY <1>1, <1>2, <1>3, <2>1, LidClosedOK DEF NapsOnClosedLid
  <2>2. CASE ~gui.lidOpen
    BY <1>1, <1>2, <2>2, LidOpenedOK DEF Good, NapsOnClosedLid
  <2> QED
    BY <2>1, <2>2
<1>5. Kept(gui, gui') /\ Calm(gui, gui')
  BY <1>2, <1>4, CalmChain DEF Kept, Calm
<1> QED
  BY <1>1, <1>4, <1>5, CalmOK, HandlerOK

LEMMA UserSleepOK ==
  ASSUME IInv, NEW way, NEW radios, UserSleep(way, radios)
  PROVE  StepFacts
<1>1. /\ gui' \in {Call(gui, "shutdown", "-"), Sleep(gui, way, radios)}
      /\ gui.phase = "running" /\ Idle /\ UNCHANGED system /\ asked' = Asked(gui'.calls)
  BY DEF UserSleep, Becomes
<1>2. Shape(gui)
  BY DEF IInv, GuiOK
<1>3. Same(gui, Call(gui, "shutdown", "-")) /\ Same(gui, Sleep(gui, way, radios))
  BY <1>2, CallSame, HarmlessCalls, SleepSame
<1>4. Same(gui, gui')
  BY <1>1, <1>3
<1> QED
  BY <1>1, <1>4, SameOK

\* The signal that a sleep begins: with it comes the one that ends it, or is yet to come.
LEMMA PrepareForSleepOK ==
  ASSUME IInv, NEW radios, PrepareForSleep(radios)
  PROVE  StepFacts
<1>1. /\ gui' \in {PrepareSuspendGeneral(gui, FALSE, radios), gui}
      /\ gui.phase = "running" /\ Idle /\ asked' = Asked(gui'.calls)
      /\ signals # <<>> /\ Head(signals) /\ signals' = Tail(signals) /\ machine' = machine
  BY DEF PrepareForSleep, Becomes
<1>2. Shape(gui)
  BY DEF IInv, GuiOK
<1>3. Preparing(gui, gui')
  <2>1. Preparing(gui, PrepareSuspendGeneral(gui, FALSE, radios))
    BY <1>2, PrepareSuspendGeneralPreparing
  <2>2. Preparing(gui, gui)
    BY <1>2, SameSelf DEF Same, Preparing
  <2> QED
    BY <1>1, <2>1, <2>2
<1>4. GuiOK(gui') /\ gui'.phase = "running" /\ NapsOnClosedLid
  BY <1>1, <1>3 DEF Preparing, Alike, IInv, GuiOK, OnMains, NapsOnClosedLid
<1>5. SignalsOK' /\ (machine' # "awake" \/ signals' # <<>>)
  BY <1>1, <1>4, SignalTaken DEF IInv
<1>6. SleepPending'
  BY <1>4, <1>5, PendingWillBe
<1>7. asked'.cores_off <=> CoresIn(gui'.calls)
  BY <1>1, AskedCores
<1>8. CoresIn(gui.calls) <=> asked.cores_off
  BY <1>1, IdleCalls
<1>9. CoresTaken' => CoresTaken
  BY <1>3, <1>6, <1>7, <1>8 DEF CoresTaken, Preparing
<1>10. ~PollingLost'
  BY <1>6 DEF PollingLost
<1>11. FreezingKept /\ EndedOK'
  BY <1>1, <1>3, <1>4, CalmOK DEF Preparing, EndedOK
<1> QED
  BY <1>4, <1>5, <1>9, <1>10, <1>11 DEF StepFacts, IInv, CoresKept, PollingKept

\* The signal that it has ended brings back the cores and the timer.
LEMMA AfterWakeActionsOK ==
  ASSUME IInv, AfterWakeActions
  PROVE  StepFacts
<1> DEFINE up == [gui EXCEPT !.actionInProgress = FALSE]
           minimal == gui.config.minimal_state_before_suspend
           whole == IF minimal THEN ExitMinimalMode(up) ELSE up
           adjusted == AdjustProfile(whole)
           wifi == IF gui.wifiInitialState # -1
                     THEN SetWifi(adjusted, gui.wifiInitialState) ELSE adjusted
           n == [wifi EXCEPT !.batteryTimer = TRUE,
                             !.bluetoothTimer = @ \/ gui.bluetoothInitialState # -1]
<1>1. /\ gui' = n /\ gui.phase = "running" /\ Idle /\ asked' = Asked(gui'.calls)
      /\ signals # <<>> /\ signals' = Tail(signals) /\ machine' = machine
  BY DEF AfterWakeActions, Becomes
<1>2. Shape(gui)
  BY DEF IInv, GuiOK
<1>3. Same(gui, up) /\ up.calls = gui.calls /\ up.minimalMode = gui.minimalMode
  BY <1>2 DEF Same, Alike, Kept, Calm, ProcsCalm, ServicesCalm, Shape, Members
<1> HIDE DEF up
<1>4. /\ Same(up, whole)
      /\ minimal => (CoresIn(whole.calls) => CoresIn(gui.calls) /\ ~gui.minimalMode)
  BY <1>3, ExitMinimalModeSame, SameSelf, SameShape
<1> HIDE DEF whole
<1>5. Same(whole, adjusted)
  BY <1>4, AdjustProfileSame, SameShape
<1> HIDE DEF adjusted
<1>6. Same(adjusted, wifi)
  BY <1>5, CallSame, SameSelf, SameShape
<1> HIDE DEF wifi
<1>7. Same(wifi, n) /\ n.batteryTimer
  BY <1>6 DEF Same, Alike, Kept, Calm, ProcsCalm, ServicesCalm, Shape, Members
<1> HIDE DEF n
<1>8. Same(whole, n) /\ Same(gui, n)
  BY <1>3, <1>4, <1>5, <1>6, <1>7, SameChain
<1>9. Good(gui, n)
  BY <1>8, SameGood DEF IInv
<1>10. GuiOK(gui') /\ gui'.phase = "running" /\ NapsOnClosedLid
  BY <1>1, <1>9 DEF Good, NapsOnClosedLid
<1>11. SignalsOK'
  BY <1>1, <1>10, SignalTaken DEF IInv
<1>12. asked'.cores_off <=> CoresIn(gui'.calls)
  BY <1>1, AskedCores
<1>13. CoresIn(gui.calls) <=> asked.cores_off
  BY <1>1, IdleCalls
<1>14. minimal => (CoresTaken' => CoresTaken)
  BY <1>1, <1>4, <1>8, <1>10, <1>12, <1>13, PendingWillBe DEF CoresTaken, Same, Kept
<1>15. ~PollingLost'
  BY <1>1, <1>7 DEF PollingLost
<1>16. FreezingKept /\ EndedOK'
  BY <1>1, <1>8, <1>10, CalmOK DEF Same, EndedOK
<1> QED
  BY <1>10, <1>11, <1>14, <1>15, <1>16 DEF StepFacts, IInv, CoresKept, PollingKept

\* Handlers that do little.
LEMMA SmallHandlersOK ==
  ASSUME IInv,
         PollWithoutBattery \/ (\E p \in Picks : UserProfile(p)) \/ SelectPowernap
           \/ RestoreBluetooth \/ PrepareForShutdown \/ Calibrate
  PROVE  StepFacts
<1>1. Shape(gui) /\ GuiOK(gui)
  BY DEF IInv, GuiOK
<1>2. CASE PollWithoutBattery
  <2> DEFINE polled == CheckWithoutBattery(gui)
  <2>1. PICK p \in Wanted(polled, 0) : gui' = Heard(polled, p)
    BY <1>2 DEF PollWithoutBattery, Becomes
  <2>2. Good(gui, polled)
    BY <1>1, CheckWithoutBatteryGood
  <2> HIDE DEF polled
  <2>3. Good(gui, gui')
    BY <2>1, <2>2, HeardSame, SameGood, GoodChain DEF Good, GuiOK
  <2>4. FreezingKept
    BY <1>2 DEF FreezingKept
  <2>5. /\ gui.phase = "running" /\ Idle /\ UNCHANGED system
        /\ asked' = Asked(gui'.calls)
    BY <1>2 DEF PollWithoutBattery, Becomes
  <2> QED
    BY <2>3, <2>4, <2>5, GoodOK
<1>3. CASE \E p \in Picks : UserProfile(p)
  <2>1. PICK p \in Picks : UserProfile(p)
    BY <1>3
  <2>2. Same(gui, SetProfile(gui, p))
    BY <1>1, SetProfileSame, ConfigAssumption
  <2> QED
    BY <2>1, <2>2, SameOK DEF UserProfile, Becomes
<1>4. CASE SelectPowernap
  <2>1. /\ Same(gui, gui') /\ gui'.calls = gui.calls /\ gui'.phase = "running"
        /\ gui.phase = "running" /\ Idle /\ UNCHANGED system /\ asked' = asked
    BY <1>1, <1>4
       DEF SelectPowernap, Same, Alike, Kept, Calm, ProcsCalm, ServicesCalm, Shape, Members
  <2>2. IInv'
    BY <2>1, SameGood DEF IInv, Good, SignalsOK, EndedOK, system
  <2>3. NapsOnClosedLid
    BY <2>1 DEF NapsOnClosedLid, Same, Alike
  <2>4. gui'.minimalMode = gui.minimalMode /\ gui'.batteryTimer = gui.batteryTimer
    BY <1>1, <1>4 DEF SelectPowernap, Shape, Members
  <2>5. SleepPending' <=> SleepPending
    BY <2>1, PendingIs, PendingWillBe DEF system
  <2>6. FreezingKept
    BY <2>1 DEF FreezingKept, ProcsLeft, ServicesLeft, Same, Calm, ProcsCalm, ServicesCalm
  <2> QED
    BY <2>1, <2>2, <2>3, <2>4, <2>5, <2>6
       DEF StepFacts, CoresKept, CoresTaken, PollingKept, PollingLost
<1>5. CASE RestoreBluetooth
  <2> DEFINE bt == IF gui.bluetoothInitialState # -1
                     THEN SetBluetooth(gui, gui.bluetoothInitialState) ELSE gui
             n == [bt EXCEPT !.bluetoothTimer = FALSE, !.bluetoothInitialState = -1]
  <2>1. /\ gui' = n /\ gui.phase = "running" /\ Idle /\ UNCHANGED system
        /\ asked' = Asked(gui'.calls)
    BY <1>5 DEF RestoreBluetooth, Becomes
  <2>2. Same(gui, bt)
    BY <1>1, CallSame, SameSelf
  <2> HIDE DEF bt
  <2>3. Same(bt, n)
    BY <2>2 DEF Same, Alike, Kept, Calm, ProcsCalm, ServicesCalm, Shape, Members
  <2> HIDE DEF n
  <2>4. Same(gui, gui')
    BY <2>1, <2>2, <2>3, SameChain
  <2> QED
    BY <2>1, <2>4, SameOK
<1>6. CASE Calibrate
  <2>1. /\ Same(gui, gui') /\ gui.phase = "running" /\ Idle /\ UNCHANGED system
        /\ asked' = Asked(gui'.calls)
    BY <1>1, <1>6
       DEF Calibrate, Becomes, Same, Alike, Kept, Calm, ProcsCalm, ServicesCalm, Shape, Members
  <2> QED
    BY <2>1, SameOK
<1>7. CASE PrepareForShutdown
  <2>1. /\ DOMAIN gui' = Members /\ gui'.config = gui.config /\ gui'.phase = gui.phase
        /\ gui'.calls = gui.calls /\ gui'.minimalMode = gui.minimalMode
        /\ gui'.inPowernap = gui.inPowernap /\ gui'.chargingState = gui.chargingState
        /\ gui'.lidOpen = gui.lidOpen /\ gui'.warnCrit = gui.warnCrit
        /\ gui'.warnSimple = gui.warnSimple
    BY <1>1, <1>7 DEF PrepareForShutdown, Shape, Members
  <2>2. UNCHANGED system /\ asked' = asked
    BY <1>7 DEF PrepareForShutdown
  <2>3. GuiOK(gui') /\ SignalsOK' /\ NapsOnClosedLid
    BY <1>1, <2>1, <2>2 DEF IInv, GuiOK, Shape, OnMains, SignalsOK, NapsOnClosedLid, system
  <2>4. SleepPending' <=> SleepPending
    BY <2>1, <2>2, PendingIs, PendingWillBe DEF system
  <2>5. CoresKept
    BY <2>1, <2>2, <2>4 DEF CoresKept, CoresTaken
  <2>6. FreezingKept /\ EndedOK'
    BY <2>1, <2>2 DEF FreezingKept, ProcsLeft, ServicesLeft, IInv, EndedOK
  <2> QED
    BY <1>7, <2>3, <2>5, <2>6 DEF StepFacts, IInv, PollingKept
<1> QED
  BY <1>2, <1>3, <1>4, <1>5, <1>6, <1>7

\* The client ends and comes back.
LEMMA LifeOK ==
  ASSUME IInv, Stop \/ Killed \/ Login
  PROVE  StepFacts
<1>1. Shape(gui)
  BY DEF IInv, GuiOK
<1>2. CASE Stop
  <2> DEFINE eth == CallIf(gui.config.disable_eth # 0, gui, "toggle_ethernet", TRUE)
             services == Call(eth, "unfreeze_all_frozen_services", "-")
             procs == Call(services, "freeze_processes", FALSE)
             thawed == Call(procs, "set_webcam_power", TRUE)
             bt == IF gui.bluetoothInitialState # -1
                     THEN SetBluetooth(thawed, gui.bluetoothInitialState) ELSE thawed
             wifi == IF gui.wifiInitialState # -1 THEN SetWifi(bt, gui.wifiInitialState) ELSE bt
             n == [wifi EXCEPT !.phase = "exited", !.batteryTimer = FALSE, !.bluetoothTimer = FALSE]
  <2>1. gui' = n /\ signals' = <<>> /\ asked' = Asked(gui'.calls)
    BY <1>2 DEF Stop, Becomes
  <2>2. Same(gui, eth)
    BY <1>1, CallSame, HarmlessCalls
  <2> HIDE DEF eth
  <2>3. Same(eth, services) /\ ~ServicesIn(services.calls)
    BY <2>2, CallSame, CallGivesBack, SameShape
  <2> HIDE DEF services
  <2>4. Same(services, procs) /\ ~ProcsIn(procs.calls)
    BY <2>3, CallSame, CallGivesBack, SameShape
  <2> HIDE DEF procs
  <2>5. Same(procs, thawed)
    BY <2>4, CallSame, HarmlessCalls, SameShape
  <2> HIDE DEF thawed
  <2>6. Same(thawed, bt)
    BY <2>5, CallSame, SameSelf, SameShape
  <2> HIDE DEF bt
  <2>7. Same(bt, wifi)
    BY <2>6, CallSame, SameSelf, SameShape
  <2> HIDE DEF wifi
  <2>8. Same(gui, wifi)
    BY <2>2, <2>3, <2>4, <2>5, <2>6, <2>7, SameChain
  <2>9. /\ Shape(n) /\ n.phase = "exited" /\ n.inPowernap = wifi.inPowernap
        /\ n.chargingState = wifi.chargingState /\ n.lidOpen = wifi.lidOpen
        /\ n.calls = wifi.calls
    BY <2>8 DEF Same, Alike, Shape, Members
  <2> HIDE DEF n
  <2>10. GuiOK(gui') /\ NapsOnClosedLid /\ gui'.phase = "exited"
    BY <2>1, <2>8, <2>9 DEF Same, Alike, IInv, GuiOK, OnMains, NapsOnClosedLid
  <2>11. SignalsOK'
    BY <2>1, EmptySeq DEF SignalsOK
  <2>12. ~ProcsIn(wifi.calls) /\ ~ServicesIn(wifi.calls)
    BY <2>3, <2>4, <2>5, <2>6, <2>7, SameSound DEF ProcsCalm, ServicesCalm
  <2>13. ~asked'.procs /\ ~asked'.services
    BY <2>1, <2>9, <2>12, AskedCores
  <2>14. FreezingKept /\ EndedOK'
    BY <2>10, <2>13 DEF FreezingKept, ProcsLeft, ServicesLeft, EndedOK
  <2> QED
    BY <1>2, <2>10, <2>11, <2>14 DEF StepFacts, IInv, CoresKept, PollingKept, PollingLost
<1>3. CASE Killed \/ Login
  <2>1. /\ DOMAIN gui' = Members /\ gui'.config = gui.config /\ ~gui'.inPowernap
        /\ gui'.calls = <<>> /\ gui'.phase # "running"
        /\ ~gui'.warnCrit /\ ~gui'.warnSimple
    BY <1>3 DEF Killed, Login, New, Members
  <2>2. GuiOK(gui') /\ NapsOnClosedLid
    BY <1>1, <2>1, NoCalls DEF GuiOK, Shape, NapsOnClosedLid
  <2>3. SignalsOK'
    BY <1>3, <2>1, EmptySeq DEF SignalsOK, IInv, Killed, Login, system
  <2>4. CoresKept
    BY <1>3 DEF CoresKept, CoresTaken, Login, SleepPending
  <2>5. FreezingKept /\ EndedOK'
    BY <1>3, <2>1 DEF FreezingKept, ProcsLeft, ServicesLeft, Login, IInv, EndedOK
  <2> QED
    BY <2>1, <2>2, <2>3, <2>4, <2>5 DEF StepFacts, IInv, PollingKept, PollingLost
<1> QED
  BY <1>2, <1>3

LEMMA LogindOK ==
  ASSUME IInv, Logind \/ WriteCall \/ UNCHANGED vars
  PROVE  StepFacts
<1>1. Shape(gui) /\ SignalsOK
  BY DEF IInv, GuiOK
<1>2. CASE LogindAccepts \/ LogindRefuses \/ WriteCall
  <2>1. /\ gui.calls # <<>> /\ gui'.calls = Tail(gui.calls) /\ asked' = asked
        /\ DOMAIN gui' = Members /\ gui'.config = gui.config
        /\ gui'.phase = gui.phase /\ gui'.minimalMode = gui.minimalMode
        /\ gui'.batteryTimer = gui.batteryTimer /\ gui'.inPowernap = gui.inPowernap
        /\ gui'.chargingState = gui.chargingState /\ gui'.lidOpen = gui.lidOpen
        /\ gui'.warnCrit = gui.warnCrit /\ gui'.warnSimple = gui.warnSimple
    <3>1. CASE LogindAccepts
      BY <1>1, <3>1 DEF LogindAccepts, Shape, Members
    <3>2. CASE LogindRefuses
      BY <1>1, <3>2 DEF LogindRefuses, Shape, Members
    <3>3. CASE WriteCall
      BY <1>1, <3>3 DEF WriteCall, Shape, Members
    <3> QED
      BY <1>2, <3>1, <3>2, <3>3
  <2>2. Shape(gui') /\ (SleepIn(gui.calls) /\ Head(gui.calls)[1] # "logind" => SleepIn(gui'.calls))
    BY <1>1, <2>1, TailCall DEF Shape
  <2>3. CASE LogindAccepts
    <3>1. /\ machine' = "going"
          /\ signals' = IF gui.phase = "running" THEN Append(signals, TRUE) ELSE signals
      BY <2>3 DEF LogindAccepts, BeginSleep
    <3>2. SignalsOK'
      BY <1>1, <2>1, <3>1, SignalAdded
    <3>3. SleepPending => SleepPending'
      BY <2>1, <3>1, PendingIs, PendingWillBe
    <3> QED
      BY <2>1, <2>2, <3>2, <3>3, SystemOK
  <2>4. CASE LogindRefuses
    <3>1. SignalsOK'
      BY <1>1, <2>1, <2>4 DEF LogindRefuses, SignalsOK, system
    <3> QED
      BY <2>1, <2>2, <2>4, <3>1, SystemOK
  <2>5. CASE WriteCall
    <3>1. machine' = machine /\ signals' = signals /\ Head(gui.calls)[1] # "logind"
      BY <2>5 DEF WriteCall, system
    <3>2. SignalsOK'
      BY <1>1, <2>1, <3>1 DEF SignalsOK
    <3>3. SleepPending => SleepPending'
      BY <2>1, <2>2, <3>1, PendingIs, PendingWillBe
    <3> QED
      BY <2>1, <2>2, <3>2, <3>3, SystemOK
  <2> QED
    BY <1>2, <2>3, <2>4, <2>5
<1>3. CASE OthersSleep \/ FallAsleep \/ Resume \/ UNCHANGED vars
  <2>1. gui' = gui /\ asked' = asked
    BY <1>3 DEF OthersSleep, FallAsleep, Resume, vars
  <2>2. SignalsOK' /\ (SleepPending => SleepPending')
    <3>1. CASE OthersSleep
      <4>1. /\ machine' = "going"
            /\ signals' = IF gui.phase = "running" THEN Append(signals, TRUE) ELSE signals
        BY <3>1 DEF OthersSleep, BeginSleep
      <4>2. SignalsOK'
        BY <1>1, <2>1, <4>1, SignalAdded
      <4> QED
        BY <2>1, <4>1, <4>2, PendingIs, PendingWillBe
    <3>2. CASE FallAsleep
      BY <1>1, <2>1, <3>2, PendingIs, PendingWillBe DEF FallAsleep, SignalsOK
    <3>3. CASE Resume
      <4>1. signals' = IF gui.phase = "running" THEN Append(signals, FALSE) ELSE signals
        BY <3>3 DEF Resume
      <4>2. SignalsOK' /\ (gui.phase = "running" => signals' # <<>>)
        BY <1>1, <2>1, <4>1, SignalAdded
      <4> QED
        BY <2>1, <4>2, PendingIs, PendingWillBe
    <3>4. CASE UNCHANGED vars
      BY <1>1, <2>1, <3>4, PendingIs, PendingWillBe DEF vars, SignalsOK
    <3> QED
      BY <1>3, <3>1, <3>2, <3>3, <3>4
  <2> QED
    BY <1>1, <2>1, <2>2, SystemOK
<1> QED
  BY <1>2, <1>3 DEF Logind

LEMMA StepOK == IInv /\ [Next]_vars => StepFacts
<1> SUFFICES ASSUME IInv, [Next]_vars PROVE StepFacts
  OBVIOUS
<1>1. CASE \E reading \in Readings : Start(reading)
  BY <1>1, StartOK
<1>2. CASE \E reading \in Readings :
             TimerPoll(reading) \/ OtherPoll(reading) \/ EndCalibration(reading)
  BY <1>2, PollsOK
<1>3. CASE \E reading \in Readings, way \in Wishes \cap Ways : CheckIdle(reading, way)
  BY <1>3, CheckIdleOK
<1>4. CASE \E c \in Configs, reading \in Readings, due \in BOOLEAN : Configure(c, reading, due)
  BY <1>4, ConfigureOK
<1>5. CASE \E radios \in Radios : LidMoves(radios)
  BY <1>5, LidMovesOK
<1>6. CASE \E way \in Wishes, radios \in Radios : UserSleep(way, radios)
  BY <1>6, UserSleepOK
<1>7. CASE \E radios \in Radios : PrepareForSleep(radios)
  BY <1>7, PrepareForSleepOK
<1>8. CASE AfterWakeActions
  BY <1>8, AfterWakeActionsOK
<1>9. CASE PollWithoutBattery \/ (\E p \in Picks : UserProfile(p)) \/ SelectPowernap
             \/ RestoreBluetooth \/ PrepareForShutdown \/ Calibrate
  BY <1>9, SmallHandlersOK
<1>10. CASE Stop \/ Killed \/ Login
  BY <1>10, LifeOK
<1>11. CASE Logind \/ WriteCall \/ UNCHANGED vars
  BY <1>11, LogindOK
<1> QED
  BY <1>1, <1>2, <1>3, <1>4, <1>5, <1>6, <1>7, <1>8, <1>9, <1>10, <1>11 DEF Next, Handlers

LEMMA InitOK == Init => IInv
<1> SUFFICES ASSUME Init PROVE IInv
  OBVIOUS
<1>1. PICK c \in Configs : gui = New(c)
  BY DEF Init
<1>2. /\ DOMAIN gui = Members /\ gui.config = c /\ ~gui.inPowernap /\ gui.calls = <<>>
      /\ gui.phase = "new" /\ ~gui.warnCrit /\ ~gui.warnSimple
  BY <1>1 DEF New, Members
<1>3. GuiOK(gui)
  BY <1>2, NoCalls DEF GuiOK, Shape
<1>4. SignalsOK
  BY EmptySeq DEF Init, SignalsOK
<1> QED
  BY <1>2, <1>3, <1>4 DEF IInv, EndedOK

LEMMA Invariance == Spec => []IInv
<1>1. IInv /\ [Next]_vars => IInv'
  BY StepOK DEF StepFacts
<1> QED
  BY <1>1, InitOK, PTL DEF Spec

-----------------------------------------------------------------------------
\* A client that keeps the machine awake behind its lid knows it on mains, whatever polls,
\* sleeps, calibrations and configurations come in between.
THEOREM PowernapStaysOnMains == Spec => []PowernapOnlyOnMains
<1>1. IInv => PowernapOnlyOnMains
  BY DEF IInv, GuiOK, PowernapOnlyOnMains
<1> QED
  BY <1>1, Invariance, PTL

\* A powernap and an open lid come together only if the lid opens into a sleep.
THEOREM PowernapEnds == Spec => PowernapEndsWithLid
<1>1. IInv /\ [Next]_vars =>
        [gui'.inPowernap /\ gui'.lidOpen =>
           (gui.inPowernap /\ gui.lidOpen) \/ gui.actionInProgress]_vars
  BY StepOK DEF StepFacts, NapsOnClosedLid
<1> QED
  BY <1>1, Invariance, PTL DEF Spec, PowernapEndsWithLid

\* Every path that takes the cores off either leaves a note and a sleep still to come, or is
\* one of the four exceptions.
THEOREM CoresReturn == Spec => CoresComeBack
<1>1. IInv /\ [Next]_vars =>
        [CoresTaken' => \/ CoresTaken
                        \/ LogindRefuses
                        \/ Killed
                        \/ Stop
                        \/ AfterWakeActions /\ ~gui.config.minimal_state_before_suspend]_vars
  BY StepOK DEF StepFacts, CoresKept
<1> QED
  BY <1>1, Invariance, PTL DEF Spec, CoresComeBack

\* No order of polls, sleeps of others, lids and wake-ups leaves a running client without
\* its battery timer, but for a sleep that logind refuses and a shutdown that it announces.
THEOREM PollingReturns == Spec => PollingComesBack
<1>1. IInv /\ [Next]_vars => [PollingLost' => PollingLost \/ LogindRefuses \/ PrepareForShutdown]_vars
  BY StepOK DEF StepFacts, PollingKept
<1> QED
  BY <1>1, Invariance, PTL DEF Spec, PollingComesBack

\* Whatever the order of polls, chargers, calibrations, saved settings and logins, what a
\* warning froze is thawed when it ends, but for the four exceptions.
THEOREM FreezingThaws == Spec => FreezingEndsWithWarning
<1>1. IInv /\ [Next]_vars =>
        [/\ ProcsLeft' => \/ ProcsLeft
                          \/ CriticalActionTaken
                          \/ PollWithoutBattery
                          \/ Killed
                          \/ ~gui'.config.critical_freeze_processes
         /\ ServicesLeft' => \/ ServicesLeft
                             \/ PollWithoutBattery
                             \/ Killed
                             \/ ~gui'.config.lowbat_freeze_services]_vars
  BY StepOK DEF StepFacts, FreezingKept
<1> QED
  BY <1>1, Invariance, PTL DEF Spec, FreezingEndsWithWarning

-----------------------------------------------------------------------------
(* The types: which values each member can take, whatever waits in calls. *)

Typed(m) ==
  /\ DOMAIN m = Members
  /\ m.config \in Configs
  /\ m.phase \in {"new", "running", "exited", "killed"}
  /\ m.chargingState \in -1..2
  /\ m.criticalLevelReached \in Percents \cup {0}
  /\ m.powerProfile \in -1..2
  /\ m.lastHwProfile \in -1..3
  /\ m.lastOpmode \in -1..1
  /\ m.wifiInitialState \in {-1, 0, 1} /\ m.bluetoothInitialState \in {-1, 0, 1}
  /\ m.warnSimple \in BOOLEAN /\ m.warnCrit \in BOOLEAN /\ m.bluetoothTimer \in BOOLEAN
  /\ m.calibrationActive \in BOOLEAN /\ m.actionInProgress \in BOOLEAN
  /\ m.minimalMode \in BOOLEAN /\ m.batteryTimer \in BOOLEAN
  /\ m.lidOpen \in BOOLEAN /\ m.powernapEnabled \in BOOLEAN /\ m.inPowernap \in BOOLEAN
  /\ m.bypassed \in BOOLEAN

LEMMA CallTyped ==
  ASSUME NEW m, Typed(m), NEW name, NEW arg
  PROVE  Typed(Call(m, name, arg))
BY DEF Call, Typed, Members

LEMMA CallIfTyped ==
  ASSUME NEW m, Typed(m), NEW b, NEW name, NEW arg
  PROVE  Typed(CallIf(b, m, name, arg))
BY CallTyped DEF CallIf

LEMMA RadiosTyped ==
  ASSUME NEW m, Typed(m), NEW state
  PROVE  Typed(SetWifi(m, state)) /\ Typed(SetBluetooth(m, state))
BY CallTyped DEF SetWifi, SetBluetooth

LEMMA SetProfileTyped ==
  ASSUME NEW m, Typed(m), NEW p \in Profiles
  PROVE  Typed(SetProfile(m, p))
<1> DEFINE calls == Append(m.calls, ProfileCommand(p))
           n == [m EXCEPT !.lastHwProfile = p, !.powerProfile = IF p = 3 THEN 0 ELSE p,
                          !.bypassed = FALSE, !.calls = calls]
<1>1. SetProfile(m, p) \in {m, n}
  BY DEF SetProfile
<1> HIDE DEF calls
<1>2. Typed(n)
  BY DEF Typed, Members, Profiles
<1> QED
  BY <1>1, <1>2

LEMMA CalibrationTellsTyped ==
  ASSUME NEW m, Typed(m), NEW p
  PROVE  Typed(CalibrationTells(m, p)) /\ Typed(Heard(m, p))
<1> DEFINE calls == Append(m.calls, ProfileCommand(p))
           n == [m EXCEPT !.bypassed = TRUE, !.calls = calls]
<1>1. CalibrationTells(m, p) = n
  BY DEF CalibrationTells
<1> HIDE DEF calls
<1>2. Typed(n)
  BY DEF Typed, Members
<1> QED
  BY <1>1, <1>2 DEF Heard

LEMMA AdjustProfileTyped ==
  ASSUME NEW m, Typed(m)
  PROVE  Typed(AdjustProfile(m))
<1> DEFINE opmode == IF OnMains(m) THEN 1 ELSE 0
           told == Call(m, "set_cpu_driver_opmode", OnMains(m))
           eth == CallIf(m.config.disable_eth = 2, told, "toggle_ethernet", OnMains(m))
           fresh == [eth EXCEPT !.lastOpmode = opmode,
                                !.lastHwProfile = IF opmode # m.lastOpmode THEN -1 ELSE @]
<1>1. AdjustProfile(m) = fresh \/ \E p \in Profiles : AdjustProfile(m) = SetProfile(fresh, p)
  <2>1. {m.config.bat_power_profile, m.config.ac_power_profile, m.config.ac_full_power_profile}
          \subseteq Profiles /\ {1, 3} \subseteq Profiles
    BY ConfigAssumption DEF Typed, Profiles
  <2> QED
    BY <2>1 DEF AdjustProfile
<1>2. Typed(eth)
  BY CallTyped, CallIfTyped
<1> HIDE DEF eth
<1>3. Typed(fresh)
  BY <1>2 DEF Typed, Members
<1> HIDE DEF fresh
<1> QED
  BY <1>1, <1>3, SetProfileTyped

LEMMA MinimalModeTyped ==
  ASSUME NEW m, Typed(m)
  PROVE  Typed(EnterMinimalMode(m)) /\ Typed(ExitMinimalMode(m))
<1> DEFINE quiet == Call(SetBluetooth(SetWifi(m, 0), 0), "set_webcam_power", FALSE)
           off == Call(SetProfile(quiet, 3), "disable_cpu_cores", "-")
           on == Call(Call(m, "reenable_cpu_cores", "-"), "set_webcam_power", TRUE)
<1>1. Typed(off)
  <2>1. Typed(quiet)
    BY CallTyped, RadiosTyped
  <2> HIDE DEF quiet
  <2>2. Typed(SetProfile(quiet, 3))
    BY <2>1, SetProfileTyped DEF Profiles
  <2> QED
    BY <2>2, CallTyped
<1>2. Typed(on)
  BY CallTyped
<1>3. /\ EnterMinimalMode(m) = [off EXCEPT !.minimalMode = TRUE]
      /\ ExitMinimalMode(m) \in {m, [on EXCEPT !.minimalMode = FALSE]}
  BY DEF EnterMinimalMode, ExitMinimalMode
<1> HIDE DEF off, on
<1>4. Typed([off EXCEPT !.minimalMode = TRUE]) /\ Typed([on EXCEPT !.minimalMode = FALSE])
  BY <1>1, <1>2 DEF Typed, Members
<1> QED
  BY <1>3, <1>4

LEMMA PrepareSuspendGeneralTyped ==
  ASSUME NEW m, Typed(m), NEW hibernate, NEW radios \in Radios
  PROVE  Typed(PrepareSuspendGeneral(m, hibernate, radios))
<1> DEFINE still == [m EXCEPT
             !.batteryTimer = FALSE,
             !.wifiInitialState = IF @ = -1 THEN radios.wifi ELSE @,
             !.bluetoothInitialState = IF @ = -1 THEN radios.bluetooth ELSE @]
           cores == Call(still, "reenable_cpu_cores", "-")
<1>1. PrepareSuspendGeneral(m, hibernate, radios)
        \in {SetProfile(cores, 2), EnterMinimalMode(still), still}
  BY DEF PrepareSuspendGeneral
<1>2. Typed(still)
  <2>1. radios.wifi \in {-1, 0, 1} /\ radios.bluetooth \in {-1, 0, 1}
    BY ConfigAssumption
  <2> QED
    BY <2>1 DEF Typed, Members
<1> HIDE DEF still
<1>3. Typed(cores)
  BY <1>2, CallTyped
<1> HIDE DEF cores
<1> QED
  BY <1>1, <1>2, <1>3, SetProfileTyped, MinimalModeTyped DEF Profiles

LEMMA SleepTyped ==
  ASSUME NEW m, Typed(m), NEW way, NEW radios \in Radios
  PROVE  Typed(Sleep(m, way, radios))
<1> DEFINE acting == [m EXCEPT !.actionInProgress = TRUE]
           prepared == PrepareSuspendGeneral(acting, way = "hibernate", radios)
<1>1. Sleep(m, way, radios) \in {m, Call(prepared, "logind", way)}
  BY DEF Sleep
<1>2. Typed(acting)
  BY DEF Typed, Members
<1> HIDE DEF acting
<1>3. Typed(prepared)
  BY <1>2, PrepareSuspendGeneralTyped
<1> HIDE DEF prepared
<1> QED
  BY <1>1, <1>3, CallTyped

LEMMA RestoreRadiosTyped ==
  ASSUME NEW m, Typed(m)
  PROVE  Typed(RestoreRadios(m))
BY RadiosTyped DEF RestoreRadios

LEMMA SyncTyped ==
  ASSUME NEW m, Typed(m)
  PROVE  Typed(SyncDaemonAdvancedSettings(m))
BY CallTyped, CallIfTyped DEF SyncDaemonAdvancedSettings

LEMMA LidClosedTyped ==
  ASSUME NEW m, Typed(m), NEW radios \in Radios
  PROVE  Typed(LidClosed(m, radios))
<1> DEFINE still == [m EXCEPT !.batteryTimer = FALSE]
<1>1. \/ LidClosed(m, radios) \in {m, EnterPowernap(still, radios),
                                   [still EXCEPT !.batteryTimer = TRUE]}
      \/ \E way : LidClosed(m, radios) = Sleep(still, way, radios)
  BY DEF LidClosed
<1>2. Typed(still) /\ Typed([still EXCEPT !.batteryTimer = TRUE])
  BY DEF Typed, Members
<1> HIDE DEF still
<1>3. Typed(EnterPowernap(still, radios))
  <2> DEFINE read == [still EXCEPT !.bluetoothInitialState =
                                     IF @ = -1 THEN radios.bluetooth ELSE @]
             bt == IF still.config.ac_lid_powernap_mode_disable_bt
                     THEN SetBluetooth(read, 0) ELSE still
             seen == [bt EXCEPT !.wifiInitialState = IF @ = -1 THEN radios.wifi ELSE @]
             wifi == IF still.config.ac_lid_powernap_mode_disable_wifi
                       THEN SetWifi(seen, 0) ELSE bt
             low == SetProfile(wifi, 0)
  <2>1. EnterPowernap(still, radios) = [low EXCEPT !.inPowernap = TRUE, !.batteryTimer = TRUE]
    <3>1. wifi = IF still.config.ac_lid_powernap_mode_disable_wifi THEN SetWifi(seen, 0) ELSE bt
      OBVIOUS
    <3> QED
      BY <1>2, CallTyped DEF EnterPowernap, SetBluetooth, Call, Typed, Members
  <2>2. radios.wifi \in {-1, 0, 1} /\ radios.bluetooth \in {-1, 0, 1}
    BY ConfigAssumption
  <2>3. Typed(read)
    BY <1>2, <2>2 DEF Typed, Members
  <2> HIDE DEF read
  <2>4. Typed(bt)
    BY <1>2, <2>3, RadiosTyped
  <2> HIDE DEF bt
  <2>5. Typed(seen)
    BY <2>2, <2>4 DEF Typed, Members
  <2> HIDE DEF seen
  <2>6. Typed(wifi)
    BY <2>4, <2>5, RadiosTyped
  <2> HIDE DEF wifi
  <2>7. Typed(low)
    BY <2>6, SetProfileTyped DEF Profiles
  <2> HIDE DEF low
  <2> QED
    BY <2>1, <2>7 DEF Typed, Members
<1> QED
  BY <1>1, <1>2, <1>3, SleepTyped

LEMMA LidOpenedTyped ==
  ASSUME NEW m, Typed(m)
  PROVE  Typed(LidOpened(m))
<1> DEFINE ended == [m EXCEPT !.inPowernap = FALSE]
           up == RestoreRadios(AdjustProfile(ended))
<1>1. LidOpened(m) \in {m, [up EXCEPT !.batteryTimer = TRUE], [m EXCEPT !.batteryTimer = TRUE]}
  BY DEF LidOpened
<1>2. Typed(ended) /\ Typed([m EXCEPT !.batteryTimer = TRUE])
  BY DEF Typed, Members
<1> HIDE DEF ended
<1>3. Typed(up)
  BY <1>2, AdjustProfileTyped, RestoreRadiosTyped
<1> HIDE DEF up
<1>4. Typed([up EXCEPT !.batteryTimer = TRUE])
  BY <1>3 DEF Typed, Members
<1> QED
  BY <1>1, <1>2, <1>4

LEMMA TransitionTyped ==
  ASSUME NEW m, Typed(m), NEW state \in 0..2, NEW radios \in Radios
  PROVE  Typed(Transition(m, state, radios))
<1> DEFINE read == [m EXCEPT !.chargingState = state]
           adjusted == AdjustProfile(read)
           ended == [adjusted EXCEPT !.inPowernap = FALSE]
<1>1. Transition(m, state, radios)
        \in {read, LidClosed(RestoreRadios(ended), radios), adjusted}
  BY DEF Transition
<1>2. Typed(read)
  BY DEF Typed, Members
<1> HIDE DEF read
<1>3. Typed(adjusted)
  BY <1>2, AdjustProfileTyped
<1> HIDE DEF adjusted
<1>4. Typed(ended)
  BY <1>3 DEF Typed, Members
<1> HIDE DEF ended
<1> QED
  BY <1>1, <1>2, <1>3, <1>4, RestoreRadiosTyped, LidClosedTyped

LEMMA EnteringTyped ==
  ASSUME NEW m, Typed(m), NEW percent \in Percents
  PROVE  Typed(EnterCritical(m, percent)) /\ Typed(EnterLow(m))
<1> DEFINE critical == [m EXCEPT !.warnCrit = TRUE, !.criticalLevelReached = percent]
           low == [m EXCEPT !.warnSimple = TRUE]
           dark == SetBluetooth(Call(critical, "set_webcam_power", FALSE), 0)
<1>1. Typed(critical) /\ Typed(low)
  BY DEF Typed, Members
<1>2. /\ EnterCritical(m, percent) =
           AdjustProfile(IF m.config.critical_freeze_processes THEN FreezeProcesses(dark) ELSE dark)
      /\ EnterLow(m) =
           AdjustProfile(IF m.config.lowbat_freeze_services THEN FreezeServices(low) ELSE low)
  BY DEF EnterCritical, EnterLow
<1> HIDE DEF critical, low
<1>3. Typed(dark)
  BY <1>1, CallTyped, RadiosTyped
<1> HIDE DEF dark
<1>4. Typed(FreezeProcesses(dark)) /\ Typed(FreezeServices(low))
  BY <1>1, <1>3, CallTyped DEF FreezeProcesses, FreezeServices
<1> QED
  BY <1>1, <1>2, <1>3, <1>4, AdjustProfileTyped

LEMMA WarnTyped ==
  ASSUME NEW m, Typed(m), NEW percent \in Percents, NEW radios \in Radios
  PROVE  Typed(Warn(m, percent, radios))
<1> DEFINE calm == [m EXCEPT !.warnCrit = FALSE]
<1>1. Warn(m, percent, radios)
        \in {m, EnterCritical(m, percent), RunCriticalAction(calm, radios), EnterLow(m)}
  BY DEF Warn
<1>2. Typed(calm)
  BY DEF Typed, Members
<1>3. calm.config \in Configs /\ calm.config.critical_action \in 0..2
  BY <1>2, ConfigAssumption DEF Typed
<1> HIDE DEF calm
<1>4. RunCriticalAction(calm, radios) \in {Sleep(calm, "hibernate", radios),
                                           Sleep(calm, "hybrid", radios),
                                           Call(calm, "shutdown", "-")}
  BY <1>3 DEF RunCriticalAction
<1> QED
  BY <1>1, <1>2, <1>4, EnteringTyped, SleepTyped, CallTyped

LEMMA ResetTyped ==
  ASSUME NEW m, Typed(m), NEW percent
  PROVE  Typed(Reset(m, percent))
<1>1. ASSUME NEW n, Typed(n) PROVE Typed(LeaveCritical(n)) /\ Typed(LeaveLow(n))
  <2>1. Typed([n EXCEPT !.warnCrit = FALSE]) /\ Typed([n EXCEPT !.warnSimple = FALSE])
    BY <1>1 DEF Typed, Members
  <2> QED
    BY <2>1, CallTyped, CallIfTyped, RadiosTyped DEF LeaveCritical, LeaveLow
<1> DEFINE calm == IF m.warnCrit /\ (percent > m.config.critical_level \/ m.chargingState # 0)
                     THEN LeaveCritical(m) ELSE m
<1>2. Typed(calm)
  BY <1>1
<1>3. Reset(m, percent) \in {LeaveLow(calm), calm}
  BY DEF Reset
<1> HIDE DEF calm
<1> QED
  BY <1>1, <1>2, <1>3

LEMMA CheckBatteryStatusTyped ==
  ASSUME NEW m, Typed(m), NEW reading \in Readings
  PROVE  Typed(CheckBatteryStatus(m, reading))
<1> DEFINE seen == Transition(m, reading.state, reading.radios)
           warned == Warn(seen, reading.percent, reading.radios)
           reset == Reset(warned, reading.percent)
<1>1. CheckBatteryStatus(m, reading) \in {AdjustProfile(reset), reset}
  BY DEF CheckBatteryStatus
<1>2. reading.state \in 0..2 /\ reading.percent \in Percents /\ reading.radios \in Radios
  BY DEF Readings
<1>3. Typed(seen)
  BY <1>2, TransitionTyped
<1> HIDE DEF seen
<1>4. Typed(warned)
  BY <1>2, <1>3, WarnTyped
<1> HIDE DEF warned
<1>5. Typed(reset)
  BY <1>4, ResetTyped
<1> HIDE DEF reset
<1> QED
  BY <1>1, <1>5, AdjustProfileTyped

\* A signal is added only while there is room, one at the beginning of a sleep and one at
\* its end.
TypeIInv ==
  /\ Typed(gui)
  /\ machine \in {"awake", "going", "asleep"}
  /\ signals \in Seq(BOOLEAN) /\ Len(signals) <= SignalBound + 2
  /\ machine # "awake" => Len(signals) <= SignalBound + 1
  /\ asked \in [procs : BOOLEAN, services : BOOLEAN, cores_off : BOOLEAN]

LEMMA AskedTyped ==
  ASSUME asked \in [procs : BOOLEAN, services : BOOLEAN, cores_off : BOOLEAN], NEW calls
  PROVE  Asked(calls) \in [procs : BOOLEAN, services : BOOLEAN, cores_off : BOOLEAN]
<1>1. ASSUME NEW on, NEW off, NEW old \in BOOLEAN
      PROVE  Latest(calls, on, off, old) \in BOOLEAN
  BY DEF Latest
<1> QED
  BY <1>1 DEF Asked

LEMMA BecomesTyped ==
  ASSUME TypeIInv, NEW m, Typed(m), Becomes(m)
  PROVE  /\ Typed(gui')
         /\ asked' \in [procs : BOOLEAN, services : BOOLEAN, cores_off : BOOLEAN]
BY AskedTyped DEF TypeIInv, Becomes

LEMMA HandlerTyped ==
  ASSUME TypeIInv, NEW m, Typed(m), Becomes(m), UNCHANGED system
  PROVE  TypeIInv'
BY BecomesTyped DEF TypeIInv, system

LEMMA NewTyped ==
  ASSUME NEW c \in Configs
  PROVE  Typed(New(c)) /\ Typed([New(c) EXCEPT !.phase = "killed"])
BY DEF New, Typed, Members

LEMMA PollsTyped ==
  ASSUME TypeIInv, NEW reading \in Readings,
         \/ Start(reading) \/ TimerPoll(reading) \/ OtherPoll(reading) \/ EndCalibration(reading)
         \/ \E way : CheckIdle(reading, way)
         \/ \E c \in Configs, due \in BOOLEAN : Configure(c, reading, due)
  PROVE  TypeIInv'
<1> DEFINE polled(m) == CheckBatteryStatus(m, reading)
<1>1. Typed(gui)
  BY DEF TypeIInv
<1>2. Typed(polled(gui))
  BY <1>1, CheckBatteryStatusTyped
<1>3. CASE Start(reading)
  <2> DEFINE eth == CallIf(gui.config.disable_eth = 1, polled(gui), "toggle_ethernet", FALSE)
             sent == SyncDaemonAdvancedSettings(eth)
             m == [sent EXCEPT !.phase = "running", !.batteryTimer = TRUE]
  <2>1. Becomes(m) /\ UNCHANGED system
    BY <1>3 DEF Start
  <2>2. Typed(sent)
    BY <1>2, CallIfTyped, SyncTyped
  <2> HIDE DEF sent
  <2>3. Typed(m)
    BY <2>2 DEF Typed, Members
  <2> HIDE DEF m
  <2> QED
    BY <2>1, <2>3, HandlerTyped
<1>4. CASE TimerPoll(reading) \/ OtherPoll(reading)
  <2>1. PICK p : Becomes(Heard(polled(gui), p)) /\ UNCHANGED system
    BY <1>4 DEF TimerPoll, OtherPoll
  <2> QED
    BY <1>2, <2>1, CalibrationTellsTyped, HandlerTyped
<1>5. CASE EndCalibration(reading)
  <2> DEFINE told == CalibrationTells(gui, 0)
             m == [told EXCEPT !.calibrationActive = FALSE, !.batteryTimer = TRUE]
  <2>1. Becomes(polled(m)) /\ UNCHANGED system
    BY <1>5 DEF EndCalibration
  <2>2. Typed(told)
    BY <1>1, CalibrationTellsTyped
  <2> HIDE DEF told
  <2>3. Typed(m)
    BY <2>2 DEF Typed, Members
  <2> HIDE DEF m
  <2> QED
    BY <2>1, <2>3, CheckBatteryStatusTyped, HandlerTyped
<1>6. CASE \E way : CheckIdle(reading, way)
  <2>1. PICK way : CheckIdle(reading, way)
    BY <1>6
  <2>2. reading.radios \in Radios
    BY DEF Readings
  <2>3. Typed(Sleep(polled(gui), way, reading.radios))
    BY <1>2, <2>2, SleepTyped
  <2> QED
    BY <2>1, <2>3, HandlerTyped DEF CheckIdle
<1>7. CASE \E c \in Configs, due \in BOOLEAN : Configure(c, reading, due)
  <2>1. PICK c \in Configs, due \in BOOLEAN : Configure(c, reading, due)
    BY <1>7
  <2> DEFINE configured == [gui EXCEPT !.config = c]
             sent == SyncDaemonAdvancedSettings(configured)
  <2>2. (Becomes(sent) \/ Becomes(polled(sent))) /\ UNCHANGED system
    BY <2>1 DEF Configure
  <2>3. Typed(configured)
    BY <1>1 DEF Typed, Members
  <2> HIDE DEF configured
  <2>4. Typed(sent)
    BY <2>3, SyncTyped
  <2> HIDE DEF sent
  <2> QED
    BY <2>2, <2>4, CheckBatteryStatusTyped, HandlerTyped
<1> QED
  BY <1>3, <1>4, <1>5, <1>6, <1>7

\* The handlers that neither poll nor take a signal.
LEMMA SmallHandlersTyped ==
  ASSUME TypeIInv,
         \/ PollWithoutBattery \/ SelectPowernap \/ RestoreBluetooth \/ PrepareForShutdown
         \/ Calibrate
         \/ \E p \in Picks : UserProfile(p)
         \/ \E way : \E radios \in Radios : UserSleep(way, radios)
         \/ \E radios \in Radios : LidMoves(radios)
  PROVE  TypeIInv'
<1>1. Typed(gui)
  BY DEF TypeIInv
<1>2. CASE PollWithoutBattery
  <2>1. Typed(CheckWithoutBattery(gui))
    BY <1>1 DEF CheckWithoutBattery, Typed, Members
  <2>2. PICK p : Becomes(Heard(CheckWithoutBattery(gui), p)) /\ UNCHANGED system
    BY <1>2 DEF PollWithoutBattery
  <2> QED
    BY <2>1, <2>2, CalibrationTellsTyped, HandlerTyped
<1>3. CASE SelectPowernap
  <2>1. Typed([gui EXCEPT !.powernapEnabled = ~@])
    BY <1>1 DEF Typed, Members
  <2> QED
    BY <1>3, <2>1 DEF SelectPowernap, TypeIInv, system
<1>4. CASE RestoreBluetooth
  <2> DEFINE set == IF gui.bluetoothInitialState # -1
                      THEN SetBluetooth(gui, gui.bluetoothInitialState) ELSE gui
             m == [set EXCEPT !.bluetoothTimer = FALSE, !.bluetoothInitialState = -1]
  <2>1. Becomes(m) /\ UNCHANGED system
    BY <1>4 DEF RestoreBluetooth
  <2>2. Typed(set)
    BY <1>1, RadiosTyped
  <2> HIDE DEF set
  <2>3. Typed(m)
    BY <2>2 DEF Typed, Members
  <2> HIDE DEF m
  <2> QED
    BY <2>1, <2>3, HandlerTyped
<1>5. CASE Calibrate
  <2>1. Typed([gui EXCEPT !.calibrationActive = TRUE])
    BY <1>1 DEF Typed, Members
  <2> QED
    BY <1>5, <2>1, HandlerTyped DEF Calibrate
<1>6. CASE \E p \in Picks : UserProfile(p)
  BY <1>1, <1>6, ConfigAssumption, SetProfileTyped, HandlerTyped DEF UserProfile
<1>7. CASE \E way : \E radios \in Radios : UserSleep(way, radios)
  BY <1>1, <1>7, CallTyped, SleepTyped, HandlerTyped DEF UserSleep
<1>8. CASE \E radios \in Radios : LidMoves(radios)
  <2>1. PICK radios \in Radios : LidMoves(radios)
    BY <1>8
  <2> DEFINE moved == [gui EXCEPT !.lidOpen = ~@]
  <2>2. (Becomes(LidClosed(moved, radios)) \/ Becomes(LidOpened(moved))) /\ UNCHANGED system
    BY <2>1 DEF LidMoves
  <2>3. Typed(moved)
    BY <1>1 DEF Typed, Members
  <2> HIDE DEF moved
  <2> QED
    BY <2>2, <2>3, LidClosedTyped, LidOpenedTyped, HandlerTyped
<1>9. CASE PrepareForShutdown
  <2>1. Typed([gui EXCEPT !.batteryTimer = @ /\ gui.actionInProgress])
    BY <1>1 DEF Typed, Members
  <2> QED
    BY <1>9, <2>1 DEF PrepareForShutdown, TypeIInv, system
<1> QED
  BY <1>2, <1>3, <1>4, <1>5, <1>6, <1>7, <1>8, <1>9

LEMMA SignalTakenTyped ==
  ASSUME TypeIInv, signals # <<>>
  PROVE  /\ Tail(signals) \in Seq(BOOLEAN) /\ Len(Tail(signals)) <= SignalBound + 2
         /\ machine # "awake" => Len(Tail(signals)) <= SignalBound + 1
<1>1. /\ Tail(signals) \in Seq(BOOLEAN) /\ Len(Tail(signals)) = Len(signals) - 1
      /\ Len(signals) \in Nat
  BY HeadTailProperties, LenProperties DEF TypeIInv
<1> QED
  BY <1>1 DEF TypeIInv, SignalBound

LEMMA WakingTyped ==
  ASSUME TypeIInv, AfterWakeActions \/ \E radios \in Radios : PrepareForSleep(radios)
  PROVE  TypeIInv'
<1>1. Typed(gui)
  BY DEF TypeIInv
<1>2. signals' = Tail(signals) /\ machine' = machine /\ signals # <<>>
  BY DEF AfterWakeActions, PrepareForSleep
<1>3. ASSUME NEW m, Typed(m), Becomes(m) PROVE TypeIInv'
  BY <1>2, <1>3, BecomesTyped, SignalTakenTyped DEF TypeIInv
<1>4. CASE \E radios \in Radios : PrepareForSleep(radios)
  <2>1. PICK radios \in Radios : PrepareForSleep(radios)
    BY <1>4
  <2>2. Becomes(gui) \/ Becomes(PrepareSuspendGeneral(gui, FALSE, radios))
    BY <2>1 DEF PrepareForSleep
  <2> QED
    BY <1>1, <1>3, <2>2, PrepareSuspendGeneralTyped
<1>5. CASE AfterWakeActions
  <2> DEFINE up == [gui EXCEPT !.actionInProgress = FALSE]
             whole == IF gui.config.minimal_state_before_suspend THEN ExitMinimalMode(up) ELSE up
             adjusted == AdjustProfile(whole)
             wifi == IF gui.wifiInitialState # -1
                       THEN SetWifi(adjusted, gui.wifiInitialState) ELSE adjusted
             m == [wifi EXCEPT !.batteryTimer = TRUE,
                               !.bluetoothTimer = @ \/ gui.bluetoothInitialState # -1]
  <2>1. Becomes(m)
    BY <1>5 DEF AfterWakeActions
  <2>2. Typed(up)
    BY <1>1 DEF Typed, Members
  <2> HIDE DEF up
  <2>3. Typed(whole)
    BY <2>2, MinimalModeTyped
  <2> HIDE DEF whole
  <2>4. Typed(wifi)
    BY <2>3, AdjustProfileTyped, RadiosTyped
  <2> HIDE DEF wifi
  <2>5. Typed(m)
    BY <2>4 DEF Typed, Members
  <2> HIDE DEF m
  <2> QED
    BY <1>3, <2>1, <2>5
<1> QED
  BY <1>4, <1>5

LEMMA LifeTyped ==
  ASSUME TypeIInv, Stop \/ Killed \/ Login
  PROVE  TypeIInv'
<1>1. Typed(gui) /\ gui.config \in Configs
  BY DEF TypeIInv, Typed
<1>2. <<>> \in Seq(BOOLEAN) /\ Len(<<>>) = 0
  BY EmptySeq
<1>3. CASE Stop
  <2> DEFINE eth == CallIf(gui.config.disable_eth # 0, gui, "toggle_ethernet", TRUE)
             thawed == Call(Call(Call(eth, "unfreeze_all_frozen_services", "-"),
                                 "freeze_processes", FALSE), "set_webcam_power", TRUE)
             bt == IF gui.bluetoothInitialState # -1
                     THEN SetBluetooth(thawed, gui.bluetoothInitialState) ELSE thawed
             wifi == IF gui.wifiInitialState # -1 THEN SetWifi(bt, gui.wifiInitialState) ELSE bt
             m == [wifi EXCEPT !.phase = "exited", !.batteryTimer = FALSE, !.bluetoothTimer = FALSE]
  <2>1. Becomes(m) /\ signals' = <<>> /\ machine' = machine
    BY <1>3 DEF Stop
  <2>2. Typed(thawed)
    BY <1>1, CallTyped, CallIfTyped
  <2> HIDE DEF thawed
  <2>3. Typed(wifi)
    BY <2>2, RadiosTyped
  <2> HIDE DEF wifi
  <2>4. Typed(m)
    BY <2>3 DEF Typed, Members
  <2> HIDE DEF m
  <2> QED
    BY <1>2, <2>1, <2>4, BecomesTyped DEF TypeIInv, SignalBound
<1>4. CASE Killed \/ Login
  <2>1. gui' \in {New(gui.config), [New(gui.config) EXCEPT !.phase = "killed"]}
    BY <1>4 DEF Killed, Login
  <2>2. signals' \in {signals, <<>>} /\ machine' = machine /\ asked' = asked
    BY <1>4 DEF Killed, Login, system
  <2> QED
    <3>1. Typed(gui')
      BY <1>1, <2>1, NewTyped
    <3>2. /\ signals' \in Seq(BOOLEAN) /\ Len(signals') <= SignalBound + 2
          /\ machine' # "awake" => Len(signals') <= SignalBound + 1
      <4>1. CASE signals' = signals
        BY <2>2, <4>1 DEF TypeIInv
      <4>2. CASE signals' = <<>>
        BY <1>2, <4>2 DEF SignalBound
      <4> QED
        BY <2>2, <4>1, <4>2
    <3> QED
      BY <2>2, <3>1, <3>2 DEF TypeIInv
<1> QED
  BY <1>3, <1>4

LEMMA SystemTyped ==
  ASSUME TypeIInv, Logind \/ WriteCall
  PROVE  TypeIInv'
<1>1. Typed(gui)
  BY DEF TypeIInv
<1>2. Typed(gui')
  BY <1>1 DEF Logind, LogindAccepts, LogindRefuses, OthersSleep, FallAsleep, Resume, WriteCall,
              Typed, Members
<1>3. asked' = asked
  BY DEF Logind, LogindAccepts, LogindRefuses, OthersSleep, FallAsleep, Resume, WriteCall
<1>4. CASE BeginSleep \/ Resume
  <2>1. PICK b \in BOOLEAN : signals' = IF gui.phase = "running" THEN Append(signals, b) ELSE signals
    BY <1>4 DEF BeginSleep, Resume
  <2>2. /\ Append(signals, b) \in Seq(BOOLEAN) /\ Len(Append(signals, b)) = Len(signals) + 1
        /\ Len(signals) \in Nat
    BY AppendProperties, LenProperties DEF TypeIInv
  <2>3. CASE BeginSleep
    <3>1. /\ machine' = "going" /\ signals' \in {Append(signals, b), signals}
          /\ Len(signals) <= SignalBound
      BY <2>1, <2>3 DEF BeginSleep
    <3>2. /\ signals' \in Seq(BOOLEAN) /\ Len(signals') <= SignalBound + 1
          /\ Len(signals') <= SignalBound + 2
      BY <2>2, <3>1 DEF TypeIInv, SignalBound
    <3> QED
      BY <1>2, <1>3, <3>1, <3>2 DEF TypeIInv
  <2>4. CASE Resume
    <3>1. /\ machine # "awake" /\ machine' = "awake"
          /\ signals' \in {Append(signals, b), signals}
      BY <2>1, <2>4 DEF Resume
    <3>2. signals' \in Seq(BOOLEAN) /\ Len(signals') <= SignalBound + 2
      BY <2>2, <3>1 DEF TypeIInv, SignalBound
    <3> QED
      BY <1>2, <1>3, <3>1, <3>2 DEF TypeIInv
  <2> QED
    BY <1>4, <2>3, <2>4
<1>5. CASE LogindRefuses \/ FallAsleep \/ WriteCall
  BY <1>2, <1>3, <1>5 DEF LogindRefuses, FallAsleep, WriteCall, system, TypeIInv
<1> QED
  BY <1>4, <1>5 DEF Logind, LogindAccepts, OthersSleep

\* Whatever polls, lid, users and logind do, every member keeps to the values that the code
\* gives it, and no more than three signals of logind wait.
THEOREM ClientTypes == Spec => []TypeOK
<1>1. Init => TypeIInv
  <2> SUFFICES ASSUME Init PROVE TypeIInv
    OBVIOUS
  <2>1. Typed(gui)
    BY NewTyped DEF Init
  <2>2. <<>> \in Seq(BOOLEAN) /\ Len(<<>>) = 0
    BY EmptySeq
  <2> QED
    BY <2>1, <2>2 DEF Init, TypeIInv, SignalBound
<1>2. TypeIInv /\ [Next]_vars => TypeIInv'
  <2> SUFFICES ASSUME TypeIInv, [Next]_vars PROVE TypeIInv'
    OBVIOUS
  <2>1. CASE UNCHANGED vars
    BY <2>1 DEF TypeIInv, Typed, vars
  <2>2. CASE Handlers
    <3>1. \/ \E reading \in Readings :
               \/ Start(reading) \/ TimerPoll(reading) \/ OtherPoll(reading)
               \/ EndCalibration(reading)
               \/ \E way : CheckIdle(reading, way)
               \/ \E c \in Configs, due \in BOOLEAN : Configure(c, reading, due)
          \/ \/ PollWithoutBattery \/ SelectPowernap \/ RestoreBluetooth \/ PrepareForShutdown
             \/ Calibrate
             \/ \E p \in Picks : UserProfile(p)
             \/ \E way : \E radios \in Radios : UserSleep(way, radios)
             \/ \E radios \in Radios : LidMoves(radios)
          \/ AfterWakeActions \/ \E radios \in Radios : PrepareForSleep(radios)
          \/ Stop \/ Killed \/ Login
      BY <2>2, Zenon DEF Handlers
    <3> QED
      BY <3>1, PollsTyped, SmallHandlersTyped, WakingTyped, LifeTyped
  <2>3. CASE Logind \/ WriteCall
    BY <2>3, SystemTyped
  <2> QED
    BY <2>1, <2>2, <2>3 DEF Next
<1>3. TypeIInv => TypeOK
  BY DEF TypeIInv, Typed, TypeOK, Members
<1> QED
  BY <1>1, <1>2, <1>3, PTL DEF Spec
====
