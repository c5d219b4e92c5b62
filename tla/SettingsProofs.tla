----------------------------- MODULE SettingsProofs -----------------------------
(***************************************************************************)
(* For every file, every machine, every number of minutes that is entered  *)
(* and any number of events: the dialog keeps the timeouts in order, its   *)
(* tests do not outlive it, it changes no setting it is not to, the daemon *)
(* follows the settings, and a client that is started has the settings of  *)
(* the one before.                                                         *)
(***************************************************************************)
EXTENDS Settings, SequenceTheorems, WellFoundedInduction, TLAPS

-----------------------------------------------------------------------------
(* The larger of two, and the spin boxes. *)

LEMMA MaxOfTwo ==
  ASSUME NEW a \in Int, NEW b \in Int
  PROVE  Max({a, b}) = IF a >= b THEN a ELSE b
<1> DEFINE m == IF a >= b THEN a ELSE b
<1>1. m \in {a, b} /\ \A y \in {a, b} : m >= y
  OBVIOUS
<1>2. \A x \in {a, b} : (\A y \in {a, b} : x >= y) => x = m
  OBVIOUS
<1> QED
  BY <1>1, <1>2 DEF Max

\* What the spin boxes of one power source promise.
Ordered(t) ==
  /\ t.reduce \in Int /\ t.sleep \in Int /\ t.idle \in Int
  /\ 1 <= t.reduce /\ t.reduce < t.sleep /\ t.sleep < t.idle
  /\ t.reduce <= ReduceMax /\ t.sleep <= SleepMax /\ t.idle <= IdleMax

\* Loading puts any three numbers in order.
LEMMA ShownOrdered ==
  ASSUME NEW t, t.reduce \in Int, t.sleep \in Int, t.idle \in Int
  PROVE  Ordered(Shown(t))
<1> DEFINE reduce == Clamp(t.reduce, 1, ReduceMax)
           sleep == Max({Clamp(t.sleep, 1, SleepMax), reduce + 1})
           idle == Max({Clamp(t.idle, 1, IdleMax), sleep + 1})
<1>1. reduce \in 1..60
  BY DEF Clamp, ReduceMax
<1>2. sleep \in reduce + 1 .. 180
  <2> DEFINE other == Clamp(t.sleep, 1, SleepMax)
  <2>1. other \in 1..180
    BY DEF Clamp, SleepMax
  <2>2. sleep = Max({other, reduce + 1})
    OBVIOUS
  <2> HIDE DEF reduce, other, sleep
  <2>3. Max({other, reduce + 1}) = IF other >= reduce + 1 THEN other ELSE reduce + 1
    BY <1>1, <2>1, MaxOfTwo
  <2> QED
    BY <1>1, <2>1, <2>2, <2>3
<1>3. idle \in sleep + 1 .. 360
  <2> DEFINE other == Clamp(t.idle, 1, IdleMax)
  <2>1. other \in 1..360
    BY DEF Clamp, IdleMax
  <2>2. idle = Max({other, sleep + 1})
    OBVIOUS
  <2> HIDE DEF reduce, sleep, other, idle
  <2>3. Max({other, sleep + 1}) = IF other >= sleep + 1 THEN other ELSE sleep + 1
    BY <1>1, <1>2, <2>1, MaxOfTwo
  <2> QED
    BY <1>1, <1>2, <2>1, <2>2, <2>3
<1>4. Shown(t) = [reduce |-> reduce, sleep |-> sleep, idle |-> idle]
  BY DEF Shown
<1> HIDE DEF reduce, sleep, idle
<1> QED
  BY <1>1, <1>2, <1>3, <1>4 DEF Ordered, ReduceMax, SleepMax, IdleMax

\* So does every turn of a spin box that it lets one make.
LEMMA ReduceKeepsOrder ==
  ASSUME NEW t, Ordered(t), NEW val \in 1..ReduceMax
  PROVE  Ordered(ReduceChanged(t, val))
BY DEF Ordered, ReduceChanged, ReduceMax, SleepMax, IdleMax

LEMMA SleepKeepsOrder ==
  ASSUME NEW t, Ordered(t), NEW val \in 1..SleepMax
  PROVE  Ordered(SleepChanged(t, val))
<1> DEFINE reduce == IF val <= t.reduce THEN Max({val - 1, 1}) ELSE t.reduce
           sleep == Max({val, reduce + 1})
<1>1. reduce \in 1..60 /\ reduce <= val /\ (reduce = val => val = 1)
  <2>1. Max({val - 1, 1}) = IF val - 1 >= 1 THEN val - 1 ELSE 1
    BY MaxOfTwo DEF SleepMax
  <2> QED
    BY <2>1 DEF Ordered, ReduceMax, SleepMax
<1>2. sleep \in reduce + 1 .. 180
  <2>1. sleep = Max({val, reduce + 1})
    OBVIOUS
  <2> HIDE DEF reduce, sleep
  <2>2. Max({val, reduce + 1}) = IF val >= reduce + 1 THEN val ELSE reduce + 1
    BY <1>1, MaxOfTwo DEF SleepMax
  <2> QED
    BY <1>1, <2>1, <2>2 DEF SleepMax
<1>3. SleepChanged(t, val) =
        [reduce |-> reduce, sleep |-> sleep, idle |-> IF sleep >= t.idle THEN sleep + 1 ELSE t.idle]
  BY DEF SleepChanged
<1> HIDE DEF reduce, sleep
<1> QED
  BY <1>1, <1>2, <1>3 DEF Ordered, ReduceMax, SleepMax, IdleMax

LEMMA IdleKeepsOrder ==
  ASSUME NEW t, t = [reduce |-> t.reduce, sleep |-> t.sleep, idle |-> t.idle],
         Ordered(t), NEW val \in 1..IdleMax
  PROVE  Ordered(IdleChanged(t, val))
<1>1. CASE val > t.sleep
  BY <1>1 DEF Ordered, IdleChanged, IdleMax, SleepMax
<1>2. CASE val <= t.sleep /\ val - 1 > t.reduce
  BY <1>2 DEF Ordered, IdleChanged, IdleMax, SleepMax
<1>3. CASE val <= t.sleep /\ val - 1 <= t.reduce
  <2> DEFINE reduce == Max({val - 2, 1})
  <2>1. reduce \in 1..60
    <3>1. Max({val - 2, 1}) = IF val - 2 >= 1 THEN val - 2 ELSE 1
      BY MaxOfTwo DEF IdleMax
    <3> QED
      BY <1>3, <3>1 DEF Ordered, ReduceMax, SleepMax
  <2>2. IdleChanged(t, val) = [reduce |-> reduce, sleep |-> reduce + 1, idle |-> reduce + 2]
    BY <1>3 DEF Ordered, IdleChanged, IdleMax
  <2> HIDE DEF reduce
  <2> QED
    BY <2>1, <2>2 DEF Ordered, ReduceMax, SleepMax, IdleMax
<1> QED
  BY <1>1, <1>2, <1>3 DEF Ordered, IdleMax
-----------------------------------------------------------------------------
(* The widgets, the settings and the file. *)

\* Settings and widgets as the program makes them.
Complete(c) == DOMAIN c = Keys

\* The widgets of both power sources.
AllOrdered(w) == \A power \in Powers : Ordered(TimeoutsOf(w, power))

\* The timeouts of a record of settings, or those that a file holds, are numbers.
Numeric(c) == \A key \in DOMAIN c \cap Numbers : c[key] \in Int

LEMMA NumbersAreKeys == Numbers \subseteq Keys
<1>1. /\ 1 \in DOMAIN KeyOrder /\ 2 \in DOMAIN KeyOrder /\ 3 \in DOMAIN KeyOrder
      /\ 10 \in DOMAIN KeyOrder /\ 11 \in DOMAIN KeyOrder /\ 12 \in DOMAIN KeyOrder
  BY DEF KeyOrder
<1>2. /\ KeyOrder[1] = "ac_display_sleep_timeout" /\ KeyOrder[2] = "ac_idle_timeout"
      /\ KeyOrder[3] = "ac_backlight_reduce_timeout" /\ KeyOrder[10] = "bat_display_sleep_timeout"
      /\ KeyOrder[11] = "bat_idle_timeout" /\ KeyOrder[12] = "bat_backlight_reduce_timeout"
  BY DEF KeyOrder
<1>3. \A i \in DOMAIN KeyOrder : KeyOrder[i] \in Keys
  BY DEF Keys, Range
<1> QED
  BY <1>1, <1>2, <1>3 DEF Numbers

LEMMA TimeoutsAreNumbers ==
  ASSUME NEW c, Complete(c), Numeric(c), NEW power \in Powers
  PROVE  LET t == TimeoutsOf(c, power) IN t.reduce \in Int /\ t.sleep \in Int /\ t.idle \in Int
<1>1. \A key \in Numbers : c[key] \in Int
  BY NumbersAreKeys DEF Complete, Numeric
<1> QED
  BY <1>1 DEF TimeoutsOf, Numbers, Powers

LEMMA OrderedIsNumeric ==
  ASSUME NEW w, AllOrdered(w)
  PROVE  Numeric(w)
<1>1. Ordered(TimeoutsOf(w, "ac")) /\ Ordered(TimeoutsOf(w, "bat"))
  BY DEF AllOrdered, Powers
<1> QED
  BY <1>1 DEF Ordered, TimeoutsOf, Numeric, Numbers

\* Setting the timeouts of one power source leaves the other's alone.
LEMMA TimeoutsSet ==
  ASSUME NEW w, Complete(w), NEW power \in Powers, NEW t
  PROVE  /\ Complete(WithTimeouts(w, power, t))
         /\ TimeoutsOf(WithTimeouts(w, power, t), power)
              = [reduce |-> t.reduce, sleep |-> t.sleep, idle |-> t.idle]
         /\ \A other \in Powers \ {power} :
              TimeoutsOf(WithTimeouts(w, power, t), other) = TimeoutsOf(w, other)
<1>1. \A key \in Numbers : key \in DOMAIN w
  BY NumbersAreKeys DEF Complete
<1>2. CASE power = "ac"
  BY <1>1, <1>2 DEF WithTimeouts, TimeoutsOf, Powers, Numbers, Complete
<1>3. CASE power = "bat"
  BY <1>1, <1>3 DEF WithTimeouts, TimeoutsOf, Powers, Numbers, Complete
<1> QED
  BY <1>2, <1>3 DEF Powers

LEMMA OneSet ==
  ASSUME NEW w, Complete(w), NEW power \in Powers, NEW t, Ordered(t)
  PROVE  /\ Complete(WithTimeouts(w, power, t))
         /\ Ordered(TimeoutsOf(WithTimeouts(w, power, t), power))
<1>1. Ordered([reduce |-> t.reduce, sleep |-> t.sleep, idle |-> t.idle])
  BY DEF Ordered
<1> DEFINE set == WithTimeouts(w, power, t)
<1>2. /\ Complete(set)
      /\ TimeoutsOf(set, power) = [reduce |-> t.reduce, sleep |-> t.sleep, idle |-> t.idle]
  BY TimeoutsSet
<1> HIDE DEF set
<1> QED
  BY <1>1, <1>2 DEF set

LEMMA SettingKeepsOrder ==
  ASSUME NEW w, Complete(w), AllOrdered(w), NEW power \in Powers, NEW t, Ordered(t)
  PROVE  Complete(WithTimeouts(w, power, t)) /\ AllOrdered(WithTimeouts(w, power, t))
<1>1. Ordered([reduce |-> t.reduce, sleep |-> t.sleep, idle |-> t.idle])
  BY DEF Ordered
<1> DEFINE set == WithTimeouts(w, power, t)
<1>2. /\ Complete(set)
      /\ TimeoutsOf(set, power) = [reduce |-> t.reduce, sleep |-> t.sleep, idle |-> t.idle]
      /\ \A other \in Powers \ {power} : TimeoutsOf(set, other) = TimeoutsOf(w, other)
  BY TimeoutsSet
<1> HIDE DEF set
<1>3. ASSUME NEW other \in Powers
      PROVE  Ordered(TimeoutsOf(set, other))
  <2>1. CASE other = power
    BY <1>1, <1>2, <2>1
  <2>2. CASE other # power
    BY <1>2, <2>2 DEF AllOrdered
  <2> QED
    BY <2>1, <2>2
<1> QED
  BY <1>2, <1>3 DEF AllOrdered, set

\* Whatever numbers the settings hold, the widgets that show them are in order.
LEMMA LoadedOrdered ==
  ASSUME NEW c, Complete(c), Numeric(c), NEW w
  PROVE  Complete(LoadConfigValues(c, w)) /\ AllOrdered(LoadConfigValues(c, w))
<1> DEFINE a == WithTimeouts(c, "ac", Shown(TimeoutsOf(c, "ac")))
           l == LoadTimeouts(c)
<1> DEFINE mains == Shown(TimeoutsOf(c, "ac"))
           battery == Shown(TimeoutsOf(c, "bat"))
<1>1. Ordered(mains) /\ Ordered(battery)
  <2>1. "ac" \in Powers /\ "bat" \in Powers
    BY DEF Powers
  <2>2. \A power \in Powers : Ordered(Shown(TimeoutsOf(c, power)))
    BY TimeoutsAreNumbers, ShownOrdered
  <2> QED
    BY <2>1, <2>2
<1> HIDE DEF mains, battery
<1>2. Complete(a) /\ Ordered(TimeoutsOf(a, "ac"))
  BY <1>1, OneSet DEF mains, Powers
<1>3. /\ Complete(l)
      /\ Ordered(TimeoutsOf(l, "ac"))
      /\ Ordered(TimeoutsOf(l, "bat"))
  <2>1. l = WithTimeouts(a, "bat", battery)
    BY DEF LoadTimeouts, battery
  <2>2. "ac" \in Powers /\ "bat" \in Powers /\ "ac" # "bat"
    BY DEF Powers
  <2> HIDE DEF a, l
  <2>3. Complete(l) /\ Ordered(TimeoutsOf(l, "bat"))
    BY <1>1, <1>2, <2>1, <2>2, OneSet
  <2>4. TimeoutsOf(l, "ac") = TimeoutsOf(a, "ac")
    BY <1>2, <2>1, <2>2, TimeoutsSet
  <2> QED
    BY <1>2, <2>3, <2>4
<1>4. \A key \in Numbers : LoadConfigValues(c, w)[key] = l[key]
  <2>1. \A key \in Numbers : key \in DOMAIN l
    BY <1>3, NumbersAreKeys DEF Complete
  <2> HIDE DEF l
  <2> QED
    BY <2>1 DEF LoadConfigValues, Numbers, l
<1>5. DOMAIN LoadConfigValues(c, w) = Keys
  BY <1>3 DEF LoadConfigValues, Complete
<1>6. \A power \in Powers : TimeoutsOf(LoadConfigValues(c, w), power) = TimeoutsOf(l, power)
  BY <1>4 DEF TimeoutsOf, Powers, Numbers
<1> HIDE DEF l
<1> QED
  BY <1>3, <1>5, <1>6 DEF Complete, AllOrdered, Powers

LEMMA DefaultsNumeric == Complete(Defaults) /\ Numeric(Defaults)
<1>1. Keys = DOMAIN Defaults
  <2>1. DOMAIN KeyOrder = 1..14
    BY DEF KeyOrder
  <2>2. Keys = {KeyOrder[i] : i \in 1..14}
    BY <2>1 DEF Keys, Range
  <2>3. \A i \in 1..14 : KeyOrder[i] \in DOMAIN Defaults
    <3>1. \A i \in 1..14 : i = 1 \/ i = 2 \/ i = 3 \/ i = 4 \/ i = 5 \/ i = 6 \/ i = 7
                           \/ i = 8 \/ i = 9 \/ i = 10 \/ i = 11 \/ i = 12 \/ i = 13 \/ i = 14
      OBVIOUS
    <3> QED
      BY <3>1 DEF KeyOrder, Defaults
  <2>4. \A key \in DOMAIN Defaults : \E i \in 1..14 : KeyOrder[i] = key
    BY DEF KeyOrder, Defaults
  <2> QED
    BY <2>2, <2>3, <2>4
<1>2. Numeric(Defaults)
  BY DEF Numeric, Defaults, Numbers
<1> QED
  BY <1>1, <1>2 DEF Complete

\* Loading a file of numbers gives settings of numbers, and saving gives such a file.
LEMMA LoadNumeric ==
  ASSUME NEW f, DOMAIN f \subseteq Keys, Numeric(f)
  PROVE  Complete(Load(f)) /\ Numeric(Load(f))
<1>1. \A key \in Numbers : Defaults[key] \in Int
  BY DefaultsNumeric, NumbersAreKeys DEF Complete, Numeric
<1>2. \A key \in Numbers : key # "whitelist"
  BY DEF Numbers
<1> QED
  BY <1>1, <1>2, NumbersAreKeys DEF Load, Read, Complete, Numeric

LEMMA SaveNumeric ==
  ASSUME NEW c, Complete(c), Numeric(c)
  PROVE  /\ DOMAIN Save(c) \subseteq Keys /\ Numeric(Save(c))
         /\ \A f \in Torn(c) : DOMAIN f \subseteq Keys /\ Numeric(f)
<1>1. \A key \in Numbers : Stored(key, c[key]) \in Int
  BY NumbersAreKeys DEF Stored, Numeric, Complete, Numbers
<1>2. DOMAIN Save(c) = Keys /\ \A key \in Keys : Save(c)[key] = Stored(key, c[key])
  BY DEF Save
<1>3. ASSUME NEW f \in Torn(c)
      PROVE  DOMAIN f \subseteq Keys /\ \A key \in DOMAIN f : f[key] = Stored(key, c[key])
  <2>1. PICK n \in 0..Len(KeyOrder) - 1 :
          f = [key \in {KeyOrder[i] : i \in 1..n} |-> Stored(key, c[key])]
    BY DEF Torn
  <2>2. Len(KeyOrder) = 14 /\ DOMAIN KeyOrder = 1..14
    BY DEF KeyOrder
  <2>3. \A i \in 1..14 : KeyOrder[i] \in Keys
    BY <2>2 DEF Keys, Range
  <2>4. 1..n \subseteq 1..14
    BY <2>1, <2>2
  <2> QED
    BY <2>1, <2>3, <2>4
<1> QED
  BY <1>1, <1>2, <1>3 DEF Numeric
-----------------------------------------------------------------------------
(* The invariant: the dialog that is open shows timeouts in order, the     *)
(* settings and the file have numbers for them, and what is closed tests   *)
(* nothing.                                                                *)

DialogOK ==
  /\ dialog = [open |-> dialog.open, widgets |-> dialog.widgets, test |-> dialog.test]
  /\ dialog.open => Complete(dialog.widgets) /\ AllOrdered(dialog.widgets)

MemoryOK ==
  /\ Complete(config) /\ Numeric(config)
  /\ DOMAIN file \subseteq Keys /\ Numeric(file)

IInv == DialogOK /\ MemoryOK /\ NoTestOutlivesDialog /\ (dialog.open => client)

LEMMA ClosedOK ==
  ASSUME dialog' = Closed
  PROVE  DialogOK' /\ NoTestOutlivesDialog' /\ ~dialog'.open
BY DEF DialogOK, Closed, NoTestOutlivesDialog

LEMMA MemorySame ==
  ASSUME MemoryOK, UNCHANGED <<config, file>>
  PROVE  MemoryOK'
BY DEF MemoryOK

\* Turning a spin box, clicking, choosing: the dialog stays open with widgets in order.
LEMMA EditsOK ==
  ASSUME IInv, NEW widgets, Edit(widgets),
         dialog.open => Complete(widgets) /\ AllOrdered(widgets)
  PROVE  IInv'
<1>1. dialog' = [dialog EXCEPT !.widgets = widgets] /\ dialog.open /\ client' = client
      /\ UNCHANGED <<config, file>>
  BY DEF Edit
<1>2. /\ dialog'.open = dialog.open /\ dialog'.widgets = widgets
      /\ dialog' = [open |-> dialog'.open, widgets |-> dialog'.widgets, test |-> dialog'.test]
  BY <1>1 DEF IInv, DialogOK
<1>3. MemoryOK'
  BY <1>1, MemorySame DEF IInv
<1> QED
  BY <1>1, <1>2, <1>3 DEF IInv, DialogOK, NoTestOutlivesDialog

\* Widgets that are set without the timeouts.
LEMMA OthersKeepOrder ==
  ASSUME NEW w, Complete(w), AllOrdered(w), NEW v, Complete(v),
         \A key \in Numbers : v[key] = w[key]
  PROVE  AllOrdered(v)
<1>1. \A power \in Powers : TimeoutsOf(v, power) = TimeoutsOf(w, power)
  BY DEF TimeoutsOf, Powers, Numbers
<1> QED
  BY <1>1 DEF AllOrdered

LEMMA EditTimeoutsOK ==
  ASSUME IInv, NEW power \in Powers,
         EditReduce(power) \/ EditSleep(power) \/ EditIdle(power)
  PROVE  IInv'
<1> DEFINE t == TimeoutsOf(dialog.widgets, power)
<1>1. dialog.open /\ Complete(dialog.widgets) /\ AllOrdered(dialog.widgets)
  BY DEF EditReduce, EditSleep, EditIdle, Edit, IInv, DialogOK
<1>2. Ordered(t) /\ t = [reduce |-> t.reduce, sleep |-> t.sleep, idle |-> t.idle]
  BY <1>1 DEF AllOrdered, TimeoutsOf, Powers
<1> HIDE DEF t
<1>3. ASSUME NEW u, Ordered(u), Edit(WithTimeouts(dialog.widgets, power, u))
      PROVE  IInv'
  BY <1>1, <1>3, SettingKeepsOrder, EditsOK
<1>4. CASE EditReduce(power)
  BY <1>2, <1>3, <1>4, ReduceKeepsOrder DEF EditReduce, t
<1>5. CASE EditSleep(power)
  BY <1>2, <1>3, <1>5, SleepKeepsOrder DEF EditSleep, t
<1>6. CASE EditIdle(power)
  BY <1>2, <1>3, <1>6, IdleKeepsOrder DEF EditIdle, t
<1> QED
  BY <1>4, <1>5, <1>6

LEMMA EditOthersOK ==
  ASSUME IInv, EditLimit \/ EditSlider \/ EditOthers \/ EditList
  PROVE  IInv'
<1> DEFINE w == dialog.widgets
<1>1. dialog.open => Complete(w) /\ AllOrdered(w)
  BY DEF IInv, DialogOK
<1> HIDE DEF w
<1>2. ASSUME NEW v, Complete(w) => Complete(v), \A key \in Numbers : v[key] = w[key], Edit(v)
      PROVE  IInv'
  BY <1>1, <1>2, OthersKeepOrder, EditsOK
<1>3. CASE EditLimit
  <2>1. PICK enabled \in BOOLEAN :
          Edit([w EXCEPT !.charge_limit_enabled = enabled, !.charge_limit_value = 80])
    BY <1>3 DEF EditLimit, w
  <2> DEFINE v == [w EXCEPT !.charge_limit_enabled = enabled, !.charge_limit_value = 80]
  <2>2. (Complete(w) => Complete(v)) /\ \A key \in Numbers : v[key] = w[key]
    BY DEF Complete, Numbers
  <2> QED
    BY <1>2, <2>1, <2>2
<1>4. CASE EditSlider
  <2> DEFINE v == [w EXCEPT !.backlight_slider = 1 - @]
  <2>1. Edit(v)
    BY <1>4 DEF EditSlider, w
  <2>2. (Complete(w) => Complete(v)) /\ \A key \in Numbers : v[key] = w[key]
    BY DEF Complete, Numbers
  <2> QED
    BY <1>2, <2>1, <2>2
<1>5. CASE EditOthers
  <2> DEFINE v == [w EXCEPT !.eco_freq_cap = 60]
             u == [w EXCEPT !.close_popup_animation = ~@]
             s(saver) == [w EXCEPT !.ac_screensaver = saver]
  <2>1. Edit(v) \/ Edit(u) \/ \E saver \in Savers : Edit(s(saver))
    BY <1>5 DEF EditOthers, w
  <2>2. (Complete(w) => Complete(v)) /\ \A key \in Numbers : v[key] = w[key]
    BY DEF Complete, Numbers
  <2>3. (Complete(w) => Complete(u)) /\ \A key \in Numbers : u[key] = w[key]
    BY DEF Complete, Numbers
  <2>4. \A saver \in Savers :
          (Complete(w) => Complete(s(saver))) /\ \A key \in Numbers : s(saver)[key] = w[key]
    BY DEF Complete, Numbers
  <2> HIDE DEF v, u, s
  <2> QED
    BY <1>2, <2>1, <2>2, <2>3, <2>4
<1>6. CASE EditList
  <2>1. PICK list \in Lists : Edit([w EXCEPT !.whitelist = list])
    BY <1>6 DEF EditList, w
  <2> DEFINE v == [w EXCEPT !.whitelist = list]
  <2>2. (Complete(w) => Complete(v)) /\ \A key \in Numbers : v[key] = w[key]
    BY DEF Complete, Numbers
  <2> QED
    BY <1>2, <2>1, <2>2
<1> QED
  BY <1>3, <1>4, <1>5, <1>6
\* Accepting, dismissing, leaving: the dialog is gone.
LEMMA ClosingOK ==
  ASSUME IInv, Accept \/ Reject \/ Dismiss \/ Quit \/ CrashInSave
  PROVE  IInv'
<1>1. DialogOK' /\ NoTestOutlivesDialog' /\ ~dialog'.open
  BY ClosedOK DEF Accept, Reject, Dismiss, Quit, CrashInSave, Leave
<1>2. CASE Accept \/ CrashInSave
  <2> DEFINE c == SaveConfigValues(config, dialog.widgets)
  <2>1. Complete(dialog.widgets) /\ AllOrdered(dialog.widgets)
    BY <1>2 DEF Accept, CrashInSave, IInv, DialogOK
  <2>2. Complete(c)
    BY <2>1 DEF SaveConfigValues, Complete
  <2>3. \A key \in Numbers : c[key] = dialog.widgets[key]
    BY <2>1, NumbersAreKeys DEF SaveConfigValues, Complete, Numbers
  <2>4. Numeric(c)
    BY <2>1, <2>2, <2>3, OthersKeepOrder, OrderedIsNumeric
  <2> HIDE DEF c
  <2>5. CASE Accept
    <3>1. config' = c /\ file' = Save(c)
      BY <2>5 DEF Accept, c
    <3> QED
      BY <1>1, <2>2, <2>4, <3>1, SaveNumeric DEF IInv, MemoryOK
  <2>6. CASE CrashInSave
    <3>1. config' = config /\ file' \in Torn(c)
      BY <2>6 DEF CrashInSave, c
    <3>2. DOMAIN file' \subseteq Keys /\ Numeric(file')
      BY <2>2, <2>4, <3>1, SaveNumeric
    <3> QED
      BY <1>1, <3>1, <3>2 DEF IInv, MemoryOK
  <2> QED
    BY <1>2, <2>5, <2>6
<1>3. CASE Reject \/ Dismiss \/ Quit
  <2>1. MemoryOK'
    BY <1>3, MemorySame DEF Reject, Dismiss, Quit, IInv
  <2> QED
    BY <1>1, <2>1 DEF IInv
<1> QED
  BY <1>2, <1>3

\* The tests change nothing of the dialog but the tests, and run while it is open.
LEMMA TestsOK ==
  ASSUME IInv,
         \/ TestTransition \/ TestTransitionComplete \/ TestTransitionTimeout
         \/ TestScreensaver \/ TestScreensaverTimeout \/ TestScreensaverFinished \/ Restore
  PROVE  IInv'
<1>1. dialog.open /\ client' = client /\ UNCHANGED <<config, file>>
  BY DEF TestTransition, TestTransitionComplete, TestTransitionTimeout, TestScreensaver,
         TestScreensaverTimeout, TestScreensaverFinished, Restore, Testing, OnlyDialog
<1>2. PICK test : dialog' = [dialog EXCEPT !.test = test]
  <2>1. CASE TestTransition
    BY <2>1 DEF TestTransition
  <2>2. CASE TestTransitionComplete
    BY <2>2 DEF TestTransitionComplete
  <2>3. CASE TestTransitionTimeout
    BY <2>3 DEF TestTransitionTimeout
  <2>4. CASE TestScreensaver
    BY <2>4 DEF TestScreensaver
  <2>5. CASE TestScreensaverTimeout \/ TestScreensaverFinished
    BY <2>5 DEF TestScreensaverTimeout, TestScreensaverFinished, SaverEnds
  <2>6. CASE Restore
    BY <2>6 DEF Restore
  <2> QED
    BY <2>1, <2>2, <2>3, <2>4, <2>5, <2>6
<1>3. /\ dialog'.open = dialog.open /\ dialog'.widgets = dialog.widgets
      /\ dialog' = [open |-> dialog'.open, widgets |-> dialog'.widgets, test |-> dialog'.test]
  BY <1>2 DEF IInv, DialogOK
<1>4. MemoryOK'
  BY <1>1, MemorySame DEF IInv
<1> QED
  BY <1>1, <1>3, <1>4 DEF IInv, DialogOK, NoTestOutlivesDialog

LEMMA OthersOK ==
  ASSUME IInv,
         \/ TrayClick \/ OpenConfig \/ ResetDefaults \/ Calibrated \/ StartClient \/ DaemonMoves
  PROVE  IInv'
<1>1. CASE TrayClick \/ DaemonMoves
  BY <1>1, MemorySame DEF TrayClick, DaemonMoves, IInv, DialogOK, NoTestOutlivesDialog
<1>2. CASE OpenConfig
  <2> DEFINE widgets == LoadConfigValues(config, NewWidgets)
  <2>1. Complete(widgets) /\ AllOrdered(widgets)
    BY LoadedOrdered DEF IInv, MemoryOK
  <2> HIDE DEF widgets
  <2>2. dialog' = [open |-> TRUE, widgets |-> widgets, test |-> NoTest]
    BY <1>2 DEF OpenConfig, Closed, widgets
  <2>3. client' = client /\ client /\ UNCHANGED <<config, file>>
    BY <1>2 DEF OpenConfig
  <2> QED
    BY <2>1, <2>2, <2>3, MemorySame DEF IInv, DialogOK, NoTestOutlivesDialog
<1>3. CASE ResetDefaults
  <2> DEFINE widgets == LoadConfigValues(Defaults, dialog.widgets)
  <2>1. Complete(widgets) /\ AllOrdered(widgets)
    BY LoadedOrdered, DefaultsNumeric
  <2>2. dialog' = [dialog EXCEPT !.widgets = widgets]
    BY <1>3 DEF ResetDefaults
  <2>3. client' = client /\ config' = Defaults /\ file' = file /\ dialog.open
    BY <1>3 DEF ResetDefaults
  <2> HIDE DEF widgets
  <2>4. /\ dialog'.open = dialog.open /\ dialog'.widgets = widgets
        /\ dialog' = [open |-> dialog'.open, widgets |-> dialog'.widgets, test |-> dialog'.test]
    BY <2>2 DEF IInv, DialogOK
  <2>5. MemoryOK'
    BY <2>3, DefaultsNumeric DEF IInv, MemoryOK
  <2> QED
    BY <2>1, <2>3, <2>4, <2>5 DEF IInv, DialogOK, NoTestOutlivesDialog
<1>4. CASE Calibrated
  <2> DEFINE c == [config EXCEPT !.last_calibration = 1]
  <2>1. Complete(c) /\ Numeric(c)
    BY DEF IInv, MemoryOK, Complete, Numeric, Numbers
  <2>2. config' = c /\ file' = Save(c) /\ UNCHANGED <<dialog, client>>
    BY <1>4 DEF Calibrated
  <2> HIDE DEF c
  <2>3. MemoryOK'
    BY <2>1, <2>2, SaveNumeric DEF MemoryOK
  <2> QED
    BY <2>2, <2>3 DEF IInv, DialogOK, NoTestOutlivesDialog
<1>5. CASE StartClient
  <2>1. config' = Load(file) /\ UNCHANGED <<file, dialog>> /\ client' = TRUE
    BY <1>5 DEF StartClient
  <2>2. MemoryOK'
    BY <2>1, LoadNumeric DEF IInv, MemoryOK
  <2> QED
    BY <2>1, <2>2 DEF IInv, DialogOK, NoTestOutlivesDialog
<1> QED
  BY <1>1, <1>2, <1>3, <1>4, <1>5

LEMMA InitOK == Init => IInv
<1> SUFFICES ASSUME Init PROVE IInv
  OBVIOUS
<1>1. DOMAIN file \subseteq Keys /\ Numeric(file)
  BY SettingsAssumption DEF Init, Numeric
<1>2. MemoryOK
  BY <1>1, LoadNumeric DEF Init, MemoryOK
<1>3. DialogOK /\ NoTestOutlivesDialog /\ ~dialog.open
  BY DEF Init, Closed, DialogOK, NoTestOutlivesDialog
<1> QED
  BY <1>2, <1>3 DEF IInv

LEMMA StepOK == IInv /\ [Next]_vars => IInv'
<1> SUFFICES ASSUME IInv, [Next]_vars PROVE IInv'
  OBVIOUS
<1>1. CASE \E power \in Powers : EditReduce(power) \/ EditSleep(power) \/ EditIdle(power)
  BY <1>1, EditTimeoutsOK
<1>2. CASE EditLimit \/ EditSlider \/ EditOthers \/ EditList
  BY <1>2, EditOthersOK
<1>3. CASE Accept \/ Reject \/ Dismiss \/ Quit \/ CrashInSave
  BY <1>3, ClosingOK
<1>4. CASE \/ TestTransition \/ TestTransitionComplete \/ TestTransitionTimeout
           \/ TestScreensaver \/ TestScreensaverTimeout \/ TestScreensaverFinished \/ Restore
  BY <1>4, TestsOK
<1>5. CASE TrayClick \/ OpenConfig \/ ResetDefaults \/ Calibrated \/ StartClient \/ DaemonMoves
  BY <1>5, OthersOK
<1>6. CASE UNCHANGED vars
  BY <1>6, MemorySame DEF vars, IInv, DialogOK, NoTestOutlivesDialog
<1> QED
  BY <1>1, <1>2, <1>3, <1>4, <1>5, <1>6 DEF Next

LEMMA Invariance == Spec => []IInv
BY InitOK, StepOK, PTL DEF Spec

-----------------------------------------------------------------------------
\* Whatever numbers the file holds and whatever the user enters, and after any number of
\* resets, calibrations, sleeps and crashes: an open dialog has dimming before switching
\* off before sleep, each within the range of its spin box.
THEOREM SettingsTimeoutsOrdered == Spec => []TimeoutsOrdered
<1>1. IInv => TimeoutsOrdered
  BY DEF IInv, DialogOK, AllOrdered, Ordered, TimeoutsOrdered
<1> QED
  BY <1>1, Invariance, PTL

\* No effect or screensaver that the dialog shows for trial is left without the dialog,
\* however the dialog ends.
THEOREM SettingsNoTestOutlivesDialog == Spec => []NoTestOutlivesDialog
<1>1. IInv => NoTestOutlivesDialog
  BY DEF IInv
<1> QED
  BY <1>1, Invariance, PTL

-----------------------------------------------------------------------------
(* The daemon: what it was told is what the settings say. *)

FollowInv ==
  /\ DOMAIN history = {"untouched", "unsaved", "torn", "told"}
  /\ DOMAIN daemon = {"up", "eco", "limit"}
  /\ DaemonFollows

\* A daemon that is up and told has the settings it was told of.
LEMMA ToldFollows ==
  ASSUME FollowInv, daemon' = Told(config'), machine' = machine,
         history'.told = daemon.up, DOMAIN history' = DOMAIN history
  PROVE  FollowInv'
<1>1. CASE daemon.up
  BY <1>1 DEF Told, FollowInv, DaemonFollows
<1>2. CASE ~daemon.up
  BY <1>2 DEF Told, FollowInv, DaemonFollows
<1> QED
  BY <1>1, <1>2

LEMMA FollowStep == FollowInv /\ [Next]_vars => FollowInv'
<1> SUFFICES ASSUME FollowInv, [Next]_vars PROVE FollowInv'
  OBVIOUS
<1>1. CASE Accept \/ StartClient
  <2>1. daemon' = Told(config') /\ machine' = machine
    BY <1>1 DEF Accept, StartClient
  <2>2. history'.told = daemon.up /\ DOMAIN history' = DOMAIN history
    BY <1>1 DEF Accept, StartClient, FollowInv
  <2> QED
    BY <2>1, <2>2, ToldFollows
<1>2. CASE ResetDefaults \/ DaemonMoves
  <2>1. ~history'.told /\ DOMAIN history' = DOMAIN history /\ DOMAIN daemon' = DOMAIN daemon
    BY <1>2 DEF ResetDefaults, DaemonMoves, FollowInv
  <2> QED
    BY <2>1 DEF FollowInv, DaemonFollows
<1>3. CASE Calibrated
  <2>1. /\ \A key \in {"eco_freq_cap", "charge_limit_enabled", "charge_limit_value"} :
             config'[key] = config[key]
        /\ UNCHANGED <<machine, client, daemon>>
        /\ history'.told = history.told /\ DOMAIN history' = DOMAIN history
    BY <1>3 DEF Calibrated, FollowInv
  <2> QED
    BY <2>1 DEF FollowInv, DaemonFollows
<1>4. CASE Quit \/ CrashInSave
  <2>1. ~client' /\ DOMAIN history' = DOMAIN history /\ daemon' = daemon
    BY <1>4 DEF Quit, CrashInSave, Leave, FollowInv
  <2> QED
    BY <2>1 DEF FollowInv, DaemonFollows
<1>5. ASSUME UNCHANGED <<machine, config, client, daemon>>,
             history'.told = history.told, DOMAIN history' = DOMAIN history
      PROVE  FollowInv'
  BY <1>5 DEF FollowInv, DaemonFollows
<1>6. ASSUME NEW widgets, Edit(widgets)
      PROVE  FollowInv'
  BY <1>5, <1>6 DEF Edit, FollowInv
<1>7. CASE \/ \E power \in Powers : EditReduce(power) \/ EditSleep(power) \/ EditIdle(power)
           \/ EditLimit \/ EditSlider \/ EditOthers \/ EditList
  BY <1>6, <1>7 DEF EditReduce, EditSleep, EditIdle, EditLimit, EditSlider, EditOthers, EditList
<1>8. CASE \/ TestTransition \/ TestTransitionComplete \/ TestTransitionTimeout
           \/ TestScreensaver \/ TestScreensaverTimeout \/ TestScreensaverFinished \/ Restore
  BY <1>5, <1>8 DEF TestTransition, TestTransitionComplete, TestTransitionTimeout, TestScreensaver,
                    TestScreensaverTimeout, TestScreensaverFinished, Restore, Testing, OnlyDialog
<1>9. CASE TrayClick \/ OpenConfig \/ Reject \/ Dismiss \/ UNCHANGED vars
  BY <1>5, <1>9 DEF TrayClick, OpenConfig, Reject, Dismiss, vars, FollowInv
<1> QED
  BY <1>1, <1>2, <1>3, <1>4, <1>7, <1>8, <1>9 DEF Next

\* However clients and daemons start and end around it: while both are up and nothing has
\* been reset or restarted since the settings were last sent, the daemon has them.
THEOREM SettingsDaemonFollows == Spec => []DaemonFollows
<1>1. Init => FollowInv
  BY DEF Init, FollowInv, DaemonFollows
<1>2. FollowInv => DaemonFollows
  BY DEF FollowInv
<1> QED
  BY <1>1, <1>2, FollowStep, PTL DEF Spec
-----------------------------------------------------------------------------
(* The widgets of a dialog that nobody has touched show what is in memory, *)
(* apart from what loading overwrites.                                     *)

OverwrittenOf(c) ==
  {"close_popup_animation"}
  \cup (IF machine.backlight THEN {} ELSE {"backlight_slider"})
  \cup (IF machine.threshold /\ c.charge_limit_value \in 60..100 THEN {}
        ELSE {"charge_limit_enabled", "charge_limit_value"})
  \cup (IF c.eco_freq_cap \in 20..80 THEN {} ELSE {"eco_freq_cap"})
  \cup (IF c.ac_screensaver \in Savers THEN {} ELSE {"ac_screensaver"})
  \cup (IF Shown(TimeoutsOf(c, "ac")) = TimeoutsOf(c, "ac") THEN {}
        ELSE {"ac_display_sleep_timeout", "ac_idle_timeout", "ac_backlight_reduce_timeout"})
  \cup (IF Shown(TimeoutsOf(c, "bat")) = TimeoutsOf(c, "bat") THEN {}
        ELSE {"bat_display_sleep_timeout", "bat_idle_timeout", "bat_backlight_reduce_timeout"})

\* What v says of the settings c, as far as it is to say anything.
Agrees(v, c) ==
  \A key \in Keys \ (OverwrittenOf(c) \cup {"last_calibration"}) : v[key] = c[key]

Shows == dialog.open /\ history.untouched => Agrees(dialog.widgets, config)

\* Loading changes the timeouts of a power source only where they are not as they should be.
LEMMA TimeoutsLoaded ==
  ASSUME NEW c, Complete(c)
  PROVE  /\ \A key \in Keys \ Numbers : LoadTimeouts(c)[key] = c[key]
         /\ Shown(TimeoutsOf(c, "ac")) = TimeoutsOf(c, "ac") =>
              \A key \in {"ac_display_sleep_timeout", "ac_idle_timeout",
                          "ac_backlight_reduce_timeout"} : LoadTimeouts(c)[key] = c[key]
         /\ Shown(TimeoutsOf(c, "bat")) = TimeoutsOf(c, "bat") =>
              \A key \in {"bat_display_sleep_timeout", "bat_idle_timeout",
                          "bat_backlight_reduce_timeout"} : LoadTimeouts(c)[key] = c[key]
         /\ Complete(LoadTimeouts(c))
<1> DEFINE mains == Shown(TimeoutsOf(c, "ac"))
           battery == Shown(TimeoutsOf(c, "bat"))
           a == [c EXCEPT !.ac_backlight_reduce_timeout = mains.reduce,
                          !.ac_display_sleep_timeout = mains.sleep, !.ac_idle_timeout = mains.idle]
           b == [a EXCEPT !.bat_backlight_reduce_timeout = battery.reduce,
                          !.bat_display_sleep_timeout = battery.sleep,
                          !.bat_idle_timeout = battery.idle]
<1>1. LoadTimeouts(c) = b
  BY DEF LoadTimeouts, WithTimeouts
<1>2. mains = TimeoutsOf(c, "ac") =>
        /\ mains.reduce = c.ac_backlight_reduce_timeout /\ mains.sleep = c.ac_display_sleep_timeout
        /\ mains.idle = c.ac_idle_timeout
  BY DEF TimeoutsOf
<1>3. battery = TimeoutsOf(c, "bat") =>
        /\ battery.reduce = c.bat_backlight_reduce_timeout
        /\ battery.sleep = c.bat_display_sleep_timeout
        /\ battery.idle = c.bat_idle_timeout
  BY DEF TimeoutsOf
<1> HIDE DEF mains, battery
<1>4. Numbers \subseteq DOMAIN c
  BY NumbersAreKeys DEF Complete
<1> HIDE DEF a, b
<1>5. /\ DOMAIN a = DOMAIN c
      /\ \A key \in DOMAIN c \ {"ac_backlight_reduce_timeout", "ac_display_sleep_timeout",
                               "ac_idle_timeout"} : a[key] = c[key]
      /\ a["ac_backlight_reduce_timeout"] = mains.reduce
      /\ a["ac_display_sleep_timeout"] = mains.sleep /\ a["ac_idle_timeout"] = mains.idle
  BY <1>4 DEF a, Numbers
<1>6. /\ DOMAIN b = DOMAIN c
      /\ \A key \in DOMAIN c \ {"bat_backlight_reduce_timeout", "bat_display_sleep_timeout",
                               "bat_idle_timeout"} : b[key] = a[key]
      /\ b["bat_backlight_reduce_timeout"] = battery.reduce
      /\ b["bat_display_sleep_timeout"] = battery.sleep
      /\ b["bat_idle_timeout"] = battery.idle
  BY <1>4, <1>5 DEF b, Numbers
<1>7. \A key \in Keys \ Numbers : b[key] = c[key]
  BY <1>5, <1>6 DEF Complete, Numbers
<1>8. mains = TimeoutsOf(c, "ac") =>
        \A key \in {"ac_display_sleep_timeout", "ac_idle_timeout",
                    "ac_backlight_reduce_timeout"} : b[key] = c[key]
  BY <1>2, <1>4, <1>5, <1>6 DEF Numbers
<1>9. battery = TimeoutsOf(c, "bat") =>
        \A key \in {"bat_display_sleep_timeout", "bat_idle_timeout",
                    "bat_backlight_reduce_timeout"} : b[key] = c[key]
  BY <1>3, <1>6
<1> QED
  BY <1>1, <1>6, <1>7, <1>8, <1>9 DEF Complete, mains, battery

LEMMA LoadAgrees ==
  ASSUME NEW c, Complete(c), NEW w
  PROVE  Agrees(LoadConfigValues(c, w), c)
<1> DEFINE l == LoadTimeouts(c)
           v == LoadConfigValues(c, w)
<1> SUFFICES ASSUME NEW key \in Keys, key \notin OverwrittenOf(c)
             PROVE  v[key] = c[key]
  BY DEF Agrees
<1>1. Complete(l)
  BY TimeoutsLoaded
<1>2. l[key] = c[key]
  <2>1. key \in Numbers =>
          \/ /\ key \in {"ac_display_sleep_timeout", "ac_idle_timeout",
                         "ac_backlight_reduce_timeout"}
             /\ Shown(TimeoutsOf(c, "ac")) = TimeoutsOf(c, "ac")
          \/ /\ key \in {"bat_display_sleep_timeout", "bat_idle_timeout",
                         "bat_backlight_reduce_timeout"}
             /\ Shown(TimeoutsOf(c, "bat")) = TimeoutsOf(c, "bat")
    BY DEF Numbers, OverwrittenOf
  <2> QED
    BY <2>1, TimeoutsLoaded
<1> HIDE DEF l
<1>3. key \notin {"backlight_slider", "charge_limit_enabled", "charge_limit_value", "eco_freq_cap",
                 "ac_screensaver", "close_popup_animation"} => v[key] = l[key]
  BY <1>1 DEF LoadConfigValues, Complete, l
<1>4. /\ key # "close_popup_animation"
      /\ key = "backlight_slider" => machine.backlight
      /\ key \in {"charge_limit_enabled", "charge_limit_value"} =>
           machine.threshold /\ c.charge_limit_value \in 60..100
      /\ key = "eco_freq_cap" => c.eco_freq_cap \in 20..80
      /\ key = "ac_screensaver" => c.ac_screensaver \in Savers
  BY DEF OverwrittenOf
<1>5. key = "backlight_slider" => v[key] = l[key]
  BY <1>1, <1>4 DEF LoadConfigValues, Complete, l
<1>6. key = "charge_limit_enabled" => v[key] = l[key]
  BY <1>1, <1>4 DEF LoadConfigValues, Complete, l
<1>7. key = "charge_limit_value" => v[key] = l[key]
  <2>1. key = "charge_limit_value" => v[key] = Clamp(l.charge_limit_value, 60, 100)
    BY <1>1, <1>4 DEF LoadConfigValues, Complete, l
  <2> QED
    BY <1>2, <1>4, <2>1 DEF Clamp
<1>8. key = "eco_freq_cap" => v[key] = l[key]
  <2>1. key = "eco_freq_cap" => v[key] = Clamp(l.eco_freq_cap, 20, 80)
    BY <1>1, <1>4 DEF LoadConfigValues, Complete, l
  <2> QED
    BY <1>2, <1>4, <2>1 DEF Clamp
<1>9. key = "ac_screensaver" => v[key] = l[key]
  <2>1. key = "ac_screensaver" => v[key] = Listed(l.ac_screensaver)
    BY <1>1, <1>4 DEF LoadConfigValues, Complete, l
  <2> QED
    BY <1>2, <1>4, <2>1 DEF Listed
<1> HIDE DEF v
<1> QED
  BY <1>2, <1>3, <1>4, <1>5, <1>6, <1>7, <1>8, <1>9

LEMMA ShowsStep == IInv /\ FollowInv /\ Shows /\ [Next]_vars => Shows'
<1> SUFFICES ASSUME IInv, FollowInv, Shows, [Next]_vars PROVE Shows'
  OBVIOUS
<1>1. ASSUME UNCHANGED <<machine, config>>, dialog'.open => dialog.open,
             dialog'.open => dialog'.widgets = dialog.widgets,
             history'.untouched => history.untouched
      PROVE  Shows'
  BY <1>1 DEF Shows, Agrees, OverwrittenOf
<1>2. ASSUME ~dialog'.open \/ ~history'.untouched
      PROVE  Shows'
  BY <1>2 DEF Shows
<1>3. CASE OpenConfig
  <2>1. dialog'.widgets = LoadConfigValues(config, NewWidgets) /\ UNCHANGED <<machine, config>>
    BY <1>3 DEF OpenConfig, Closed
  <2>2. Agrees(LoadConfigValues(config, NewWidgets), config)
    BY LoadAgrees DEF IInv, MemoryOK
  <2> QED
    BY <2>1, <2>2 DEF Shows, Agrees, OverwrittenOf
<1>4. CASE ResetDefaults
  <2>1. dialog'.widgets = LoadConfigValues(Defaults, dialog.widgets)
        /\ config' = Defaults /\ machine' = machine
    BY <1>4 DEF ResetDefaults, IInv, DialogOK
  <2>2. Agrees(LoadConfigValues(Defaults, dialog.widgets), Defaults)
    BY LoadAgrees, DefaultsNumeric
  <2> QED
    BY <2>1, <2>2 DEF Shows, Agrees, OverwrittenOf
<1>5. CASE Calibrated
  <2>1. /\ config' = [config EXCEPT !.last_calibration = 1]
        /\ UNCHANGED <<machine, dialog>> /\ history'.untouched = history.untouched
    BY <1>5 DEF Calibrated, FollowInv
  <2>2. \A key \in Keys \ {"last_calibration"} : config'[key] = config[key]
    BY <2>1 DEF IInv, MemoryOK, Complete
  <2>3. /\ config'.charge_limit_value = config.charge_limit_value
        /\ config'.eco_freq_cap = config.eco_freq_cap
        /\ config'.ac_screensaver = config.ac_screensaver
        /\ TimeoutsOf(config', "ac") = TimeoutsOf(config, "ac")
        /\ TimeoutsOf(config', "bat") = TimeoutsOf(config, "bat")
    BY <2>1 DEF TimeoutsOf
  <2>4. OverwrittenOf(config)' = OverwrittenOf(config)
    BY <2>1, <2>3 DEF OverwrittenOf
  <2> QED
    BY <2>1, <2>2, <2>4 DEF Shows, Agrees
<1>6. CASE Accept \/ Reject \/ Dismiss \/ Quit \/ CrashInSave
  <2>1. ~dialog'.open
    BY <1>6 DEF Accept, Reject, Dismiss, Quit, CrashInSave, Leave, Closed
  <2> QED
    BY <1>2, <2>1
<1>7. CASE StartClient
  <2>1. dialog' = dialog /\ ~client
    BY <1>7 DEF StartClient
  <2> QED
    BY <1>2, <2>1 DEF IInv
<1>8. ASSUME NEW widgets, Edit(widgets)
      PROVE  Shows'
  BY <1>2, <1>8 DEF Edit, FollowInv
<1>9. CASE \/ \E power \in Powers : EditReduce(power) \/ EditSleep(power) \/ EditIdle(power)
           \/ EditLimit \/ EditSlider \/ EditOthers \/ EditList
  BY <1>8, <1>9 DEF EditReduce, EditSleep, EditIdle, EditLimit, EditSlider, EditOthers, EditList
<1>10. CASE \/ TestTransition \/ TestTransitionComplete \/ TestTransitionTimeout
            \/ TestScreensaver \/ TestScreensaverTimeout \/ TestScreensaverFinished \/ Restore
  <2>1. UNCHANGED <<machine, config, history>>
    BY <1>10 DEF TestTransition, TestTransitionComplete, TestTransitionTimeout, TestScreensaver,
                 TestScreensaverTimeout, TestScreensaverFinished, Restore, Testing, OnlyDialog
  <2>2. dialog'.open = dialog.open /\ dialog'.widgets = dialog.widgets
    BY <1>10 DEF TestTransition, TestTransitionComplete, TestTransitionTimeout, TestScreensaver,
                 TestScreensaverTimeout, TestScreensaverFinished, SaverEnds, Restore, IInv, DialogOK
  <2> QED
    BY <1>1, <2>1, <2>2
<1>11. CASE TrayClick \/ DaemonMoves \/ UNCHANGED vars
  BY <1>1, <1>11 DEF TrayClick, DaemonMoves, vars, FollowInv
<1> QED
  BY <1>3, <1>4, <1>5, <1>6, <1>7, <1>9, <1>10, <1>11 DEF Next

\* Whatever the file holds, whatever the machine has and whatever happened before: OK in a
\* dialog that nobody has touched changes no setting but those that loading overwrites.
THEOREM SettingsOkKeeps == Spec => OkKeepsSettings
<1> DEFINE Kept == Accept /\ history.untouched =>
                     \A key \in Keys \ Overwritten : config'[key] = config[key]
<1>1. Init => FollowInv /\ Shows
  BY DEF Init, FollowInv, DaemonFollows, Shows, Closed
<1>2. IInv /\ Shows => Kept
  <2> SUFFICES ASSUME IInv, Shows, Accept, history.untouched,
                      NEW key \in Keys \ Overwritten
               PROVE  config'[key] = config[key]
    OBVIOUS
  <2>1. /\ dialog.open
        /\ config' = [dialog.widgets EXCEPT !.last_calibration = config.last_calibration]
    BY DEF Accept, SaveConfigValues
  <2>2. Overwritten = OverwrittenOf(config)
    BY DEF Overwritten, OverwrittenOf
  <2>3. Complete(dialog.widgets) /\ Agrees(dialog.widgets, config)
    BY <2>1 DEF IInv, DialogOK, Shows
  <2>4. CASE key = "last_calibration"
    BY <2>1, <2>3, <2>4 DEF Complete
  <2>5. CASE key # "last_calibration"
    BY <2>1, <2>2, <2>3, <2>5 DEF Complete, Agrees
  <2> QED
    BY <2>4, <2>5
<1>3. IInv /\ Shows => [Kept]_vars
  BY <1>2
<1> QED
  BY <1>1, <1>3, FollowStep, ShowsStep, Invariance, PTL DEF Spec, OkKeepsSettings

-----------------------------------------------------------------------------
(* Induction on the numbers: a set that has 0, and with each number the     *)
(* next, has them all, for otherwise the least that it has not ...         *)

LEMMA LeastElement ==
  ASSUME NEW T \in SUBSET Nat, T # {}
  PROVE  \E m \in T : \A y \in T : m <= y
<1>1. IsWellFoundedOn(OpToRel(<, Nat), Nat)
  BY NatLessThanWellFounded
<1>2. PICK m \in T : \A y \in T : ~ (<<y, m>> \in OpToRel(<, Nat))
  BY <1>1, WFMin
<1>3. \A y \in T : ~ (y < m)
  BY <1>2 DEF OpToRel
<1> QED BY <1>3

LEMMA SetInduction ==
  ASSUME NEW T, 0 \in T, \A n \in Nat : n \in T => n + 1 \in T
  PROVE  \A n \in Nat : n \in T
<1> DEFINE Others == {n \in Nat : n \notin T}
<1>1. SUFFICES ASSUME Others # {}
               PROVE  FALSE
  OBVIOUS
<1>2. PICK m \in Others : \A y \in Others : m <= y
  <2>1. Others \in SUBSET Nat
    OBVIOUS
  <2> HIDE DEF Others
  <2> QED
    BY <1>1, <2>1, LeastElement
<1>3. m # 0 /\ m - 1 \in Nat
  OBVIOUS
<1>4. m - 1 \in T
  BY <1>2, <1>3
<1> QED
  BY <1>3, <1>4

-----------------------------------------------------------------------------
(* FlattenSeq: it is defined by recursion, and what it gives is shown by   *)
(* induction on the number of sequences.                                   *)

\* f holds what the first n sequences are together, for every n.
Flattens(f, seqs, n) ==
  f = [i \in 1..n |-> IF i = 1 THEN seqs[i] ELSE f[i - 1] \o seqs[i]]

Extended(f, seqs, i) == IF i = 1 THEN seqs[i] ELSE f[i - 1] \o seqs[i]

LEMMA FlattensAt ==
  ASSUME NEW f, NEW seqs, NEW n, Flattens(f, seqs, n), NEW i \in 1..n
  PROVE  f[i] = Extended(f, seqs, i)
<1>1. [j \in 1..n |-> Extended(f, seqs, j)][i] = Extended(f, seqs, i)
  OBVIOUS
<1>2. f = [j \in 1..n |-> Extended(f, seqs, j)]
  BY DEF Flattens, Extended
<1> QED
  BY <1>1, <1>2, Zenon

LEMMA Flattened ==
  ASSUME NEW S, NEW seqs \in Seq(Seq(S)), seqs # <<>>
  PROVE  \E f : Flattens(f, seqs, Len(seqs)) /\ FlattenSeq(seqs) = f[Len(seqs)]
<1> DEFINE T == {n \in Nat : \E f : Flattens(f, seqs, n)}
<1>1. 0 \in T
  <2>1. Flattens([i \in 1..0 |-> 0], seqs, 0)
    BY DEF Flattens
  <2> QED
    BY <2>1
<1>2. ASSUME NEW n \in Nat, n \in T
      PROVE  n + 1 \in T
  <2>1. PICK f : Flattens(f, seqs, n)
    BY <1>2
  <2> DEFINE g == [i \in 1..n + 1 |-> IF i <= n THEN f[i] ELSE Extended(f, seqs, i)]
  <2>2. \A i \in 1..n : f[i] = Extended(f, seqs, i)
    BY <2>1, FlattensAt
  <2>3. DOMAIN g = 1..n + 1 /\ g = [i \in 1..n + 1 |-> g[i]]
    OBVIOUS
  <2>4. /\ \A i \in 1..n : g[i] = f[i]
        /\ \A i \in 1..n + 1 : g[i] = Extended(f, seqs, i)
    BY <2>2
  <2> HIDE DEF g
  <2>5. ASSUME NEW i \in 1..n + 1
        PROVE  g[i] = Extended(g, seqs, i)
    <3>1. CASE i = 1
      BY <2>4, <3>1 DEF Extended
    <3>2. CASE i # 1
      <4>1. i - 1 \in 1..n
        BY <3>2
      <4>2. g[i - 1] = f[i - 1]
        BY <2>4, <4>1
      <4>3. g[i] = Extended(f, seqs, i)
        BY <2>4
      <4> QED
        BY <3>2, <4>2, <4>3 DEF Extended
    <3> QED
      BY <3>1, <3>2
  <2>6. Flattens(g, seqs, n + 1)
    BY <2>3, <2>5 DEF Flattens, Extended
  <2> QED
    BY <2>6
<1>3. Len(seqs) \in Nat /\ Len(seqs) # 0
  OBVIOUS
<1>4. Len(seqs) \in T
  <2> HIDE DEF T
  <2> QED
    BY <1>1, <1>2, <1>3, SetInduction
<1> DEFINE F == CHOOSE f : Flattens(f, seqs, Len(seqs))
<1>5. Flattens(F, seqs, Len(seqs))
  <2>1. \E f : Flattens(f, seqs, Len(seqs))
    BY <1>4
  <2> QED
    BY <2>1
<1>6. FlattenSeq(seqs) = F[Len(seqs)]
  BY <1>3 DEF FlattenSeq, Flattens
<1> QED
  BY <1>5, <1>6

LEMMA FlattenType ==
  ASSUME NEW S, NEW seqs \in Seq(Seq(S))
  PROVE  FlattenSeq(seqs) \in Seq(S)
<1>1. CASE seqs = <<>>
  BY <1>1 DEF FlattenSeq
<1>2. CASE seqs # <<>>
  <2>1. PICK f : Flattens(f, seqs, Len(seqs)) /\ FlattenSeq(seqs) = f[Len(seqs)]
    BY <1>2, Flattened
  <2>2. \A i \in 1..Len(seqs) : seqs[i] \in Seq(S)
    BY ElementOfSeq
  <2>3. /\ Len(seqs) \in Nat \ {0}
        /\ \A i \in 1..Len(seqs) : f[i] = Extended(f, seqs, i)
    BY <1>2, <2>1, FlattensAt
  <2> DEFINE T == {n \in Nat : n \in 1..Len(seqs) => f[n] \in Seq(S)}
  <2>4. 0 \in T
    OBVIOUS
  <2>5. ASSUME NEW n \in Nat, n \in T, n + 1 \in 1..Len(seqs)
        PROVE  f[n + 1] \in Seq(S)
    <3>1. CASE n = 0
      BY <2>2, <2>3, <2>5, <3>1 DEF Extended
    <3>2. CASE n # 0
      <4>1. n \in 1..Len(seqs) /\ f[n] \in Seq(S) /\ seqs[n + 1] \in Seq(S)
        BY <2>2, <2>3, <2>5, <3>2
      <4>2. f[n + 1] = f[n] \o seqs[n + 1]
        <5>1. f[n + 1] = Extended(f, seqs, n + 1)
          BY <2>3, <2>5
        <5>2. n + 1 # 1 /\ (n + 1) - 1 = n
          BY <3>2
        <5> QED
          BY <5>1, <5>2 DEF Extended
      <4> QED
        BY <4>1, <4>2
    <3> QED
      BY <3>1, <3>2
  <2>6. \A n \in Nat : n \in T => n + 1 \in T
    <3>1. SUFFICES ASSUME NEW n \in Nat, n \in T
                   PROVE  n + 1 \in T
      OBVIOUS
    <3>2. n + 1 \in 1..Len(seqs) => f[n + 1] \in Seq(S)
      BY <2>5, <3>1
    <3> QED
      BY <3>2
  <2>7. Len(seqs) \in T
    <3> HIDE DEF T
    <3> QED
      BY <2>3, <2>4, <2>6, SetInduction
  <2> QED
    BY <2>1, <2>3, <2>7
<1> QED
  BY <1>1, <1>2

LEMMA FlattenSingletons ==
  ASSUME NEW S, NEW t \in Seq(S)
  PROVE  FlattenSeq([i \in DOMAIN t |-> <<t[i]>>]) = t
<1> DEFINE seqs == [i \in DOMAIN t |-> <<t[i]>>]
<1>1. /\ Len(t) \in Nat /\ DOMAIN t = 1..Len(t) /\ Len(seqs) = Len(t)
      /\ \A i \in 1..Len(t) : t[i] \in S /\ seqs[i] = <<t[i]>>
  BY ElementOfSeq
<1>2. seqs \in Seq(Seq(S))
  BY <1>1
<1> HIDE DEF seqs
<1>3. CASE seqs = <<>>
  BY <1>1, <1>3 DEF FlattenSeq
<1>4. CASE seqs # <<>>
  <2>1. PICK f : Flattens(f, seqs, Len(seqs)) /\ FlattenSeq(seqs) = f[Len(seqs)]
    BY <1>2, <1>4, Flattened
  <2>2. /\ Len(t) # 0
        /\ \A i \in 1..Len(t) : f[i] = Extended(f, seqs, i)
    BY <1>1, <1>4, <1>2, <2>1, FlattensAt
  <2> DEFINE T == {n \in Nat : n \in 1..Len(t) => f[n] = SubSeq(t, 1, n)}
  <2>3. 0 \in T
    OBVIOUS
  <2>4. ASSUME NEW n \in Nat, n \in T, n + 1 \in 1..Len(t)
        PROVE  f[n + 1] = SubSeq(t, 1, n + 1)
    <3>1. CASE n = 0
      BY <1>1, <2>2, <2>4, <3>1 DEF Extended
    <3>2. CASE n # 0
      <4>1. n \in 1..Len(t) /\ f[n] = SubSeq(t, 1, n)
        BY <1>1, <2>4, <3>2
      <4>2. f[n + 1] = SubSeq(t, 1, n) \o <<t[n + 1]>>
        <5>1. f[n + 1] = Extended(f, seqs, n + 1) /\ seqs[n + 1] = <<t[n + 1]>>
          BY <1>1, <2>2, <2>4
        <5>2. n + 1 # 1 /\ (n + 1) - 1 = n
          BY <3>2
        <5> QED
          BY <4>1, <5>1, <5>2 DEF Extended
      <4>3. SubSeq(t, 1, n + 1) = SubSeq(t, 1, n) \o <<t[n + 1]>>
        BY <1>1, <2>4, <4>1
      <4> QED
        BY <4>2, <4>3
    <3> QED
      BY <3>1, <3>2
  <2>5. \A n \in Nat : n \in T => n + 1 \in T
    <3>1. SUFFICES ASSUME NEW n \in Nat, n \in T
                   PROVE  n + 1 \in T
      OBVIOUS
    <3>2. n + 1 \in 1..Len(t) => f[n + 1] = SubSeq(t, 1, n + 1)
      BY <2>4, <3>1
    <3> QED
      BY <3>2
  <2>6. Len(t) \in T
    <3> HIDE DEF T
    <3> QED
      BY <1>1, <2>3, <2>5, SetInduction
  <2>7. t = SubSeq(t, 1, Len(t))
    BY <1>1
  <2>8. f[Len(t)] = SubSeq(t, 1, Len(t))
    BY <1>1, <2>2, <2>6
  <2> QED
    BY <1>1, <2>1, <2>7, <2>8 DEF seqs
<1> QED
  BY <1>3, <1>4 DEF seqs

-----------------------------------------------------------------------------
(* The lists: a value is a list of entries, each of them the pieces between *)
(* its commas; what is stored is the pieces.                               *)

\* No prover here knows that "colord" is a string.
Texts == STRING \cup {"colord"}

Entries == Seq(Seq(Texts))

ListOK(f) == "whitelist" \in DOMAIN f => f["whitelist"] \in Seq(Texts)

LEMMA SeqLarger ==
  ASSUME NEW S, NEW T, S \subseteq T, NEW s \in Seq(S)
  PROVE  s \in Seq(T)
<1>1. Len(s) \in Nat /\ DOMAIN s = 1..Len(s) /\ \A i \in 1..Len(s) : s[i] \in T
  BY ElementOfSeq
<1>2. s = [i \in 1..Len(s) |-> s[i]]
  BY <1>1
<1> QED
  BY <1>1, <1>2

LEMMA OneText == <<"colord">> \in Seq(Texts)
<1>1. "colord" \in Texts
  BY DEF Texts
<1> HIDE DEF Texts
<1>2. \A s \in Texts : <<s>> \in Seq(Texts)
  OBVIOUS
<1> QED
  BY <1>1, <1>2

LEMMA WhitelistIsKey == "whitelist" \in Keys \ Numbers
<1>1. 13 \in DOMAIN KeyOrder /\ KeyOrder[13] = "whitelist"
  BY DEF KeyOrder
<1>2. "whitelist" \in Keys
  BY <1>1 DEF Keys, Range
<1> QED
  BY <1>2 DEF Numbers

\* The dialog shows the list as it is.
LEMMA ListLoaded ==
  ASSUME NEW c, Complete(c), NEW w
  PROVE  LoadConfigValues(c, w).whitelist = c.whitelist
<1> DEFINE l == LoadTimeouts(c)
<1>1. Complete(l) /\ l["whitelist"] = c["whitelist"]
  BY WhitelistIsKey, TimeoutsLoaded
<1> HIDE DEF l
<1>2. LoadConfigValues(c, w)["whitelist"] = l["whitelist"]
  BY <1>1, WhitelistIsKey DEF LoadConfigValues, Complete, l
<1> QED
  BY <1>1, <1>2

\* Setting the timeouts leaves the list alone.
LEMMA ListKept ==
  ASSUME NEW w, Complete(w), NEW power, NEW t
  PROVE  WithTimeouts(w, power, t).whitelist = w.whitelist
BY WhitelistIsKey DEF WithTimeouts, Complete

\* What is loaded would be stored and read as it is.
LEMMA LoadIsRead ==
  ASSUME NEW f, ListOK(f)
  PROVE  /\ Load(f).whitelist \in Entries
         /\ \A key \in Keys : Load(f)[key] = Read(key, Stored(key, Load(f)[key]))
<1> DEFINE pieces == IF "whitelist" \in DOMAIN f THEN f["whitelist"] ELSE <<"colord">>
           entries == [i \in DOMAIN pieces |-> <<pieces[i]>>]
<1>1. pieces \in Seq(Texts)
  <2>1. <<"colord">> \in Seq(Texts)
    BY OneText
  <2>2. "whitelist" \in DOMAIN f => f["whitelist"] \in Seq(Texts)
    BY DEF ListOK
  <2> QED
    BY <2>1, <2>2
<1>2. Load(f)["whitelist"] = entries
  <2>1. CASE "whitelist" \in DOMAIN f
    BY <2>1, WhitelistIsKey DEF Load, Read
  <2>2. CASE "whitelist" \notin DOMAIN f
    <3>1. Defaults["whitelist"] = <<<<"colord">>>>
      BY DEF Defaults
    <3>2. entries = <<<<"colord">>>>
      BY <2>2
    <3> QED
      BY <2>2, <3>1, <3>2, WhitelistIsKey DEF Load
  <2> QED
    BY <2>1, <2>2
<1> HIDE DEF pieces
<1>3. FlattenSeq(entries) = pieces
  BY <1>1, FlattenSingletons
<1>4. entries \in Entries
  <2>1. Len(pieces) \in Nat /\ DOMAIN pieces = 1..Len(pieces)
        /\ \A i \in 1..Len(pieces) : pieces[i] \in Texts
    BY <1>1, ElementOfSeq
  <2> QED
    BY <2>1 DEF Entries
<1>5. Read("whitelist", Stored("whitelist", entries)) = entries
  BY <1>3 DEF Read, Stored
<1>6. \A key \in Keys : key # "whitelist" => Load(f)[key] = Read(key, Stored(key, Load(f)[key]))
  BY DEF Read, Stored
<1> HIDE DEF entries
<1> QED
  BY <1>2, <1>4, <1>5, <1>6

\* What is saved is what would be read.
LEMMA SaveIsRead ==
  ASSUME NEW c
  PROVE  \A key \in Keys : Load(Save(c))[key] = Read(key, Stored(key, c[key]))
BY DEF Load, Save

LEMMA SaveLists ==
  ASSUME NEW c, c.whitelist \in Entries
  PROVE  ListOK(Save(c)) /\ \A f \in Torn(c) : ListOK(f)
<1>1. Stored("whitelist", c["whitelist"]) \in Seq(Texts)
  BY FlattenType DEF Stored, Entries
<1>2. \A key \in DOMAIN Save(c) : Save(c)[key] = Stored(key, c[key])
  BY DEF Save
<1>3. \A f \in Torn(c) : \A key \in DOMAIN f : f[key] = Stored(key, c[key])
  BY DEF Torn
<1> QED
  BY <1>1, <1>2, <1>3 DEF ListOK

-----------------------------------------------------------------------------
(* The invariant: unless a reset is unsaved or a save was cut short, the   *)
(* file says what is in memory.                                            *)

ListsOK ==
  /\ config.whitelist \in Entries
  /\ dialog.open => dialog.widgets.whitelist \in Entries
  /\ ListOK(file)

FileSays ==
  ~history.unsaved /\ ~history.torn =>
    \A key \in Keys : Load(file)[key] = Read(key, Stored(key, config[key]))

SavedInv == ListsOK /\ FileSays

LEMMA InitSaved == Init => SavedInv
<1> SUFFICES ASSUME Init PROVE SavedInv
  OBVIOUS
<1>1. ListOK(file) /\ config = Load(file) /\ ~dialog.open
  <2>1. "whitelist" \in DOMAIN file => file["whitelist"] \in Seq(STRING)
    BY SettingsAssumption DEF Init
  <2>2. "whitelist" \in DOMAIN file => file["whitelist"] \in Seq(Texts)
    BY <2>1, SeqLarger DEF Texts
  <2> QED
    BY <2>2 DEF Init, Closed, ListOK
<1> QED
  BY <1>1, LoadIsRead DEF SavedInv, ListsOK, FileSays

\* The settings c are put in memory and in the file.
LEMMA BothSaved ==
  ASSUME NEW c, c.whitelist \in Entries, config' = c, file' = Save(c),
         dialog'.open => dialog'.widgets.whitelist \in Entries
  PROVE  SavedInv'
BY SaveLists, SaveIsRead DEF SavedInv, ListsOK, FileSays

LEMMA DialogSaved ==
  ASSUME SavedInv, UNCHANGED <<config, file>>,
         history'.unsaved = history.unsaved, history'.torn = history.torn,
         dialog'.open => dialog'.widgets.whitelist \in Entries
  PROVE  SavedInv'
BY DEF SavedInv, ListsOK, FileSays

LEMMA EditSaved ==
  ASSUME IInv, FollowInv, SavedInv, NEW widgets, Edit(widgets), widgets.whitelist \in Entries
  PROVE  SavedInv'
<1>1. dialog'.widgets = widgets
  BY DEF Edit, IInv, DialogOK
<1>2. /\ UNCHANGED <<config, file>>
      /\ history'.unsaved = history.unsaved /\ history'.torn = history.torn
  BY DEF Edit, FollowInv
<1> QED
  BY <1>1, <1>2, DialogSaved

LEMMA SavedStep == IInv /\ FollowInv /\ SavedInv /\ [Next]_vars => SavedInv'
<1> SUFFICES ASSUME IInv, FollowInv, SavedInv, [Next]_vars PROVE SavedInv'
  OBVIOUS
<1> DEFINE w == dialog.widgets
<1>1. /\ config.whitelist \in Entries /\ ListOK(file) /\ Complete(config)
      /\ dialog.open => w.whitelist \in Entries /\ Complete(w)
  BY DEF SavedInv, ListsOK, IInv, MemoryOK, DialogOK
<1> HIDE DEF w
<1>2. ASSUME UNCHANGED <<config, file>>, dialog'.open => dialog.open /\ dialog'.widgets = w,
             history'.unsaved = history.unsaved, history'.torn = history.torn
      PROVE  SavedInv'
  BY <1>1, <1>2, DialogSaved DEF w
<1>3. ASSUME NEW v, Edit(v), Complete(w) /\ w.whitelist \in Entries => v.whitelist \in Entries
      PROVE  SavedInv'
  BY <1>1, <1>3, EditSaved DEF Edit
<1>4. CASE \E power \in Powers : EditReduce(power) \/ EditSleep(power) \/ EditIdle(power)
  <2>1. PICK power, t : Edit(WithTimeouts(w, power, t))
    BY <1>4 DEF EditReduce, EditSleep, EditIdle, w
  <2> QED
    BY <1>3, <2>1, ListKept
<1>5. CASE EditLimit \/ EditSlider \/ EditOthers \/ EditList
  <2>1. CASE EditLimit
    <3>1. PICK enabled : Edit([w EXCEPT !.charge_limit_enabled = enabled, !.charge_limit_value = 80])
      BY <2>1 DEF EditLimit, w
    <3>2. Complete(w) => [w EXCEPT !.charge_limit_enabled = enabled,
                                   !.charge_limit_value = 80].whitelist = w.whitelist
      BY WhitelistIsKey DEF Complete
    <3> QED
      BY <1>3, <3>1, <3>2
  <2>2. CASE EditSlider
    <3>1. Edit([w EXCEPT !.backlight_slider = 1 - @])
      BY <2>2 DEF EditSlider, w
    <3>2. Complete(w) => [w EXCEPT !.backlight_slider = 1 - @].whitelist = w.whitelist
      BY WhitelistIsKey DEF Complete
    <3> QED
      BY <1>3, <3>1, <3>2
  <2>3. CASE EditOthers
    <3>1. \/ Edit([w EXCEPT !.eco_freq_cap = 60])
          \/ Edit([w EXCEPT !.close_popup_animation = ~@])
          \/ \E saver \in Savers : Edit([w EXCEPT !.ac_screensaver = saver])
      BY <2>3 DEF EditOthers, w
    <3>2. Complete(w) =>
            /\ [w EXCEPT !.eco_freq_cap = 60].whitelist = w.whitelist
            /\ [w EXCEPT !.close_popup_animation = ~@].whitelist = w.whitelist
            /\ \A saver \in Savers : [w EXCEPT !.ac_screensaver = saver].whitelist = w.whitelist
      BY WhitelistIsKey DEF Complete
    <3> QED
      BY <1>3, <3>1, <3>2
  <2>4. CASE EditList
    <3>1. PICK list \in Lists : Edit([w EXCEPT !.whitelist = list])
      BY <2>4 DEF EditList, w
    <3>2. list \in Entries
      <4>1. list \in Seq(Seq(STRING) \ {<<>>})
        BY SettingsAssumption
      <4>2. \A s \in Seq(STRING) : s \in Seq(Texts)
        BY SeqLarger DEF Texts
      <4> QED
        BY <4>1, <4>2, SeqLarger DEF Entries
    <3>3. [w EXCEPT !.whitelist = list].whitelist \in Entries
      <4>1. dialog.open
        BY <3>1 DEF Edit
      <4>2. "whitelist" \in DOMAIN w
        BY <1>1, <4>1, WhitelistIsKey DEF Complete
      <4> QED
        BY <3>2, <4>2
    <3> QED
      BY <1>3, <3>1, <3>3
  <2> QED
    BY <1>5, <2>1, <2>2, <2>3, <2>4
<1>6. CASE Accept
  <2>1. /\ dialog.open /\ ~dialog'.open
        /\ config' = [w EXCEPT !.last_calibration = config.last_calibration]
        /\ file' = Save(config')
    BY <1>6 DEF Accept, SaveConfigValues, Closed, w
  <2>2. config'.whitelist \in Entries
    BY <1>1, <2>1
  <2> QED
    BY <2>1, <2>2, BothSaved
<1>7. CASE Calibrated
  <2>1. /\ config' = [config EXCEPT !.last_calibration = 1] /\ dialog' = dialog
        /\ file' = Save(config')
    BY <1>7 DEF Calibrated
  <2>2. config'.whitelist \in Entries
    BY <1>1, <2>1
  <2> QED
    BY <1>1, <2>1, <2>2, BothSaved DEF w
<1>8. CASE OpenConfig
  <2>1. dialog'.widgets = LoadConfigValues(config, NewWidgets)
        /\ UNCHANGED <<config, file>>
        /\ history'.unsaved = history.unsaved /\ history'.torn = history.torn
    BY <1>8 DEF OpenConfig, Closed, FollowInv
  <2> QED
    BY <1>1, <2>1, ListLoaded, DialogSaved
<1>9. CASE ResetDefaults
  <2>1. /\ dialog'.widgets = LoadConfigValues(Defaults, dialog.widgets)
        /\ config' = Defaults /\ file' = file
        /\ history'.unsaved
    BY <1>9 DEF ResetDefaults, IInv, DialogOK, FollowInv
  <2>2. Defaults.whitelist \in Entries
    <3>1. Defaults.whitelist = <<<<"colord">>>>
      BY DEF Defaults
    <3> QED
      BY <3>1, OneText DEF Entries
  <2>3. dialog'.widgets.whitelist \in Entries
    BY <2>1, <2>2, ListLoaded, DefaultsNumeric
  <2> QED
    BY <1>1, <2>1, <2>2, <2>3 DEF SavedInv, ListsOK, FileSays
<1>10. CASE Reject \/ Dismiss \/ Quit
  <2>1. ~dialog'.open /\ UNCHANGED <<config, file, history>>
    BY <1>10 DEF Reject, Dismiss, Quit, Leave, Closed
  <2> QED
    BY <1>2, <2>1
<1>11. CASE CrashInSave
  <2> DEFINE c == SaveConfigValues(config, w)
  <2>1. dialog.open /\ ~dialog'.open /\ config' = config /\ history'.torn /\ file' \in Torn(c)
    BY <1>11 DEF CrashInSave, Leave, Closed, FollowInv, w
  <2>2. c.whitelist \in Entries
    BY <1>1, <2>1 DEF SaveConfigValues
  <2> HIDE DEF c
  <2>3. ListOK(file')
    BY <2>1, <2>2, SaveLists
  <2> QED
    BY <1>1, <2>1, <2>3 DEF SavedInv, ListsOK, FileSays
<1>12. CASE StartClient
  <2>1. config' = Load(file) /\ UNCHANGED <<file, dialog>>
    BY <1>12 DEF StartClient
  <2> QED
    BY <1>1, <2>1, LoadIsRead DEF SavedInv, ListsOK, FileSays, w
<1>13. CASE \/ TestTransition \/ TestTransitionComplete \/ TestTransitionTimeout
            \/ TestScreensaver \/ TestScreensaverTimeout \/ TestScreensaverFinished \/ Restore
  <2>1. UNCHANGED <<config, file, history>>
    BY <1>13 DEF TestTransition, TestTransitionComplete, TestTransitionTimeout, TestScreensaver,
                 TestScreensaverTimeout, TestScreensaverFinished, Restore, Testing, OnlyDialog
  <2>2. dialog'.open = dialog.open /\ dialog'.widgets = w
    BY <1>13 DEF TestTransition, TestTransitionComplete, TestTransitionTimeout, TestScreensaver,
                 TestScreensaverTimeout, TestScreensaverFinished, SaverEnds, Restore, IInv, DialogOK, w
  <2> QED
    BY <1>2, <2>1, <2>2
<1>14. CASE TrayClick \/ DaemonMoves \/ UNCHANGED vars
  BY <1>2, <1>14 DEF TrayClick, DaemonMoves, vars, FollowInv, w
<1> QED
  BY <1>4, <1>5, <1>6, <1>7, <1>8, <1>9, <1>10, <1>11, <1>12, <1>13, <1>14 DEF Next

\* Whatever happened to the client before: unless a reset was not saved or a save was cut
\* short, the next client has the settings that this one had in memory, with only the
\* entries of a list that hold commas in pieces.
THEOREM SettingsRestart == Spec => SettingsSurviveRestart
<1> DEFINE Survive == ~client /\ client' /\ ~history.unsaved /\ ~history.torn =>
                        \A key \in Keys : config'[key] = Read(key, Stored(key, config[key]))
<1>1. Init => FollowInv
  BY DEF Init, FollowInv, DaemonFollows
<1>2. SavedInv /\ [Next]_vars => [Survive]_vars
  <2> SUFFICES ASSUME SavedInv, Next, ~client, client', ~history.unsaved, ~history.torn
               PROVE  \A key \in Keys : config'[key] = Read(key, Stored(key, config[key]))
    OBVIOUS
  <2>1. config' = Load(file)
    BY DEF Next, TrayClick, OpenConfig, EditReduce, EditSleep, EditIdle, EditLimit, EditSlider,
           EditOthers, EditList, Edit, Accept, Reject, ResetDefaults, Testing, TestTransition,
           TestTransitionComplete, TestTransitionTimeout, TestScreensaver,
           TestScreensaverTimeout, TestScreensaverFinished, Restore, Dismiss, Calibrated, Quit,
           CrashInSave, StartClient, DaemonMoves
  <2> QED
    BY <2>1 DEF SavedInv, FileSays
<1> QED
  BY <1>1, <1>2, InitSaved, SavedStep, FollowStep, Invariance, PTL DEF Spec, SettingsSurviveRestart

-----------------------------------------------------------------------------
(* The types: what the settings say of the cap and the limit is a number,  *)
(* and what the widgets and the daemon say of them is in range.            *)

Caps == {"charge_limit_value", "eco_freq_cap"}

Capped(c) == \A key \in DOMAIN c \cap Caps : c[key] \in Int

InRange(w) ==
  /\ Complete(w)
  /\ w.charge_limit_value \in 60..100 /\ w.eco_freq_cap \in 20..80
  /\ w.ac_screensaver \in Savers

TestOK(t) ==
  /\ DOMAIN t = {"effect", "saver", "effectTimer", "saverTimer", "minimized"}
  /\ t.effect \in {"none", "playing", "complete"}
  /\ t.saver \in BOOLEAN /\ t.effectTimer \in BOOLEAN /\ t.saverTimer \in BOOLEAN
  /\ t.minimized \in BOOLEAN

DialogTyped(d) ==
  /\ DOMAIN d = {"open", "widgets", "test"}
  /\ d.open \in BOOLEAN /\ InRange(d.widgets) /\ TestOK(d.test)

PopupTyped(p) ==
  DOMAIN p = {"visible", "open"} /\ p.visible \in BOOLEAN /\ p.open \in BOOLEAN

DaemonTyped(d) ==
  /\ DOMAIN d = {"up", "eco", "limit"}
  /\ d.up \in BOOLEAN /\ d.eco \in 20..80 /\ d.limit \in 60..100

SettingsTyped(c, f) ==
  Complete(c) /\ Capped(c) /\ DOMAIN f \subseteq Keys /\ Capped(f)

TypeIInv ==
  /\ machine \in Machines
  /\ DialogTyped(dialog) /\ PopupTyped(popup) /\ client \in BOOLEAN
  /\ SettingsTyped(config, file)
  /\ DaemonTyped(daemon)
  /\ events \in 0..EventBound

LEMMA CapsAreKeys == Caps \subseteq Keys \ Numbers /\ "ac_screensaver" \in Keys \ Numbers
                     /\ "last_calibration" \in Keys \ Numbers
<1>1. /\ 5 \in DOMAIN KeyOrder /\ KeyOrder[5] = "charge_limit_value"
      /\ 6 \in DOMAIN KeyOrder /\ KeyOrder[6] = "eco_freq_cap"
      /\ 7 \in DOMAIN KeyOrder /\ KeyOrder[7] = "last_calibration"
      /\ 8 \in DOMAIN KeyOrder /\ KeyOrder[8] = "ac_screensaver"
  BY DEF KeyOrder
<1>2. \A i \in DOMAIN KeyOrder : KeyOrder[i] \in Keys
  BY DEF Keys, Range
<1>3. "charge_limit_value" \in Keys /\ "eco_freq_cap" \in Keys
      /\ "last_calibration" \in Keys /\ "ac_screensaver" \in Keys
  BY <1>1, <1>2
<1> QED
  BY <1>3 DEF Caps, Numbers

\* Loading puts any number within the range of its widget, and any name in the list.
LEMMA LoadedInRange ==
  ASSUME NEW c, Complete(c), Capped(c), NEW w, InRange(w)
  PROVE  InRange(LoadConfigValues(c, w))
<1> DEFINE l == LoadTimeouts(c)
           v == LoadConfigValues(c, w)
<1>1. Complete(l) /\ \A key \in Caps : l[key] \in Int
  BY TimeoutsLoaded, CapsAreKeys DEF Capped, Complete
<1> HIDE DEF l
<1>2. /\ DOMAIN v = Keys
      /\ v.charge_limit_value = IF machine.threshold THEN Clamp(l.charge_limit_value, 60, 100)
                                ELSE w.charge_limit_value
      /\ v.eco_freq_cap = Clamp(l.eco_freq_cap, 20, 80)
      /\ v.ac_screensaver = Listed(l.ac_screensaver)
  BY <1>1, CapsAreKeys DEF LoadConfigValues, Complete, Caps, l
<1> HIDE DEF v
<1>3. Clamp(l.charge_limit_value, 60, 100) \in 60..100 /\ Clamp(l.eco_freq_cap, 20, 80) \in 20..80
  <2>1. l.charge_limit_value \in Int /\ l.eco_freq_cap \in Int
    BY <1>1 DEF Caps
  <2> QED
    BY <2>1 DEF Clamp
<1>4. Listed(l.ac_screensaver) \in Savers
  BY SettingsAssumption DEF Listed
<1>5. v.charge_limit_value \in 60..100
  BY <1>2, <1>3 DEF InRange
<1> QED
  BY <1>2, <1>3, <1>4, <1>5 DEF InRange, Complete, v

LEMMA NewWidgetsInRange == InRange(NewWidgets) /\ Complete(Defaults) /\ Capped(Defaults)
<1>1. "random" \in Savers
  BY SettingsAssumption
<1>2. /\ DOMAIN NewWidgets = DOMAIN Defaults /\ NewWidgets.charge_limit_value = 60
      /\ NewWidgets.eco_freq_cap = 40 /\ NewWidgets.ac_screensaver = "random"
  BY DEF NewWidgets, Defaults
<1>3. Capped(Defaults)
  BY DEF Capped, Caps, Defaults
<1> QED
  BY <1>1, <1>2, <1>3, DefaultsNumeric DEF InRange, Complete

LEMMA LoadCapped ==
  ASSUME NEW f, DOMAIN f \subseteq Keys, Capped(f)
  PROVE  Complete(Load(f)) /\ Capped(Load(f))
<1>1. \A key \in Caps : Defaults[key] \in Int /\ key # "whitelist"
  BY NewWidgetsInRange, CapsAreKeys DEF Capped, Complete, Caps
<1> QED
  BY <1>1 DEF Load, Read, Complete, Capped

LEMMA SaveCapped ==
  ASSUME NEW c, Complete(c), Capped(c)
  PROVE  /\ DOMAIN Save(c) \subseteq Keys /\ Capped(Save(c))
         /\ \A f \in Torn(c) : DOMAIN f \subseteq Keys /\ Capped(f)
<1>1. \A key \in Caps : Stored(key, c[key]) \in Int
  BY CapsAreKeys DEF Stored, Capped, Complete, Caps
<1>2. DOMAIN Save(c) = Keys /\ \A key \in Keys : Save(c)[key] = Stored(key, c[key])
  BY DEF Save
<1>3. ASSUME NEW f \in Torn(c)
      PROVE  DOMAIN f \subseteq Keys /\ \A key \in DOMAIN f : f[key] = Stored(key, c[key])
  <2>1. PICK n \in 0..Len(KeyOrder) - 1 :
          f = [key \in {KeyOrder[i] : i \in 1..n} |-> Stored(key, c[key])]
    BY DEF Torn
  <2>2. Len(KeyOrder) = 14 /\ DOMAIN KeyOrder = 1..14
    BY DEF KeyOrder
  <2>3. \A i \in 1..14 : KeyOrder[i] \in Keys
    BY <2>2 DEF Keys, Range
  <2>4. 1..n \subseteq 1..14
    BY <2>1, <2>2
  <2> QED
    BY <2>1, <2>3, <2>4
<1> QED
  BY <1>1, <1>2, <1>3 DEF Capped

\* What is saved of widgets in range are numbers.
LEMMA SaveValuesCapped ==
  ASSUME NEW c, NEW w, InRange(w)
  PROVE  Complete(SaveConfigValues(c, w)) /\ Capped(SaveConfigValues(c, w))
<1>1. Caps \subseteq DOMAIN w /\ "last_calibration" \notin Caps
  BY CapsAreKeys DEF InRange, Complete, Caps
<1>2. DOMAIN SaveConfigValues(c, w) = Keys
      /\ \A key \in Caps : SaveConfigValues(c, w)[key] = w[key]
  BY <1>1 DEF SaveConfigValues, InRange, Complete
<1>3. \A key \in Caps : w[key] \in Int
  BY DEF InRange, Caps
<1> QED
  BY <1>2, <1>3 DEF Complete, Capped

LEMMA ToldInRange ==
  ASSUME DaemonTyped(daemon), NEW c
  PROVE  DaemonTyped(Told(c))
BY DEF Told, DaemonTyped

LEMMA ActsTyped ==
  ASSUME TypeIInv, Acts \/ UNCHANGED events
  PROVE  events' \in 0..EventBound
BY SettingsAssumption DEF TypeIInv, Acts

LEMMA ClosedDialogTyped ==
  ASSUME NEW d, d = Closed
  PROVE  DialogTyped(d)
<1>1. TestOK(NoTest)
  BY DEF NoTest, TestOK
<1>2. /\ DOMAIN d = {"open", "widgets", "test"} /\ d.open = FALSE
      /\ d.widgets = NewWidgets /\ d.test = NoTest
  BY DEF Closed
<1>3. d.open \in BOOLEAN
  BY <1>2, Zenon
<1>4. InRange(d.widgets) /\ TestOK(d.test)
  BY <1>1, <1>2, NewWidgetsInRange
<1> QED
  BY <1>2, <1>3, <1>4 DEF DialogTyped

LEMMA HiddenPopupTyped ==
  ASSUME NEW p, p = [visible |-> FALSE, open |-> FALSE]
  PROVE  PopupTyped(p)
BY DEF PopupTyped

LEMMA ClosedTyped ==
  ASSUME dialog' = Closed
  PROVE  DialogTyped(dialog')
BY ClosedDialogTyped

LEMMA SameTyped ==
  ASSUME TypeIInv, UNCHANGED <<machine, file, config, popup, client, daemon>>,
         DialogTyped(dialog'), events' \in 0..EventBound
  PROVE  TypeIInv'
BY DEF TypeIInv, SettingsTyped, DaemonTyped, PopupTyped, Complete, Capped

LEMMA EditTyped ==
  ASSUME TypeIInv, NEW widgets, Edit(widgets), InRange(widgets)
  PROVE  TypeIInv'
<1>1. /\ UNCHANGED <<machine, file, config, popup, client, daemon>>
      /\ dialog' = [dialog EXCEPT !.widgets = widgets]
  BY DEF Edit
<1>2. events' \in 0..EventBound
  BY ActsTyped DEF Edit
<1>3. DialogTyped(dialog')
  BY <1>1 DEF TypeIInv, DialogTyped
<1> QED
  BY <1>1, <1>2, <1>3, SameTyped

LEMMA EditsTyped ==
  ASSUME TypeIInv,
         \/ \E power \in Powers : EditReduce(power) \/ EditSleep(power) \/ EditIdle(power)
         \/ EditLimit \/ EditSlider \/ EditOthers \/ EditList
  PROVE  TypeIInv'
<1> DEFINE w == dialog.widgets
<1>1. InRange(w)
  BY DEF TypeIInv, DialogTyped
<1> HIDE DEF w
<1>2. ASSUME NEW widgets, Edit(widgets),
             Complete(widgets),
             widgets.charge_limit_value \in {w.charge_limit_value, 80},
             widgets.eco_freq_cap \in {w.eco_freq_cap, 60},
             widgets.ac_screensaver \in Savers \cup {w.ac_screensaver}
      PROVE  TypeIInv'
  <2>1. InRange(widgets)
    BY <1>1, <1>2 DEF InRange
  <2> QED
    BY <1>2, <2>1, EditTyped
<1>3. Complete(w) /\ Caps \subseteq DOMAIN w /\ "ac_screensaver" \in DOMAIN w
  BY <1>1, CapsAreKeys DEF InRange, Complete
<1>4. CASE \E power \in Powers : EditReduce(power) \/ EditSleep(power) \/ EditIdle(power)
  <2>1. \E power \in Powers : \E t : Edit(WithTimeouts(w, power, t))
    BY <1>4 DEF EditReduce, EditSleep, EditIdle, w
  <2>2. PICK power \in Powers : \E t : Edit(WithTimeouts(w, power, t))
    BY <2>1
  <2>3. PICK t : Edit(WithTimeouts(w, power, t))
    BY <2>2
  <2>4. Complete(WithTimeouts(w, power, t))
    BY <1>3, TimeoutsSet
  <2>5. /\ WithTimeouts(w, power, t).charge_limit_value = w.charge_limit_value
        /\ WithTimeouts(w, power, t).eco_freq_cap = w.eco_freq_cap
        /\ WithTimeouts(w, power, t).ac_screensaver = w.ac_screensaver
    BY <1>3 DEF WithTimeouts, Caps
  <2> QED
    BY <1>2, <2>3, <2>4, <2>5
<1>5. CASE EditLimit
  <2>1. PICK enabled \in BOOLEAN :
          Edit([w EXCEPT !.charge_limit_enabled = enabled, !.charge_limit_value = 80])
    BY <1>5 DEF EditLimit, w
  <2> DEFINE v == [w EXCEPT !.charge_limit_enabled = enabled, !.charge_limit_value = 80]
  <2>2. /\ Complete(v) /\ v.charge_limit_value = 80 /\ v.eco_freq_cap = w.eco_freq_cap
        /\ v.ac_screensaver = w.ac_screensaver
    BY <1>3 DEF Complete, Caps
  <2> HIDE DEF v
  <2> QED
    BY <1>2, <2>1, <2>2 DEF v
<1>6. CASE EditSlider
  <2> DEFINE v == [w EXCEPT !.backlight_slider = 1 - @]
  <2>1. /\ Complete(v) /\ v.charge_limit_value = w.charge_limit_value
        /\ v.eco_freq_cap = w.eco_freq_cap /\ v.ac_screensaver = w.ac_screensaver
    BY <1>3 DEF Complete
  <2>2. Edit(v)
    BY <1>6 DEF EditSlider, w
  <2> HIDE DEF v
  <2> QED
    BY <1>2, <2>1, <2>2
<1>7. CASE EditOthers
  <2>1. PICK saver \in Savers :
          \/ Edit([w EXCEPT !.eco_freq_cap = 60])
          \/ Edit([w EXCEPT !.close_popup_animation = ~@])
          \/ Edit([w EXCEPT !.ac_screensaver = saver])
    BY <1>7, SettingsAssumption DEF EditOthers, w
  <2> DEFINE u == [w EXCEPT !.eco_freq_cap = 60]
             v == [w EXCEPT !.close_popup_animation = ~@]
             x == [w EXCEPT !.ac_screensaver = saver]
  <2>2. /\ Complete(u) /\ u.charge_limit_value = w.charge_limit_value
        /\ u.eco_freq_cap = 60 /\ u.ac_screensaver = w.ac_screensaver
    BY <1>3 DEF Complete, Caps
  <2>3. /\ Complete(v) /\ v.charge_limit_value = w.charge_limit_value
        /\ v.eco_freq_cap = w.eco_freq_cap /\ v.ac_screensaver = w.ac_screensaver
    BY <1>3 DEF Complete
  <2>4. /\ Complete(x) /\ x.charge_limit_value = w.charge_limit_value
        /\ x.eco_freq_cap = w.eco_freq_cap /\ x.ac_screensaver = saver
    BY <1>3 DEF Complete
  <2>5. Edit(u) \/ Edit(v) \/ Edit(x)
    BY <2>1
  <2> HIDE DEF u, v, x
  <2> QED
    BY <1>2, <2>2, <2>3, <2>4, <2>5
<1>8. CASE EditList
  <2>1. PICK list \in Lists : Edit([w EXCEPT !.whitelist = list])
    BY <1>8 DEF EditList, w
  <2> DEFINE v == [w EXCEPT !.whitelist = list]
  <2>2. /\ Complete(v) /\ v.charge_limit_value = w.charge_limit_value
        /\ v.eco_freq_cap = w.eco_freq_cap /\ v.ac_screensaver = w.ac_screensaver
    BY <1>3 DEF Complete
  <2> HIDE DEF v
  <2> QED
    BY <1>2, <2>1, <2>2 DEF v
<1> QED
  BY <1>4, <1>5, <1>6, <1>7, <1>8

LEMMA ClosingTyped ==
  ASSUME TypeIInv, Accept \/ Reject \/ Dismiss \/ Quit \/ CrashInSave
  PROVE  TypeIInv'
<1>1. dialog' = Closed /\ machine' = machine
  BY DEF Accept, Reject, Dismiss, Quit, CrashInSave, Leave
<1>2. events' \in 0..EventBound
  BY ActsTyped DEF Accept, Reject, Dismiss, Quit, CrashInSave
<1>3. PopupTyped(popup') /\ client' \in BOOLEAN
  <2>1. popup' = popup \/ popup' = [visible |-> FALSE, open |-> FALSE]
    BY DEF Accept, Reject, Dismiss, Quit, CrashInSave, Leave
  <2>2. client' = client \/ client' = FALSE
    BY Zenon DEF Accept, Reject, Dismiss, Quit, CrashInSave, Leave
  <2>3. PopupTyped(popup')
    BY <2>1, HiddenPopupTyped DEF TypeIInv
  <2>4. client' \in BOOLEAN
    <3>1. client \in BOOLEAN
      BY Zenon DEF TypeIInv
    <3> QED
      BY <2>2, <3>1, Zenon
  <2> QED
    BY <2>3, <2>4
<1>4. DaemonTyped(daemon')
  <2>1. daemon' = daemon \/ daemon' = Told(config')
    BY DEF Accept, Reject, Dismiss, Quit, CrashInSave
  <2> QED
    BY <2>1, ToldInRange DEF TypeIInv
<1>5. SettingsTyped(config', file')
  <2> DEFINE c == SaveConfigValues(config, dialog.widgets)
  <2>1. /\ config' \in {config, c}
        /\ file' = file \/ (config' = c /\ file' = Save(c)) \/ file' \in Torn(c)
    BY DEF Accept, Reject, Dismiss, Quit, CrashInSave
  <2>2. Complete(c) /\ Capped(c)
    BY SaveValuesCapped DEF TypeIInv, DialogTyped
  <2> HIDE DEF c
  <2>3. Complete(config') /\ Capped(config')
    BY <2>1, <2>2 DEF TypeIInv, SettingsTyped
  <2>4. DOMAIN file' \subseteq Keys /\ Capped(file')
    BY <2>1, <2>2, SaveCapped DEF TypeIInv, SettingsTyped
  <2> QED
    BY <2>3, <2>4 DEF SettingsTyped
<1> QED
  BY <1>1, <1>2, <1>3, <1>4, <1>5, ClosedTyped DEF TypeIInv

LEMMA TestsTyped ==
  ASSUME TypeIInv,
         \/ TestTransition \/ TestTransitionComplete \/ TestTransitionTimeout
         \/ TestScreensaver \/ TestScreensaverTimeout \/ TestScreensaverFinished \/ Restore
  PROVE  TypeIInv'
<1>1. UNCHANGED <<machine, file, config, popup, client, daemon>>
  BY DEF TestTransition, TestTransitionComplete, TestTransitionTimeout, TestScreensaver,
         TestScreensaverTimeout, TestScreensaverFinished, Restore, Testing, OnlyDialog
<1>2. events' \in 0..EventBound
  BY ActsTyped DEF TestTransition, TestTransitionComplete, TestTransitionTimeout,
                   TestScreensaver, TestScreensaverTimeout, TestScreensaverFinished, Restore
<1>3. \E t : TestOK(t) /\ dialog' = [dialog EXCEPT !.test = t]
  <2> DEFINE t == dialog.test
  <2>1. TestOK(t)
    BY DEF TypeIInv, DialogTyped
  <2> HIDE DEF t
  <2>2. CASE TestTransition
    <3>1. dialog' = [dialog EXCEPT !.test = [t EXCEPT !.effect = "playing", !.minimized = TRUE]]
      BY <2>2 DEF TestTransition, t
    <3> QED
      BY <2>1, <3>1 DEF TestOK
  <2>3. CASE TestTransitionComplete
    <3>1. dialog' = [dialog EXCEPT !.test = [t EXCEPT !.effect = "complete", !.effectTimer = TRUE]]
      BY <2>3 DEF TestTransitionComplete, t
    <3> QED
      BY <2>1, <3>1 DEF TestOK
  <2>4. CASE TestTransitionTimeout
    <3>1. dialog' = [dialog EXCEPT !.test = [t EXCEPT !.effect = "none", !.effectTimer = FALSE,
                                                      !.minimized = FALSE]]
      BY <2>4 DEF TestTransitionTimeout, t
    <3> QED
      BY <2>1, <3>1 DEF TestOK
  <2>5. CASE TestScreensaver
    <3>1. dialog' = [dialog EXCEPT !.test = [t EXCEPT !.saver = TRUE, !.saverTimer = TRUE,
                                                      !.minimized = TRUE]]
      BY <2>5 DEF TestScreensaver, t
    <3> QED
      BY <2>1, <3>1 DEF TestOK
  <2>6. CASE TestScreensaverTimeout \/ TestScreensaverFinished
    <3>1. dialog' = [dialog EXCEPT !.test = [t EXCEPT !.saver = FALSE, !.saverTimer = FALSE,
                                                      !.minimized = FALSE]]
      BY <2>6 DEF TestScreensaverTimeout, TestScreensaverFinished, SaverEnds, t
    <3> QED
      BY <2>1, <3>1 DEF TestOK
  <2>7. CASE Restore
    <3>1. dialog' = [dialog EXCEPT !.test = [t EXCEPT !.minimized = FALSE]]
      BY <2>7 DEF Restore, t
    <3> QED
      BY <2>1, <3>1 DEF TestOK
  <2> QED
    BY <2>2, <2>3, <2>4, <2>5, <2>6, <2>7
<1>4. DialogTyped(dialog')
  BY <1>3 DEF TypeIInv, DialogTyped
<1> QED
  BY <1>1, <1>2, <1>4, SameTyped

LEMMA OthersTyped ==
  ASSUME TypeIInv,
         \/ TrayClick \/ OpenConfig \/ ResetDefaults \/ Calibrated \/ StartClient \/ DaemonMoves
  PROVE  TypeIInv'
<1>1. machine' = machine /\ client' \in BOOLEAN
  BY DEF TrayClick, OpenConfig, ResetDefaults, Calibrated, StartClient, DaemonMoves, TypeIInv
<1>2. events' \in 0..EventBound
  BY ActsTyped DEF TrayClick, OpenConfig, ResetDefaults, Calibrated, StartClient, DaemonMoves
<1>3. PopupTyped(popup')
  <2>1. popup' = popup \/ \E b \in BOOLEAN : popup' = [visible |-> b, open |-> b]
    BY DEF TrayClick, OpenConfig, ResetDefaults, Calibrated, StartClient, DaemonMoves
  <2> QED
    BY <2>1 DEF TypeIInv, PopupTyped
<1>4. DaemonTyped(daemon')
  <2>1. CASE DaemonMoves
    <3>1. daemon' = [daemon EXCEPT !.up = ~@, !.eco = 40] /\ 40 \in 20..80
      BY <2>1 DEF DaemonMoves
    <3> QED
      BY <3>1 DEF TypeIInv, DaemonTyped
  <2>2. CASE ~DaemonMoves
    <3>1. daemon' = daemon \/ daemon' = Told(config')
      BY <2>2 DEF TrayClick, OpenConfig, ResetDefaults, Calibrated, StartClient
    <3> QED
      BY <3>1, ToldInRange DEF TypeIInv
  <2> QED
    BY <2>1, <2>2
<1>5. SettingsTyped(config', file')
  <2>1. CASE TrayClick \/ OpenConfig \/ DaemonMoves
    BY <2>1 DEF TrayClick, OpenConfig, DaemonMoves, TypeIInv
  <2>2. CASE ResetDefaults
    BY <2>2, NewWidgetsInRange DEF ResetDefaults, TypeIInv, SettingsTyped
  <2>3. CASE Calibrated
    <3> DEFINE c == [config EXCEPT !.last_calibration = 1]
    <3>1. Complete(c) /\ Capped(c)
      BY DEF TypeIInv, SettingsTyped, Complete, Capped, Caps
    <3>2. config' = c /\ file' = Save(c)
      BY <2>3 DEF Calibrated
    <3> HIDE DEF c
    <3> QED
      BY <3>1, <3>2, SaveCapped DEF SettingsTyped
  <2>4. CASE StartClient
    <3>1. config' = Load(file) /\ file' = file
      BY <2>4 DEF StartClient
    <3> QED
      BY <3>1, LoadCapped DEF TypeIInv, SettingsTyped
  <2> QED
    BY <2>1, <2>2, <2>3, <2>4
<1>6. DialogTyped(dialog')
  <2>1. CASE dialog' = dialog
    BY <2>1 DEF TypeIInv
  <2>2. CASE OpenConfig
    <3> DEFINE widgets == LoadConfigValues(config, NewWidgets)
    <3>1. InRange(widgets)
      BY LoadedInRange, NewWidgetsInRange DEF TypeIInv, SettingsTyped
    <3> HIDE DEF widgets
    <3>2. dialog' = [open |-> TRUE, widgets |-> widgets, test |-> NoTest]
      BY <2>2 DEF OpenConfig, Closed, widgets
    <3> QED
      BY <3>1, <3>2 DEF NoTest, TestOK, DialogTyped
  <2>3. CASE ResetDefaults
    <3> DEFINE widgets == LoadConfigValues(Defaults, dialog.widgets)
    <3>1. InRange(widgets)
      BY LoadedInRange, NewWidgetsInRange DEF TypeIInv, DialogTyped
    <3>2. dialog' = [dialog EXCEPT !.widgets = widgets]
      BY <2>3 DEF ResetDefaults
    <3> HIDE DEF widgets
    <3> QED
      BY <3>1, <3>2 DEF TypeIInv, DialogTyped
  <2> QED
    BY <2>1, <2>2, <2>3 DEF TrayClick, Calibrated, StartClient, DaemonMoves
<1> QED
  BY <1>1, <1>2, <1>3, <1>4, <1>5, <1>6 DEF TypeIInv

\* Whatever the file says of the limit, the cap and the screensaver, and whatever is entered:
\* no widget shows what is out of its range or its list, and the daemon has a cap and a
\* limit that it would take.
THEOREM SettingsTypes == Spec => []TypeOK
<1>1. Init => TypeIInv
  <2> SUFFICES ASSUME Init PROVE TypeIInv
    OBVIOUS
  <2>1. DOMAIN file \subseteq Keys /\ Capped(file)
    BY SettingsAssumption DEF Init, Capped, Caps
  <2>2. Complete(config) /\ Capped(config)
    BY <2>1, LoadCapped DEF Init
  <2>3. DialogTyped(dialog)
    BY ClosedDialogTyped DEF Init
  <2>4. DaemonTyped(daemon)
    BY DEF Init, DaemonTyped
  <2>5. events \in 0..EventBound
    BY SettingsAssumption DEF Init
  <2>6. PopupTyped(popup)
    BY HiddenPopupTyped DEF Init
  <2>7. client \in BOOLEAN
    BY Zenon DEF Init
  <2>8. machine \in Machines
    BY DEF Init
  <2> QED
    BY <2>1, <2>2, <2>3, <2>4, <2>5, <2>6, <2>7, <2>8 DEF TypeIInv, SettingsTyped
<1>2. TypeIInv /\ [Next]_vars => TypeIInv'
  <2> SUFFICES ASSUME TypeIInv, [Next]_vars PROVE TypeIInv'
    OBVIOUS
  <2>1. CASE UNCHANGED vars
    BY <2>1, SameTyped DEF vars, TypeIInv
  <2>2. CASE Next
    BY <2>2, EditsTyped, ClosingTyped, TestsTyped, OthersTyped DEF Next
  <2> QED
    BY <2>1, <2>2
<1>3. TypeIInv => TypeOK
  BY DEF TypeIInv, DialogTyped, InRange, Complete, TestOK, PopupTyped, DaemonTyped,
         SettingsTyped, TypeOK
<1> QED
  BY <1>1, <1>2, <1>3, PTL DEF Spec
====
