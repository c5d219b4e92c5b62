----------------------------- MODULE ScreenProofs -----------------------------
(***************************************************************************)
(* Proofs about Screen, for every configuration, backlight, timeout and    *)
(* number of steps, for any events and as many loops inside each other as  *)
(* there may be.                                                           *)
(*                                                                         *)
(* The invariant speaks about the members between two handlers, but a      *)
(* handler is made of smaller ones that run in states of their own.  So    *)
(* its parts are predicates of a record of members m, with what they need  *)
(* of the rest as parameters: p, whether a sleep is under way; w, how low  *)
(* the charge may be taken to be; d, the idle time there was.  There is    *)
(* one lemma for each handler and helper of Screen, which says what of it  *)
(* is kept, and one step for each action.                                  *)
(***************************************************************************)
EXTENDS Screen, SequenceTheorems, TLAPS

\* The members, see Fresh.
Members ==
  {"config", "chargingState", "warning", "idleTimer", "mprisTimer", "transitionTimer",
   "glibTimer", "backlight", "originalBrightness", "fade", "transitionInProgress",
   "backlightReduced", "screenSleeping", "screensaverActive", "prevIdleTime", "justWokeUp",
   "presentationMode", "mediaPlaying", "mediaPlayingType", "actionInProgress", "lidOpen",
   "lastLidState", "inPowernap", "wifiCheckCounter", "useWifiOverlay", "wifiOverlay",
   "retries", "hides", "reacquires", "lockDue", "saver", "overlay", "sleepTransitionDone",
   "waiting", "delayLock", "asked", "idle", "since", "wanted", "mishaps"}

\* What waits for an effect to be over.
Continuations == [next : {"logind", "others", "sleep", "shutdown"}, seen : Int]

\* The display is off or covered; or it is dimmed, at least.
Dark(m) == m.screenSleeping \/ m.screensaverActive
Away(m) == m.backlightReduced \/ Dark(m)

\* Types, and that a display that is off is not covered.
Typed(m) ==
  /\ DOMAIN m = Members
  /\ m.config \in {s.config : s \in Scenarios}
  /\ m.chargingState \in {0, 1} /\ m.warning \in 0..2
  /\ m.idleTimer \in BOOLEAN /\ m.transitionTimer \in BOOLEAN /\ m.glibTimer \in BOOLEAN
  /\ m.transitionInProgress \in BOOLEAN /\ m.backlightReduced \in BOOLEAN
  /\ m.screenSleeping \in BOOLEAN /\ m.screensaverActive \in BOOLEAN
  /\ ~m.screenSleeping \/ ~m.screensaverActive
  /\ m.justWokeUp \in BOOLEAN /\ m.presentationMode \in BOOLEAN
  /\ m.actionInProgress \in BOOLEAN /\ m.inPowernap \in BOOLEAN
  /\ m.mediaPlaying \in BOOLEAN
  /\ m.useWifiOverlay \in BOOLEAN /\ m.wifiOverlay \in BOOLEAN /\ m.lockDue \in BOOLEAN
  /\ m.sleepTransitionDone \in BOOLEAN /\ m.delayLock \in BOOLEAN
  /\ m.backlight \in 1..Backlight /\ m.originalBrightness \in 1..Backlight
  /\ m.wanted \in 1..Backlight
  /\ m.fade \in [from : Int, to : Int, step : Int]
  /\ m.prevIdleTime \in Int /\ m.idle \in 0..MaxIdle /\ m.since \in 0..WakeCap
  /\ m.retries \in Nat /\ m.hides \in Nat /\ m.reacquires \in Nat
  /\ m.waiting \in Seq(Continuations)
  /\ m.asked \in {"no", "sleep", "shutdown"}

\* One of those waits for an effect to be over.
Awaits(waiting, nexts) == \E i \in DOMAIN waiting : waiting[i].next \in nexts

\* A sleep is under way, or just asked for.
UnderWay(m, p) == p \/ m.asked # "no"

\* There is, will be, or was a sleep: the effect may cover the screen.
Owed(m, p) ==
  \/ UnderWay(m, p)
  \/ "refused" \in m.mishaps \/ "dropped" \in m.mishaps
  \/ Awaits(m.waiting, {"logind", "sleep", "shutdown"})

\* A lock that is due and an overlay on the screen have a timer that sees to them.
Locking(m) ==
  /\ m.lockDue => m.retries > 0
  /\ m.wifiOverlay /\ m.useWifiOverlay => m.retries > 0 \/ m.hides > 0

\* The flag of a fade and its timer go together, unless a fade is cut or an effect plays.
Fading(m) ==
  /\ m.transitionInProgress =>
       m.transitionTimer \/ m.waiting # <<>> \/ "cut" \in m.mishaps
  /\ m.transitionTimer => m.transitionInProgress \/ "cut" \in m.mishaps

\* What a sleep leaves behind it has somebody to put it right: the flag of an action, the
\* effect on the screen, the delay lock, the loops.
Sleeping(m, p) ==
  /\ m.actionInProgress => UnderWay(m, p) \/ Awaits(m.waiting, {"logind"})
  /\ m.overlay # "none" => Owed(m, p)
  /\ m.config.intercept => m.delayLock \/ m.reacquires > 0 \/ Owed(m, p)
  /\ Awaits(m.waiting, {"others"}) => Owed(m, p) \/ (m.sleepTransitionDone /\ m.reacquires > 0)
  /\ m.waiting # <<>> /\ m.glibTimer => m.sleepTransitionDone

\* The checks are left off by one of these.
Forgotten(mishaps) == "refused" \in mishaps \/ "called off" \in mishaps

\* The checks run, or there is a reason why not.
Watching(m, p) ==
  \/ m.idleTimer \/ m.presentationMode \/ m.inPowernap
  \/ UnderWay(m, p) \/ Awaits(m.waiting, {"logind"}) \/ Forgotten(m.mishaps)

\* What made the screen as dark as it is.
Timeout(m) == IF Dark(m) THEN Timeouts(m).sleep ELSE Timeouts(m).reduce

\* Warnings, loops and idle time only make timeouts shorter or idle times longer.
Heeding(m, w) ==
  /\ m.warning <= w[m.chargingState]
  /\ \A i \in DOMAIN m.waiting :
       m.waiting[i].seen = -1 \/ m.waiting[i].seen >= m.config.system
  /\ Away(m) /\ "unseen" \notin m.mishaps => m.idle = 0 \/ IdleTime(m) >= Timeout(m)

\* A client that just woke up has lit the screen.
Waking(m) == m.justWokeUp => ~Away(m)

Noticing(m, w) == Heeding(m, w) /\ Waking(m)

\* A check goes on once an effect is over; it will remember the idle time it has seen.
Resumes(waiting) ==
  \E i \in DOMAIN waiting : waiting[i].next = "logind" /\ waiting[i].seen # -1

\* The last idle time seen is past what made the screen dark, or will be.
Remembering(m) ==
  Away(m) /\ "unseen" \notin m.mishaps =>
    m.prevIdleTime >= Timeout(m) \/ Resumes(m.waiting)

\* The brightness is what is wanted, remembered, or about to be.
Lighting(m) ==
  "cut" \notin m.mishaps /\ "overruled" \notin m.mishaps =>
    /\ Away(m) => m.originalBrightness = m.wanted
    /\ ~Away(m) /\ m.transitionTimer => Clamped(m.fade.to) = m.wanted /\ IdleTime(m) = 0
    /\ ~Away(m) /\ ~m.transitionTimer => m.backlight = m.wanted

\* How low the charge can be taken to be, on battery (0) and on mains (1).
Limits == [state \in 0..1 |-> IF state = 0 THEN world.warning ELSE 0]

\* The machine goes to sleep, sleeps, or is awake and logind has yet to say so.
SleepUnderWay == machine # "awake" \/ \E i \in DOMAIN signals : ~signals[i]

\* After each word that the machine goes to sleep comes the one that it is awake.
SignalsPaired ==
  \A i \in DOMAIN signals :
    signals[i] => machine # "awake" \/ \E j \in DOMAIN signals : i < j /\ ~signals[j]

\* The inductive invariant.
IInv ==
  /\ Typed(gui) /\ gui.asked = "no"
  /\ Locking(gui) /\ Fading(gui) /\ Sleeping(gui, SleepUnderWay)
  /\ Watching(gui, SleepUnderWay) /\ Noticing(gui, Limits)
  /\ Remembering(gui) /\ Lighting(gui)
  /\ world.mains \in {0, 1} /\ world.warning \in 0..2
  /\ signals \in Seq(BOOLEAN) /\ SignalsPaired

\* The idle time there was, if the screen is dark.
Late(m, d) == Dark(m) => Timeouts(m).sleep <= d

\* All that holds within a handler but for the lock and what is remembered.
Base(m, p, w, d) ==
  /\ Typed(m)
  /\ Fading(m) /\ Sleeping(m, p) /\ Noticing(m, w) /\ Lighting(m)
  /\ Late(m, d)

\* All that holds within a handler.
Sound(m, p, w, d) == Base(m, p, w, d) /\ Locking(m) /\ Remembering(m)

\* The same but for the flag of a wake-up.
Rest(m, p, w, d) ==
  /\ Typed(m)
  /\ Fading(m) /\ Sleeping(m, p) /\ Heeding(m, w) /\ Lighting(m)
  /\ Late(m, d)

Held(m, p, w, d) == Rest(m, p, w, d) /\ Locking(m) /\ Remembering(m)

\* All that holds between handlers.
Kept(m, p, w, d) == Sound(m, p, w, d) /\ Watching(m, p)

-----------------------------------------------------------------------------
(* Numbers. *)

\* The greater of two numbers.
LEMMA MaxOfTwo ==
  ASSUME NEW a \in Int, NEW b \in Int
  PROVE  Max({a, b}) = IF a >= b THEN a ELSE b
<1> DEFINE top == IF a >= b THEN a ELSE b
<1>1. top \in {a, b} /\ \A y \in {a, b} : top >= y
  OBVIOUS
<1>2. \A x \in {a, b} : (\A y \in {a, b} : x >= y) => x = top
  OBVIOUS
<1> HIDE DEF top
<1> QED
  BY <1>1, <1>2 DEF Max

\* A greater number has a greater maximum with 1.
LEMMA MaxRises ==
  ASSUME NEW a \in Int, NEW b \in Int, a <= b
  PROVE  Max({1, a}) <= Max({1, b})
<1>1. Max({1, a}) = IF 1 >= a THEN 1 ELSE a
  BY MaxOfTwo
<1>2. Max({1, b}) = IF 1 >= b THEN 1 ELSE b
  BY MaxOfTwo
<1> QED
  BY <1>1, <1>2

\* The lesser of two numbers.
LEMMA MinOfTwo ==
  ASSUME NEW a \in Int, NEW b \in Int
  PROVE  Min({a, b}) = IF a <= b THEN a ELSE b
<1> DEFINE low == IF a <= b THEN a ELSE b
<1>1. low \in {a, b} /\ \A y \in {a, b} : low <= y
  OBVIOUS
<1>2. \A x \in {a, b} : (\A y \in {a, b} : x <= y) => x = low
  OBVIOUS
<1> HIDE DEF low
<1> QED
  BY <1>1, <1>2 DEF Min

\* The constants are the numbers they should be.
LEMMA Sizes ==
  /\ Backlight \in Nat \ {0} /\ TRANSITION_STEPS \in Nat \ {0} /\ Step \in Nat \ {0}
  /\ WakeCap \in Nat /\ MaxIdle \in Nat
  /\ \A raw \in 1..Backlight : raw \in Int
BY ScreenAssumption

\* What is written to the backlight is in its range, and it reads back as what was written.
LEMMA ClampedFits ==
  ASSUME NEW raw \in Int
  PROVE  /\ Clamped(raw) \in 1..Backlight
         /\ raw \in 1..Backlight => Clamped(raw) = raw
<1>1. Backlight \in Nat \ {0}
  BY ScreenAssumption
<1>2. Min({raw, Backlight}) = IF raw <= Backlight THEN raw ELSE Backlight
  BY <1>1, MinOfTwo
<1>3. Clamped(raw) = IF 1 >= Min({raw, Backlight}) THEN 1 ELSE Min({raw, Backlight})
  BY <1>1, <1>2, MaxOfTwo DEF Clamped
<1> QED
  BY <1>1, <1>2, <1>3

\* A configuration has its type, and its timeouts are in order.
LEMMA ConfigFacts ==
  ASSUME NEW c \in {s.config : s \in Scenarios}
  PROVE  /\ c \in ConfigType
         /\ 1 <= c.reduce /\ c.reduce <= c.sleep /\ c.sleep <= c.system
<1>1. PICK s \in Scenarios : c = s.config
  OBVIOUS
<1>2. s \in ScenarioType
  BY ScreenAssumption
<1> QED
  BY <1>1, <1>2, ScreenAssumption DEF ScenarioType

\* What a warning divides by shrinks with the warning, and keeps the order of timeouts.
LEMMA Divided ==
  ASSUME NEW k \in 0..2, NEW t \in Nat
  PROVE  /\ t \div (k + 1) \in Nat /\ t \div (k + 1) <= t
         /\ \A u \in Nat : t <= u => t \div (k + 1) <= u \div (k + 1)
         /\ \A j \in 0..k : t \div (k + 1) <= t \div (j + 1)
<1>1. \A j \in 0..2 : \A u \in Nat :
         u \div (j + 1) = CASE j = 0 -> u \div 1 [] j = 1 -> u \div 2 [] OTHER -> u \div 3
  OBVIOUS
<1>2. \A u \in Nat : /\ u \div 1 \in Nat /\ u \div 2 \in Nat /\ u \div 3 \in Nat
                     /\ u \div 1 = u /\ u \div 2 <= u /\ u \div 3 <= u \div 2
  OBVIOUS
<1>3. \A u \in Nat : t <= u => t \div 2 <= u \div 2 /\ t \div 3 <= u \div 3
  OBVIOUS
<1> QED
  BY <1>1, <1>2, <1>3

\* The timeouts are positive and in order, whatever the warning.
LEMMA TimeoutFacts ==
  ASSUME NEW m, m.config \in {s.config : s \in Scenarios}, m.warning \in 0..2
  PROVE  /\ Timeouts(m).reduce \in Nat \ {0} /\ Timeouts(m).sleep \in Nat \ {0}
         /\ Timeouts(m).system \in Nat
         /\ Timeouts(m).reduce <= Timeouts(m).sleep /\ Timeouts(m).sleep <= Timeouts(m).system
         /\ Timeouts(m).system = m.config.system
<1> DEFINE c == m.config
           Short(t) == IF c.auto THEN Max({1, t \div (m.warning + 1)}) ELSE t
<1>1. /\ c.reduce \in Nat /\ c.sleep \in Nat /\ c.system \in Nat /\ c.auto \in BOOLEAN
      /\ 1 <= c.reduce /\ c.reduce <= c.sleep /\ c.sleep <= c.system
  BY ConfigFacts DEF ConfigType
<1>2. \A t \in Nat : /\ t \div (m.warning + 1) \in Nat /\ t \div (m.warning + 1) <= t
  BY Divided
<1> DEFINE Cut(t) == t \div (m.warning + 1)
<1>a. \A t \in Nat : Short(t) = IF c.auto THEN Max({1, Cut(t)}) ELSE t
  OBVIOUS
<1>b. \A t \in Nat : Cut(t) \in Nat /\ Cut(t) <= t
  BY <1>2
<1>c. Cut(c.reduce) <= Cut(c.sleep)
  BY <1>1, Divided
<1> HIDE DEF Cut, Short
<1>d. \A t \in Nat : Short(t) = IF c.auto THEN (IF 1 >= Cut(t) THEN 1 ELSE Cut(t)) ELSE t
  <2> TAKE t \in Nat
  <2>1. Max({1, Cut(t)}) = IF 1 >= Cut(t) THEN 1 ELSE Cut(t)
    BY <1>b, MaxOfTwo
  <2> QED
    BY <1>a, <2>1
<1>3. \A t \in Nat \ {0} : Short(t) \in Nat \ {0} /\ Short(t) <= t
  BY <1>b, <1>d
<1>5. Short(c.reduce) <= Short(c.sleep)
  BY <1>1, <1>b, <1>c, <1>d
<1>6. Timeouts(m) = [reduce |-> Short(c.reduce), sleep |-> Short(c.sleep), system |-> c.system]
  BY DEF Timeouts, Short, Cut
<1> QED
  BY <1>1, <1>3, <1>5, <1>6

\* A warning makes the timeout no longer than configured.
LEMMA SleepShortens ==
  ASSUME NEW m, m.config \in {s.config : s \in Scenarios}, m.warning \in 0..2
  PROVE  Timeouts(m).sleep <= m.config.sleep
<1> DEFINE t == m.config.sleep
           cut == t \div (m.warning + 1)
<1>1. t \in Nat /\ 1 <= t
  BY ConfigFacts DEF ConfigType
<1>2. cut \in Nat /\ cut <= t
  BY <1>1, Divided
<1>3. Timeouts(m).sleep = IF m.config.auto THEN Max({1, cut}) ELSE t
  BY DEF Timeouts
<1> HIDE DEF cut
<1>4. Max({1, cut}) = IF 1 >= cut THEN 1 ELSE cut
  BY <1>2, MaxOfTwo
<1> QED
  BY <1>1, <1>2, <1>3, <1>4

\* A warning shortens the timeouts.
LEMMA TimeoutsShorten ==
  ASSUME NEW m, m.config \in {s.config : s \in Scenarios}, m.warning \in 0..2,
         NEW n, n.config = m.config, n.warning \in 0..2, m.warning <= n.warning
  PROVE  /\ Timeouts(n).reduce <= Timeouts(m).reduce
         /\ Timeouts(n).sleep <= Timeouts(m).sleep
<1> DEFINE c == m.config
           Old(t) == t \div (m.warning + 1)
           New(t) == t \div (n.warning + 1)
<1>1. c.reduce \in Nat /\ c.sleep \in Nat
  BY ConfigFacts DEF ConfigType
<1>2. \A t \in Nat : Old(t) \in Nat /\ New(t) \in Nat /\ New(t) <= Old(t)
  BY Divided
<1>3. /\ Timeouts(m).reduce = IF c.auto THEN Max({1, Old(c.reduce)}) ELSE c.reduce
      /\ Timeouts(m).sleep = IF c.auto THEN Max({1, Old(c.sleep)}) ELSE c.sleep
      /\ Timeouts(n).reduce = IF c.auto THEN Max({1, New(c.reduce)}) ELSE c.reduce
      /\ Timeouts(n).sleep = IF c.auto THEN Max({1, New(c.sleep)}) ELSE c.sleep
  BY DEF Timeouts
<1> HIDE DEF Old, New, c
<1>5. \A t \in Nat : Max({1, New(t)}) <= Max({1, Old(t)}) /\ t <= t
  <2> TAKE t \in Nat
  <2>1. Old(t) \in Int /\ New(t) \in Int /\ New(t) <= Old(t)
    BY <1>2
  <2> QED
    BY <2>1, MaxRises
<1>6. /\ Max({1, New(c.reduce)}) <= Max({1, Old(c.reduce)}) /\ c.reduce <= c.reduce
      /\ Max({1, New(c.sleep)}) <= Max({1, Old(c.sleep)}) /\ c.sleep <= c.sleep
  BY <1>1, <1>5
<1>7. CASE c.auto
  BY <1>3, <1>6, <1>7
<1>8. CASE ~c.auto
  BY <1>3, <1>6, <1>8
<1> QED
  BY <1>7, <1>8

-----------------------------------------------------------------------------
(* The backlight. *)

\* A brightness at once, or a fade from here: the fade that was on its way is gone.
LEMMA Immediately ==
  ASSUME NEW m, DOMAIN m = Members, NEW raw, NEW force \in BOOLEAN
  PROVE  SetBrightnessImmediate(m, raw, force) =
           IF force
             THEN [m EXCEPT !.transitionInProgress =
                              IF m.transitionInProgress THEN FALSE ELSE m.transitionInProgress,
                            !.transitionTimer =
                              IF m.transitionInProgress THEN FALSE ELSE m.transitionTimer,
                            !.backlight = Clamped(raw)]
             ELSE [m EXCEPT !.transitionInProgress = TRUE, !.transitionTimer = TRUE,
                            !.fade = [from |-> m.backlight, to |-> Clamped(raw), step |-> 0]]
  BY DEF SetBrightnessImmediate, StartBrightnessTransition, SetBrightness, Members


\* A step of a fade.
LEMMA FadeStepKeeps ==
  ASSUME NEW m, NEW p \in BOOLEAN, NEW w, NEW d \in Int, Kept(m, p, w, d),
         m.transitionTimer
  PROVE  Kept(UpdateBrightnessTransition(m), p, w, d)
<1> DEFINE step == m.fade.step + 1
           over == step >= TRANSITION_STEPS
           raw == m.fade.from + ((m.fade.to - m.fade.from) * step) \div TRANSITION_STEPS
           to == IF over THEN m.fade.to ELSE raw
           still == [m EXCEPT !.transitionTimer = FALSE]
           moved == [m EXCEPT !.backlight = Clamped(to), !.fade.step = step,
                              !.transitionInProgress = ~over, !.transitionTimer = ~over]
           n == UpdateBrightnessTransition(m)
<1>1. UpdateBrightnessTransition(m) = IF ~m.transitionInProgress THEN still ELSE moved
  BY DEF UpdateBrightnessTransition, SetBrightness, Kept, Sound, Base, Late, Typed, Locking,
      Fading, Sleeping, Noticing, Heeding, Waking, Remembering, Lighting, Dark, Away, Owed,
      UnderWay, Timeout, Timeouts, IdleTime, Members
<1>2. to \in Int /\ step \in Int /\ Clamped(to) \in 1..Backlight
  <2>1. TRANSITION_STEPS \in Nat \ {0}
    BY ScreenAssumption
  <2>2. m.fade.from \in Int /\ m.fade.to \in Int /\ step \in Int
    BY SMTT(30) DEF Kept, Sound, Base, Typed
  <2>3. (m.fade.to - m.fade.from) * step \in Int
    BY <2>2
  <2>4. raw \in Int
    BY <2>1, <2>2, <2>3
  <2> QED
    BY <2>2, <2>4, ClampedFits
<1>3. over => to = m.fade.to
  OBVIOUS
<1>4. over \in BOOLEAN
  BY <1>2, ScreenAssumption
<1> HIDE DEF to, step, over
<1>5. CASE ~m.transitionInProgress
  <2>1. n = still
    BY <1>1, <1>5
  <2>2. Sound(still, p, w, d)
    BY <1>5 DEF Kept, Sound, Base, Late, Typed, Locking, Fading, Sleeping, Noticing,
        Heeding, Waking, Remembering, Lighting, Dark, Away, Owed, UnderWay, Timeout,
        Timeouts, IdleTime, Members
  <2>3. Watching(still, p)
    BY DEF Kept, Watching, Sound, Base, Typed, Members, UnderWay
  <2> QED
    BY <2>1, <2>2, <2>3 DEF Kept
<1>6. CASE m.transitionInProgress
  <2>1. n = moved
    BY <1>1, <1>6
  <2>2. Typed(moved)
    <3>1. m.fade \in [from : Int, to : Int, step : Int] /\ DOMAIN m = Members
      BY DEF Kept, Sound, Base, Typed
    <3>2. [m.fade EXCEPT !.step = step] \in [from : Int, to : Int, step : Int]
      BY <1>2, <3>1
    <3>3. moved.fade = [m.fade EXCEPT !.step = step]
      BY <3>1 DEF Members
    <3> QED
      BY <1>2, <1>4, <3>2, <3>3 DEF Kept, Sound, Base, Typed, Members
  <2>3. /\ Locking(moved) /\ Fading(moved) /\ Sleeping(moved, p) /\ Noticing(moved, w)
        /\ Remembering(moved)
        /\ Late(moved, d)
    BY <1>4, <1>6 DEF Kept, Sound, Base, Late, Typed, Locking, Fading, Sleeping, Noticing,
        Heeding, Waking, Remembering, Lighting, Dark, Away, Owed, UnderWay, Timeout,
        Timeouts, IdleTime, Members
  <2>4. Lighting(moved)
    <3>1. moved.fade.to = m.fade.to
      BY DEF Kept, Sound, Base, Typed, Members
    <3> QED
      BY ZenonT(30), <1>3, <1>4, <1>6, <3>1 DEF Kept, Sound, Base, Late, Typed, Locking, Fading,
          Sleeping, Noticing, Heeding, Waking, Remembering, Lighting, Dark, Away, Owed,
          UnderWay, Timeout, Timeouts, IdleTime, Members
  <2>5. Watching(moved, p)
    BY DEF Kept, Watching, Sound, Base, Typed, Members, UnderWay
  <2> QED
    BY <2>1, <2>2, <2>3, <2>4, <2>5 DEF Kept, Sound, Base
<1> QED
  BY <1>5, <1>6


-----------------------------------------------------------------------------
(* The session lock. *)

\* wokeUp takes away what covers the screen, and nothing else.
LEMMA WokeUpHolds ==
  ASSUME NEW m, NEW p \in BOOLEAN, NEW w, NEW d \in Int, Held(m, p, w, d)
  PROVE  LET n == WokeUp(m)
         IN /\ Held(n, p, w, d)
            /\ Waking(m) => Waking(n)
            /\ Watching(m, p) => Watching(n, p)
<1> DEFINE n == [m EXCEPT !.overlay = "none", !.saver = "none"]
<1>1. WokeUp(m) = n
  BY DEF WokeUp, DismissScreensaver, Held, Rest, Sound, Base, Late, Typed, Locking, Fading,
      Sleeping, Noticing, Heeding, Waking, Remembering, Lighting, Dark, Away, Owed,
      UnderWay, Timeout, Timeouts, IdleTime, Members
<1>2. Held(n, p, w, d) /\ (Waking(m) => Waking(n))
  BY DEF Held, Rest, Sound, Base, Late, Typed, Locking, Fading, Sleeping, Noticing, Heeding,
      Waking, Remembering, Lighting, Dark, Away, Owed, UnderWay, Timeout, Timeouts,
      IdleTime, Members
<1>3. Watching(m, p) => Watching(n, p)
  BY DEF Watching, Held, Rest, Typed, Members, UnderWay
<1> QED
  BY <1>1, <1>2, <1>3

\* The same for all of Sound.
LEMMA WokeUpKeeps ==
  ASSUME NEW m, NEW p \in BOOLEAN, NEW w, NEW d \in Int, Sound(m, p, w, d)
  PROVE  /\ Sound(WokeUp(m), p, w, d)
         /\ Watching(m, p) => Watching(WokeUp(m), p)
<1>1. Held(m, p, w, d) /\ Waking(m)
  BY DEF Sound, Base, Held, Rest, Noticing
<1> QED
  BY <1>1, WokeUpHolds DEF Sound, Base, Held, Rest, Noticing

\* The ways in which a check of the Wi-Fi ends.
LEMMA LockEnds ==
  ASSUME NEW m, NEW p \in BOOLEAN, NEW w, NEW d \in Int,
         Rest(m, p, w, d), Remembering(m)
  PROVE  LET Good(r) == /\ Held(r, p, w, d)
                        /\ Waking(m) => Waking(r)
                        /\ Watching(m, p) => Watching(r, p)
             locked == [m EXCEPT !.lockDue = FALSE]
         IN /\ Good([m EXCEPT !.wifiCheckCounter = @ + 1, !.retries = @ + 1])
            /\ Good([m EXCEPT !.lockDue = FALSE, !.wifiOverlay = FALSE])
            /\ Good([locked EXCEPT !.hides = @ + 1])
            /\ ~m.useWifiOverlay =>
                 /\ Good(locked)
                 /\ Good([locked EXCEPT !.wifiOverlay = FALSE])
                 /\ Good([m EXCEPT !.lockDue = FALSE, !.wifiOverlay = m.wifiOverlay])
<1> DEFINE Good(r) == /\ Held(r, p, w, d)
                      /\ Waking(m) => Waking(r)
                      /\ Watching(m, p) => Watching(r, p)
           locked == [m EXCEPT !.lockDue = FALSE]
<1>1. Good([m EXCEPT !.wifiCheckCounter = @ + 1, !.retries = @ + 1])
  BY SMTT(30) DEF Watching, Held, Rest, Sound, Base, Late, Typed, Locking, Fading, Sleeping,
      Noticing, Heeding, Waking, Remembering, Lighting, Dark, Away, Owed, UnderWay, Timeout,
      Timeouts, IdleTime, Members
<1>2. Good([m EXCEPT !.lockDue = FALSE, !.wifiOverlay = FALSE])
  BY DEF Watching, Held, Rest, Sound, Base, Late, Typed, Locking, Fading, Sleeping,
      Noticing, Heeding, Waking, Remembering, Lighting, Dark, Away, Owed, UnderWay, Timeout,
      Timeouts, IdleTime, Members
<1>3. Good([locked EXCEPT !.hides = @ + 1])
  BY DEF Watching, Held, Rest, Sound, Base, Late, Typed, Locking, Fading, Sleeping,
      Noticing, Heeding, Waking, Remembering, Lighting, Dark, Away, Owed, UnderWay, Timeout,
      Timeouts, IdleTime, Members
<1>4. ASSUME ~m.useWifiOverlay
      PROVE  /\ Good(locked)
             /\ Good([locked EXCEPT !.wifiOverlay = FALSE])
             /\ Good([m EXCEPT !.lockDue = FALSE, !.wifiOverlay = m.wifiOverlay])
  BY <1>4 DEF Watching, Held, Rest, Sound, Base, Late, Typed, Locking, Fading, Sleeping,
      Noticing, Heeding, Waking, Remembering, Lighting, Dark, Away, Owed, UnderWay, Timeout,
      Timeouts, IdleTime, Members
<1> QED
  BY <1>1, <1>2, <1>3, <1>4

\* Whatever the Wi-Fi says, the lock is no longer due or will be tried again.
LEMMA CheckWifiKeeps ==
  ASSUME NEW m, NEW p \in BOOLEAN, NEW w, NEW d \in Int,
         Rest(m, p, w, d), Remembering(m),
         NEW net
  PROVE  LET n == CheckWifiAndLock(m, net)
         IN /\ Held(n, p, w, d)
            /\ Waking(m) => Waking(n)
            /\ Watching(m, p) => Watching(n, p)
<1> DEFINE n == CheckWifiAndLock(m, net)
           Good(r) == /\ Held(r, p, w, d)
                      /\ Waking(m) => Waking(r)
                      /\ Watching(m, p) => Watching(r, p)
           shown == IF m.useWifiOverlay THEN [m EXCEPT !.wifiOverlay = TRUE] ELSE m
           locked == [shown EXCEPT !.lockDue = FALSE]
           again == [shown EXCEPT !.wifiCheckCounter = @ + 1, !.retries = @ + 1]
           trusted == [shown EXCEPT !.lockDue = FALSE, !.wifiOverlay = FALSE]
           kept == [shown EXCEPT !.lockDue = FALSE, !.wifiOverlay = shown.wifiOverlay]
           hiding == [locked EXCEPT !.hides = @ + 1]
           plain == [locked EXCEPT !.wifiOverlay = FALSE]
<1>1. /\ Rest(shown, p, w, d) /\ Remembering(shown)
      /\ Waking(m) => Waking(shown)
      /\ Watching(m, p) => Watching(shown, p)
  <2> DEFINE over == [m EXCEPT !.wifiOverlay = TRUE]
  <2>1. /\ Rest(over, p, w, d) /\ Remembering(over)
        /\ Waking(m) => Waking(over)
        /\ Watching(m, p) => Watching(over, p)
    BY DEF Watching, Held, Rest, Sound, Base, Late, Typed, Locking, Fading, Sleeping,
        Noticing, Heeding, Waking, Remembering, Lighting, Dark, Away, Owed, UnderWay,
        Timeout, Timeouts, IdleTime, Members
  <2>2. shown \in {m, over}
    OBVIOUS
  <2> HIDE DEF over, shown
  <2> QED
    BY <2>1, <2>2
<1>2. shown.useWifiOverlay = m.useWifiOverlay /\ shown.config = m.config
  BY DEF Rest, Typed, Members
<1>3. /\ m.useWifiOverlay => Lock(shown) = hiding
      /\ ~m.useWifiOverlay => Lock(shown) \in {WokeUp(plain), WokeUp(locked)}
  BY <1>1, <1>2 DEF Lock, LockScreenNow, Rest, Typed, Members
<1>4. /\ m.useWifiOverlay => n \in {WokeUp(trusted), again, Lock(shown)}
      /\ ~m.useWifiOverlay => n \in {WokeUp(kept), again, Lock(shown)}
  BY DEF CheckWifiAndLock
<1> HIDE DEF shown
<1>5. /\ Good(again) /\ Good(trusted) /\ Good(hiding)
      /\ ~m.useWifiOverlay => Good(locked) /\ Good(plain) /\ Good(kept)
  <2> DEFINE Fine(r) == /\ Held(r, p, w, d)
                        /\ Waking(shown) => Waking(r)
                        /\ Watching(shown, p) => Watching(r, p)
  <2>1. /\ Fine(again) /\ Fine(trusted) /\ Fine(hiding)
        /\ ~m.useWifiOverlay => Fine(locked) /\ Fine(plain) /\ Fine(kept)
    BY <1>1, <1>2, LockEnds
  <2> HIDE DEF again, trusted, kept, locked, hiding, plain, n
  <2> QED
    BY <1>1, <2>1
<1> HIDE DEF again, trusted, kept, locked, hiding, plain, n
<1>6. /\ Good(WokeUp(trusted))
      /\ ~m.useWifiOverlay => Good(WokeUp(kept)) /\ Good(WokeUp(locked)) /\ Good(WokeUp(plain))
  BY <1>5, WokeUpHolds
<1>7. CASE m.useWifiOverlay
  BY <1>3, <1>4, <1>5, <1>6, <1>7 DEF n
<1>8. CASE ~m.useWifiOverlay
  BY <1>3, <1>4, <1>5, <1>6, <1>8 DEF n
<1> QED
  BY <1>7, <1>8

\* lockScreen, also right after a wake-up, when the lock is due with no timer yet.
LEMMA LockScreenHolds ==
  ASSUME NEW m, NEW p \in BOOLEAN, NEW w, NEW d \in Int,
         Rest(m, p, w, d), Remembering(m),
         Locking(m) \/ ~m.actionInProgress,
         NEW overlay \in BOOLEAN, NEW net
  PROVE  LET n == LockScreen(m, overlay, net)
         IN /\ Held(n, p, w, d)
            /\ Waking(m) => Waking(n)
            /\ Watching(m, p) => Watching(n, p)
<1> DEFINE asking == [m EXCEPT !.useWifiOverlay = overlay, !.wifiCheckCounter = 0]
<1>1. LockScreen(m, overlay, net) =
        IF m.actionInProgress THEN m ELSE CheckWifiAndLock(asking, net)
  BY DEF LockScreen
<1>2. /\ Rest(asking, p, w, d) /\ Remembering(asking)
      /\ Waking(m) => Waking(asking)
      /\ Watching(m, p) => Watching(asking, p)
  BY DEF Watching, Held, Rest, Sound, Base, Late, Typed, Locking, Fading, Sleeping,
      Noticing, Heeding, Waking, Remembering, Lighting, Dark, Away, Owed, UnderWay, Timeout,
      Timeouts, IdleTime, Members
<1> HIDE DEF asking
<1>3. CASE m.actionInProgress
  BY <1>1, <1>3 DEF Held
<1>4. CASE ~m.actionInProgress
  <2> DEFINE n == CheckWifiAndLock(asking, net)
  <2>1. /\ Held(n, p, w, d)
        /\ Waking(asking) => Waking(n)
        /\ Watching(asking, p) => Watching(n, p)
    BY <1>2, CheckWifiKeeps
  <2> HIDE DEF n
  <2>2. LockScreen(m, overlay, net) = n
    BY <1>1, <1>4 DEF n
  <2> QED
    BY <1>2, <2>1, <2>2
<1> QED
  BY <1>3, <1>4 DEF Rest, Typed

\* The same for all of Sound.
LEMMA LockScreenKeeps ==
  ASSUME NEW m, NEW p \in BOOLEAN, NEW w, NEW d \in Int, Sound(m, p, w, d),
         NEW overlay \in BOOLEAN, NEW net
  PROVE  /\ Sound(LockScreen(m, overlay, net), p, w, d)
         /\ Watching(m, p) => Watching(LockScreen(m, overlay, net), p)
<1>1. Rest(m, p, w, d) /\ Remembering(m) /\ Locking(m) /\ Waking(m)
  BY DEF Sound, Base, Rest, Noticing
<1> DEFINE n == LockScreen(m, overlay, net)
<1>2. /\ Held(n, p, w, d)
      /\ Waking(m) => Waking(n)
      /\ Watching(m, p) => Watching(n, p)
  BY <1>1, LockScreenHolds
<1> HIDE DEF n
<1>3. Sound(n, p, w, d) /\ (Watching(m, p) => Watching(n, p))
  BY <1>1, <1>2 DEF Sound, Base, Held, Rest, Noticing
<1> QED
  BY <1>3 DEF n

-----------------------------------------------------------------------------
(* What waits for an effect to be over. *)

\* One more waits: what waited before still does.
LEMMA Pushed ==
  ASSUME NEW waiting \in Seq(Continuations), NEW c \in Continuations
  PROVE  LET more == Append(waiting, c)
         IN /\ more \in Seq(Continuations) /\ more # <<>>
            /\ \A i \in DOMAIN more : more[i] = c \/ \E j \in DOMAIN waiting : more[i] = waiting[j]
            /\ \A nexts : Awaits(more, nexts) <=> Awaits(waiting, nexts) \/ c.next \in nexts
            /\ Resumes(more) <=> Resumes(waiting) \/ (c.next = "logind" /\ c.seen # -1)
<1> DEFINE more == Append(waiting, c)
<1>1. /\ more \in Seq(Continuations) /\ Len(more) = Len(waiting) + 1
      /\ \A i \in 1..Len(waiting) : more[i] = waiting[i]
      /\ more[Len(waiting) + 1] = c
  BY AppendProperties
<1>2. Len(waiting) \in Nat /\ DOMAIN waiting = 1..Len(waiting) /\ DOMAIN more = 1..Len(more)
  BY <1>1
<1> HIDE DEF more
<1>3. \A i \in DOMAIN more : more[i] = c \/ (i \in DOMAIN waiting /\ more[i] = waiting[i])
  BY <1>1, <1>2
<1>4. /\ \A j \in DOMAIN waiting : j \in DOMAIN more /\ more[j] = waiting[j]
      /\ Len(more) \in DOMAIN more /\ more[Len(more)] = c
  BY <1>1, <1>2
<1>5. \A nexts : Awaits(more, nexts) <=> Awaits(waiting, nexts) \/ c.next \in nexts
  BY <1>3, <1>4 DEF Awaits
<1>6. Resumes(more) <=> Resumes(waiting) \/ (c.next = "logind" /\ c.seen # -1)
  BY <1>3, <1>4 DEF Resumes
<1>7. more # <<>>
  BY <1>1, <1>2
<1> QED
  BY <1>1, <1>3, <1>5, <1>6, <1>7 DEF more

\* The innermost goes on: the others still wait.
LEMMA Popped ==
  ASSUME NEW waiting \in Seq(Continuations), waiting # <<>>
  PROVE  LET less == SubSeq(waiting, 1, Len(waiting) - 1)
             last == waiting[Len(waiting)]
         IN /\ less \in Seq(Continuations) /\ last \in Continuations
            /\ Len(waiting) \in DOMAIN waiting
            /\ \A i \in DOMAIN less : i \in DOMAIN waiting /\ less[i] = waiting[i]
            /\ \A nexts : Awaits(waiting, nexts) <=> Awaits(less, nexts) \/ last.next \in nexts
            /\ Resumes(waiting) <=> Resumes(less) \/ (last.next = "logind" /\ last.seen # -1)
<1> DEFINE less == SubSeq(waiting, 1, Len(waiting) - 1)
           last == waiting[Len(waiting)]
<1>1. Len(waiting) \in Nat \ {0} /\ DOMAIN waiting = 1..Len(waiting)
  BY EmptySeq
<1>2. /\ less \in Seq(Continuations) /\ Len(less) = Len(waiting) - 1
      /\ \A i \in 1..Len(waiting) - 1 : less[i] = waiting[i]
  BY <1>1, SubSeqProperties
<1>3. DOMAIN less = 1..Len(waiting) - 1
  BY <1>2
<1>4. last \in Continuations /\ Len(waiting) \in DOMAIN waiting
  BY <1>1
<1> HIDE DEF less
<1>5. \A i \in DOMAIN less : i \in DOMAIN waiting /\ less[i] = waiting[i]
  BY <1>1, <1>2, <1>3
<1>6. \A i \in DOMAIN waiting : i = Len(waiting) \/ i \in DOMAIN less
  BY <1>1, <1>3
<1>7. \A nexts : Awaits(waiting, nexts) <=> Awaits(less, nexts) \/ last.next \in nexts
  BY <1>4, <1>5, <1>6 DEF Awaits
<1>8. Resumes(waiting) <=> Resumes(less) \/ (last.next = "logind" /\ last.seen # -1)
  BY <1>4, <1>5, <1>6 DEF Resumes
<1> QED
  BY <1>2, <1>4, <1>5, <1>7, <1>8 DEF less

-----------------------------------------------------------------------------
(* Going to sleep. *)

\* What is left of Base around a call to logind.
Loose(m, w, d) ==
  /\ Typed(m)
  /\ Fading(m) /\ Noticing(m, w) /\ Lighting(m)
  /\ Late(m, d)
  /\ m.waiting # <<>> /\ m.glibTimer => m.sleepTransitionDone

\* The idle time that a check has seen is past the timeouts, or what waits will bring one.
Seen(m, seen) ==
  IF seen = -1 THEN Remembering(m)
  ELSE Away(m) /\ "unseen" \notin m.mishaps => seen >= Timeout(m) \/ Resumes(m.waiting)

\* The end of a check.
LEMMA KeepWatchingKeeps ==
  ASSUME NEW m, NEW p \in BOOLEAN, NEW w, NEW d \in Int, NEW seen \in Int,
         Base(m, p, w, d), Locking(m), Seen(m, seen), seen = -1 => Watching(m, p)
  PROVE  Kept(KeepWatching(m, seen), p, w, d)
<1> DEFINE on == [m EXCEPT !.prevIdleTime = seen, !.idleTimer = TRUE]
           off == [m EXCEPT !.prevIdleTime = seen, !.idleTimer = FALSE, !.transitionTimer = FALSE]
           cut == [m EXCEPT !.prevIdleTime = seen, !.idleTimer = FALSE, !.transitionTimer = FALSE,
                            !.mishaps = @ \cup {"cut"}]
           n == KeepWatching(m, seen)
<1>1. /\ seen = -1 => n = m
      /\ seen # -1 => \/ n = on
                      \/ m.transitionTimer /\ m.presentationMode /\ n = cut
                      \/ ~m.transitionTimer /\ m.presentationMode /\ n = off
  BY DEF KeepWatching, NoteIf, Note, Base, Typed, Members
<1>2. ASSUME seen # -1 PROVE Kept(on, p, w, d)
  BY <1>2 DEF Kept, Watching, Seen, Sound, Base, Late, Typed, Locking, Fading, Sleeping,
      Noticing, Heeding, Waking, Remembering, Lighting, Dark, Away, Owed, UnderWay, Timeout,
      Timeouts, IdleTime, Members
<1>3. ASSUME seen # -1, m.transitionTimer, m.presentationMode PROVE Kept(cut, p, w, d)
  <2>1. Typed(cut)
    BY DEF Base, Typed, Members
  <2>2. Fading(cut)
    BY <1>3 DEF Base, Fading, Typed, Members
  <2>3. Noticing(cut, w) /\ (Late(cut, d)) /\ Locking(cut)
    BY DEF Sound, Base, Late, Typed, Locking, Fading, Sleeping, Noticing, Heeding, Waking,
        Remembering, Lighting, Dark, Away, Owed, UnderWay, Timeout, Timeouts, IdleTime,
        Members
  <2>4. Lighting(cut)
    BY <1>3 DEF Sound, Base, Late, Typed, Locking, Fading, Sleeping, Noticing, Heeding,
        Waking, Remembering, Lighting, Dark, Away, Owed, UnderWay, Timeout, Timeouts,
        IdleTime, Members
  <2>5. Sleeping(cut, p) /\ Watching(cut, p)
    BY <1>3 DEF Base, Sleeping, Watching, Typed, Members, Owed, UnderWay
  <2>6. Remembering(cut)
    BY <1>3 DEF Seen, Sound, Base, Late, Typed, Locking, Fading, Sleeping, Noticing,
        Heeding, Waking, Remembering, Lighting, Dark, Away, Owed, UnderWay, Timeout,
        Timeouts, IdleTime, Members
  <2> QED
    BY <2>1, <2>2, <2>3, <2>4, <2>5, <2>6 DEF Kept, Sound, Base
<1>4. ASSUME seen # -1, ~m.transitionTimer, m.presentationMode PROVE Kept(off, p, w, d)
  <2>1. Typed(off)
    BY DEF Base, Typed, Members
  <2>2. Fading(off)
    BY <1>4 DEF Base, Fading, Typed, Members
  <2>3. Noticing(off, w) /\ (Late(off, d)) /\ Locking(off)
    BY DEF Sound, Base, Late, Typed, Locking, Fading, Sleeping, Noticing, Heeding, Waking,
        Remembering, Lighting, Dark, Away, Owed, UnderWay, Timeout, Timeouts, IdleTime,
        Members
  <2>4. Lighting(off)
    BY <1>4 DEF Sound, Base, Late, Typed, Locking, Fading, Sleeping, Noticing, Heeding,
        Waking, Remembering, Lighting, Dark, Away, Owed, UnderWay, Timeout, Timeouts,
        IdleTime, Members
  <2>5. Sleeping(off, p) /\ Watching(off, p)
    BY <1>4 DEF Base, Sleeping, Watching, Typed, Members, Owed, UnderWay
  <2>6. Remembering(off)
    BY <1>4 DEF Seen, Sound, Base, Late, Typed, Locking, Fading, Sleeping, Noticing,
        Heeding, Waking, Remembering, Lighting, Dark, Away, Owed, UnderWay, Timeout,
        Timeouts, IdleTime, Members
  <2> QED
    BY <2>1, <2>2, <2>3, <2>4, <2>5, <2>6 DEF Kept, Sound, Base
<1>5. ASSUME seen = -1 PROVE Kept(m, p, w, d)
  BY <1>5 DEF Kept, Sound, Seen
<1> HIDE DEF on, off, cut, n
<1>6. Kept(n, p, w, d)
  BY <1>1, <1>2, <1>3, <1>4, <1>5
<1> QED
  BY <1>6 DEF n

\* logind agrees, and a sleep is under way, or it refuses, which is noted.
LEMMA AskLogindKeeps ==
  ASSUME NEW m, NEW p \in BOOLEAN, NEW w, NEW d \in Int, NEW ok \in BOOLEAN,
         Loose(m, w, d), Locking(m), NEW seen \in Int, Seen(m, seen)
  PROVE  LET n == AskLogind(m, ok)
         IN Base(n, p, w, d) /\ Locking(n) /\ Watching(n, p) /\ Seen(n, seen)
<1> DEFINE yes(v) == [m EXCEPT !.saver = v, !.actionInProgress = TRUE, !.asked = "sleep"]
           no(v) == [m EXCEPT !.saver = v, !.actionInProgress = FALSE,
                              !.mishaps = @ \cup {"refused"}]
           n == AskLogind(m, ok)
           v == IF m.saver = "none" THEN "none" ELSE "black"
           Good(r) == Base(r, p, w, d) /\ Locking(r) /\ Watching(r, p) /\ Seen(r, seen)
<1>1. n = IF ok THEN yes(v) ELSE no(v)
  BY DEF AskLogind, NoteIf, Note, Blackout, Loose, Typed, Members
<1> HIDE DEF v
<1>2. Good(yes(v))
  <2> DEFINE r == yes(v)
  <2>1. Typed(r)
    BY DEF Loose, Typed, Members
  <2>2. Fading(r) /\ Noticing(r, w) /\ Lighting(r) /\ (Late(r, d))
    BY DEF Loose, Sound, Base, Late, Typed, Locking, Fading, Sleeping, Noticing, Heeding,
        Waking, Remembering, Lighting, Dark, Away, Owed, UnderWay, Timeout, Timeouts,
        IdleTime, Members
  <2>3. Sleeping(r, p) /\ Watching(r, p)
    BY DEF Loose, Sleeping, Watching, Typed, Members, Owed, UnderWay
  <2>4. Locking(r) /\ Seen(r, seen)
    BY DEF Loose, Seen, Sound, Base, Late, Typed, Locking, Fading, Sleeping, Noticing,
        Heeding, Waking, Remembering, Lighting, Dark, Away, Owed, UnderWay, Timeout,
        Timeouts, IdleTime, Members
  <2> QED
    BY <2>1, <2>2, <2>3, <2>4 DEF Base
<1>3. Good(no(v))
  <2> DEFINE r == no(v)
  <2>1. Typed(r)
    BY DEF Loose, Typed, Members
  <2>2. Fading(r) /\ Noticing(r, w) /\ Lighting(r) /\ (Late(r, d))
    BY DEF Loose, Sound, Base, Late, Typed, Locking, Fading, Sleeping, Noticing, Heeding,
        Waking, Remembering, Lighting, Dark, Away, Owed, UnderWay, Timeout, Timeouts,
        IdleTime, Members
  <2>3. Sleeping(r, p) /\ Watching(r, p)
    BY DEF Loose, Sleeping, Watching, Typed, Members, Owed, UnderWay, Forgotten
  <2>4. Locking(r) /\ Seen(r, seen)
    BY DEF Loose, Seen, Sound, Base, Late, Typed, Locking, Fading, Sleeping, Noticing,
        Heeding, Waking, Remembering, Lighting, Dark, Away, Owed, UnderWay, Timeout,
        Timeouts, IdleTime, Members
  <2> QED
    BY <2>1, <2>2, <2>3, <2>4 DEF Base
<1> HIDE DEF yes, no, n
<1>4. Good(n)
  BY <1>1, <1>2, <1>3
<1> QED
  BY <1>4 DEF n

\* An effect starts before whatever comes next.
LEMMA PlaysKeeps ==
  ASSUME NEW m, NEW p \in BOOLEAN, NEW w, NEW d \in Int,
         NEW rest \in Continuations,
         Typed(m), Locking(m), Noticing(m, w), Lighting(m), Late(m, d),
         rest.seen = -1 \/ (rest.next = "logind" /\ rest.seen >= m.config.system),
         rest.seen = -1 => Remembering(m),
         rest.next = "others" => p,
         m.actionInProgress =>
           UnderWay(m, p) \/ Awaits(m.waiting, {"logind"}) \/ rest.next = "logind",
         Watching(m, p) \/ p \/ rest.next = "logind"
  PROVE  Kept(RunSleepTransition(m, rest), p, w, d)
<1> DEFINE more == Append(m.waiting, rest)
           n == [m EXCEPT !.saver = "none", !.transitionInProgress = TRUE,
                          !.overlay = "playing", !.sleepTransitionDone = FALSE,
                          !.glibTimer = FALSE, !.waiting = more]
<1>1. RunSleepTransition(m, rest) = n
  BY DEF RunSleepTransition, DismissScreensaver, Typed, Members
<1>2. /\ more \in Seq(Continuations) /\ more # <<>>
      /\ \A i \in DOMAIN more : more[i] = rest \/ \E j \in DOMAIN m.waiting : more[i] = m.waiting[j]
      /\ \A nexts : Awaits(more, nexts) <=> Awaits(m.waiting, nexts) \/ rest.next \in nexts
      /\ Resumes(more) <=> Resumes(m.waiting) \/ (rest.next = "logind" /\ rest.seen # -1)
  BY Pushed DEF Typed
<1>3. /\ Awaits(more, {"logind"}) <=> Awaits(m.waiting, {"logind"}) \/ rest.next = "logind"
      /\ Awaits(more, {"logind", "sleep", "shutdown"}) <=>
           \/ Awaits(m.waiting, {"logind", "sleep", "shutdown"})
           \/ rest.next \in {"logind", "sleep", "shutdown"}
  BY <1>2
<1>4. rest.next \in {"logind", "others", "sleep", "shutdown"} /\ rest.seen \in Int
  BY DEF Continuations
<1> HIDE DEF more
<1>5. Typed(n)
  BY <1>2 DEF Typed, Members
<1>6. Locking(n) /\ Fading(n) /\ Lighting(n) /\ (Late(n, d))
  BY <1>2 DEF Sound, Base, Late, Typed, Locking, Fading, Sleeping, Noticing, Heeding,
      Waking, Remembering, Lighting, Dark, Away, Owed, UnderWay, Timeout, Timeouts,
      IdleTime, Members
<1>7. Sleeping(n, p) /\ Watching(n, p)
  <2>1. Owed(n, p)
    BY <1>3, <1>4 DEF Typed, Members, Owed, UnderWay
  <2> QED
    BY SMTT(30), <1>2, <1>3, <1>4, <2>1 DEF Sleeping, Watching, Typed, Members, UnderWay
<1>8. Noticing(n, w)
  <2>1. \A i \in DOMAIN more : more[i].seen = -1 \/ more[i].seen >= m.config.system
    BY <1>2 DEF Noticing, Heeding
  <2> QED
    BY <2>1 DEF Noticing, Sound, Base, Late, Typed, Locking, Fading, Sleeping, Noticing,
        Heeding, Waking, Remembering, Lighting, Dark, Away, Owed, UnderWay, Timeout,
        Timeouts, IdleTime, Members
<1>9. Remembering(n)
  BY SMTT(30), <1>2, <1>4 DEF Sound, Base, Late, Typed, Locking, Fading, Sleeping, Noticing, Heeding,
      Waking, Remembering, Lighting, Dark, Away, Owed, UnderWay, Timeout, Timeouts,
      IdleTime, Members
<1> QED
  BY <1>1, <1>5, <1>6, <1>7, <1>8, <1>9 DEF Kept, Sound, Base

\* suspendSystem, with what is left of the check that called it.
LEMMA SuspendKeeps ==
  ASSUME NEW m, NEW p \in BOOLEAN, NEW w, NEW d \in Int, NEW ok \in BOOLEAN,
         NEW seen \in Int, Loose(m, w, d), Locking(m), Seen(m, seen),
         m.actionInProgress => UnderWay(m, p) \/ Awaits(m.waiting, {"logind"}),
         seen = -1 \/ seen >= m.config.system
  PROVE  Kept(SuspendSystem(m, seen, ok), p, w, d)
<1> DEFINE still == [m EXCEPT !.actionInProgress = TRUE, !.delayLock = FALSE,
                              !.idleTimer = FALSE]
           rest == [next |-> "logind", seen |-> seen]
<1>1. SuspendSystem(m, seen, ok) =
        CASE m.actionInProgress -> KeepWatching(m, seen)
          [] ~m.actionInProgress /\ PlaysEffect(m) -> RunSleepTransition(still, rest)
          [] OTHER -> KeepWatching(AskLogind(still, ok), seen)
  BY DEF SuspendSystem
<1>2. /\ Typed(still) /\ Fading(still) /\ Locking(still) /\ Noticing(still, w) /\ Lighting(still)
      /\ Late(still, d)
      /\ Seen(still, seen)
      /\ still.config = m.config
  BY DEF Seen, Loose, Sound, Base, Late, Typed, Locking, Fading, Sleeping, Noticing,
      Heeding, Waking, Remembering, Lighting, Dark, Away, Owed, UnderWay, Timeout, Timeouts,
      IdleTime, Members
<1>4. Loose(still, w, d)
  BY <1>2 DEF Loose, Typed, Members
<1>5. rest \in Continuations /\ rest.next = "logind" /\ rest.seen = seen
  BY DEF Continuations
<1> HIDE DEF still, rest
<1>6. CASE m.actionInProgress
  <2>1. Watching(m, p)
    BY <1>6 DEF Watching
  <2>2. Owed(m, p)
    BY <1>6 DEF Owed, Awaits
  <2>3. Base(m, p, w, d)
    BY <1>6, <2>2 DEF Loose, Base, Sleeping
  <2> QED
    BY <1>1, <1>6, <2>1, <2>3, KeepWatchingKeeps
<1>7. CASE ~m.actionInProgress /\ PlaysEffect(m)
  <2>1. seen = -1 => Remembering(still)
    BY <1>2 DEF Seen
  <2>2. Kept(RunSleepTransition(still, rest), p, w, d)
    BY <1>2, <1>5, <2>1, PlaysKeeps
  <2> QED
    BY <1>1, <1>7, <2>2
<1>8. CASE ~m.actionInProgress /\ ~PlaysEffect(m)
  <2> DEFINE asked == AskLogind(still, ok)
  <2>1. Base(asked, p, w, d) /\ Locking(asked) /\ Watching(asked, p) /\ Seen(asked, seen)
    BY <1>2, <1>4, AskLogindKeeps
  <2> HIDE DEF asked
  <2>2. Kept(KeepWatching(asked, seen), p, w, d)
    BY <2>1, KeepWatchingKeeps
  <2> QED
    BY <1>1, <1>8, <2>2 DEF asked
<1> QED
  BY <1>6, <1>7, <1>8

\* The same where no idle check called.
LEMMA SuspendAloneKeeps ==
  ASSUME NEW m, NEW p \in BOOLEAN, NEW w, NEW d \in Int, NEW ok \in BOOLEAN,
         Loose(m, w, d), Locking(m), Remembering(m),
         m.actionInProgress => UnderWay(m, p) \/ Awaits(m.waiting, {"logind"})
  PROVE  Kept(SuspendSystem(m, -1, ok), p, w, d)
<1> DEFINE seen == -1
<1>1. seen \in Int /\ (seen = -1 \/ seen >= m.config.system) /\ Seen(m, seen)
  BY DEF Seen
<1> HIDE DEF seen
<1>2. Kept(SuspendSystem(m, seen, ok), p, w, d)
  BY <1>1, SuspendKeeps
<1> QED
  BY <1>2 DEF seen

\* The daemon is asked to shut down.
LEMMA AskDaemonKeeps ==
  ASSUME NEW m, NEW p \in BOOLEAN, NEW w, NEW d \in Int, NEW ok \in BOOLEAN,
         Typed(m), Fading(m), Locking(m), Noticing(m, w), Lighting(m), Remembering(m),
         Late(m, d),
         m.actionInProgress => UnderWay(m, p) \/ Awaits(m.waiting, {"logind"}),
         m.waiting # <<>> /\ m.glibTimer => m.sleepTransitionDone,
         Watching(m, p)
  PROVE  Kept(AskDaemon(m, ok), p, w, d)
<1> DEFINE yes == [m EXCEPT !.asked = "shutdown"]
           no == [m EXCEPT !.mishaps = @ \cup {"dropped"}]
<1>1. AskDaemon(m, ok) = IF ok THEN yes ELSE no
  BY DEF AskDaemon, Note
<1>2. Kept(yes, p, w, d)
  <2>1. Typed(yes)
    BY DEF Typed, Members
  <2>2. /\ Fading(yes) /\ Locking(yes) /\ Noticing(yes, w) /\ Lighting(yes) /\ Remembering(yes)
        /\ Late(yes, d)
    BY DEF Sound, Base, Late, Typed, Locking, Fading, Sleeping, Noticing, Heeding, Waking,
        Remembering, Lighting, Dark, Away, Owed, UnderWay, Timeout, Timeouts, IdleTime,
        Members
  <2>3. Sleeping(yes, p) /\ Watching(yes, p)
    BY DEF Sleeping, Watching, Typed, Members, Owed, UnderWay
  <2> QED
    BY <2>1, <2>2, <2>3 DEF Kept, Sound, Base
<1>3. Kept(no, p, w, d)
  <2>1. Typed(no)
    BY DEF Typed, Members
  <2>2. /\ Fading(no) /\ Locking(no) /\ Noticing(no, w) /\ Lighting(no) /\ Remembering(no)
        /\ Late(no, d)
    BY DEF Sound, Base, Late, Typed, Locking, Fading, Sleeping, Noticing, Heeding, Waking,
        Remembering, Lighting, Dark, Away, Owed, UnderWay, Timeout, Timeouts, IdleTime,
        Members
  <2>3. Sleeping(no, p) /\ Watching(no, p)
    BY DEF Sleeping, Watching, Typed, Members, Owed, UnderWay, Forgotten
  <2> QED
    BY <2>1, <2>2, <2>3 DEF Kept, Sound, Base
<1> HIDE DEF yes, no
<1> QED
  BY <1>1, <1>2, <1>3

\* A button.
LEMMA PressButtonKeeps ==
  ASSUME NEW m, NEW p \in BOOLEAN, NEW w, NEW d \in Int, NEW ok \in BOOLEAN,
         Kept(m, p, w, d)
  PROVE  Kept(PressButton(m, ok), p, w, d)
<1> DEFINE rest == [next |-> m.config.button, seen |-> -1]
<1>1. PressButton(m, ok) \in
        {m, SuspendSystem(m, -1, ok), AskDaemon(m, ok)}
        \cup (IF m.config.button \in {"sleep", "shutdown"}
                THEN {RunSleepTransition(m, rest)} ELSE {})
  BY DEF PressButton
<1>2. Kept(SuspendSystem(m, -1, ok), p, w, d)
  BY SuspendAloneKeeps DEF Kept, Sound, Base, Loose, Sleeping
<1>3. Kept(AskDaemon(m, ok), p, w, d)
  BY AskDaemonKeeps DEF Kept, Sound, Base, Sleeping
<1>4. ASSUME m.config.button \in {"sleep", "shutdown"}
      PROVE  Kept(RunSleepTransition(m, rest), p, w, d)
  <2>1. rest \in Continuations /\ rest.seen = -1 /\ rest.next \in {"sleep", "shutdown"}
    BY <1>4 DEF Continuations
  <2> HIDE DEF rest
  <2> QED
    BY <2>1, PlaysKeeps DEF Kept, Sound, Base, Sleeping
<1> QED
  BY <1>1, <1>2, <1>3, <1>4

\* While others put the machine to sleep the client need not hold the lock.
LEMMA PrepareForSleepKeeps ==
  ASSUME NEW m, NEW w, NEW d \in Int, Kept(m, TRUE, w, d)
  PROVE  Kept(PrepareForSleep(m), TRUE, w, d)
<1> DEFINE rest == [next |-> "others", seen |-> -1]
           still == [m EXCEPT !.idleTimer = FALSE]
           black(v) == [m EXCEPT !.idleTimer = FALSE, !.saver = v, !.delayLock = FALSE]
           given == [m EXCEPT !.delayLock = FALSE]
           v == IF m.saver = "none" THEN "none" ELSE "black"
<1>1. PrepareForSleep(m) \in {RunSleepTransition(still, rest), black(v), given}
  BY DEF PrepareForSleep, Blackout, Kept, Sound, Base, Typed, Members
<1> HIDE DEF v
<1>2. Kept(black(v), TRUE, w, d) /\ Kept(given, TRUE, w, d)
  <2>1. Kept(black(v), TRUE, w, d)
    BY DEF Kept, Watching, Sound, Base, Late, Typed, Locking, Fading, Sleeping, Noticing,
        Heeding, Waking, Remembering, Lighting, Dark, Away, Owed, UnderWay, Timeout,
        Timeouts, IdleTime, Members
  <2>2. Kept(given, TRUE, w, d)
    BY DEF Kept, Watching, Sound, Base, Late, Typed, Locking, Fading, Sleeping, Noticing,
        Heeding, Waking, Remembering, Lighting, Dark, Away, Owed, UnderWay, Timeout,
        Timeouts, IdleTime, Members
  <2> QED
    BY <2>1, <2>2
<1>3. Kept(RunSleepTransition(still, rest), TRUE, w, d)
  <2>1. rest \in Continuations /\ rest.seen = -1 /\ rest.next = "others"
    BY DEF Continuations
  <2>2. Sound(still, TRUE, w, d)
    BY DEF Kept, Sound, Base, Late, Typed, Locking, Fading, Sleeping, Noticing, Heeding,
        Waking, Remembering, Lighting, Dark, Away, Owed, UnderWay, Timeout, Timeouts,
        IdleTime, Members
  <2> HIDE DEF still, rest
  <2>3. UnderWay(still, TRUE)
    BY DEF UnderWay
  <2> QED
    BY <2>1, <2>2, <2>3, PlaysKeeps DEF Sound, Base
<1> QED
  BY <1>1, <1>2, <1>3

\* The client lets others put the machine to sleep.
LEMMA GivesUpKeeps ==
  ASSUME NEW m, NEW w, NEW d \in Int, NEW v,
         Loose(m, w, d), Locking(m), Remembering(m)
  PROVE  LET n == [m EXCEPT !.saver = v, !.delayLock = FALSE]
         IN /\ Fading(n) /\ Locking(n) /\ Noticing(n, w) /\ Lighting(n) /\ Remembering(n)
            /\ Late(n, d)
            /\ Typed(n)
  BY DEF Loose, Sound, Base, Late, Typed, Locking, Fading, Sleeping, Noticing, Heeding,
      Waking, Remembering, Lighting, Dark, Away, Owed, UnderWay, Timeout, Timeouts,
      IdleTime, Members

\* An effect is over, and what waited for it goes on.
LEMMA AfterTransitionKeeps ==
  ASSUME NEW m, NEW p \in BOOLEAN, NEW w, NEW d \in Int, NEW ok \in BOOLEAN,
         Kept(m, p, w, d), m.waiting # <<>>, m.sleepTransitionDone
  PROVE  Kept(AfterTransition(m, ok), p, w, d)
<1> DEFINE rest == m.waiting[Len(m.waiting)]
           less == SubSeq(m.waiting, 1, Len(m.waiting) - 1)
           open == [m EXCEPT !.waiting = less, !.glibTimer = TRUE,
                             !.transitionInProgress = FALSE]
           cut == [m EXCEPT !.waiting = less, !.glibTimer = TRUE,
                            !.transitionInProgress = FALSE, !.mishaps = @ \cup {"cut"}]
           woken == IF m.transitionTimer THEN cut ELSE open
<1>1. AfterTransition(m, ok) =
        CASE rest.next = "logind" -> KeepWatching(AskLogind(woken, ok), rest.seen)
          [] rest.next = "others" -> [Blackout(woken) EXCEPT !.delayLock = FALSE]
          [] rest.next = "sleep" -> SuspendSystem(woken, -1, ok)
          [] rest.next = "shutdown" -> AskDaemon(woken, ok)
  BY DEF AfterTransition, NoteIf, Note, Kept, Sound, Base, Typed, Members
<1>2. /\ less \in Seq(Continuations) /\ rest \in Continuations
      /\ Len(m.waiting) \in DOMAIN m.waiting
      /\ \A i \in DOMAIN less : i \in DOMAIN m.waiting /\ less[i] = m.waiting[i]
      /\ \A nexts : Awaits(m.waiting, nexts) <=> Awaits(less, nexts) \/ rest.next \in nexts
      /\ Resumes(m.waiting) <=> Resumes(less) \/ (rest.next = "logind" /\ rest.seen # -1)
  BY Popped DEF Kept, Sound, Base, Typed
<1>3. /\ Awaits(m.waiting, {"logind"}) <=> Awaits(less, {"logind"}) \/ rest.next = "logind"
      /\ Awaits(m.waiting, {"others"}) <=> Awaits(less, {"others"}) \/ rest.next = "others"
      /\ Awaits(m.waiting, {"logind", "sleep", "shutdown"}) <=>
           \/ Awaits(less, {"logind", "sleep", "shutdown"})
           \/ rest.next \in {"logind", "sleep", "shutdown"}
  BY <1>2
<1>4. /\ rest.next \in {"logind", "others", "sleep", "shutdown"} /\ rest.seen \in Int
      /\ rest.seen = -1 \/ rest.seen >= m.config.system
  BY <1>2 DEF Continuations, Kept, Sound, Base, Noticing, Heeding
<1> HIDE DEF less, rest
<1> DEFINE Left(r) == /\ Loose(r, w, d) /\ Locking(r)
                      /\ r.config = m.config /\ r.waiting = less
                      /\ r.actionInProgress = m.actionInProgress
                      /\ UnderWay(r, p) <=> UnderWay(m, p)
                      /\ "refused" \in r.mishaps <=> "refused" \in m.mishaps
                      /\ "dropped" \in r.mishaps <=> "dropped" \in m.mishaps
                      /\ Forgotten(r.mishaps) <=> Forgotten(m.mishaps)
                      /\ r.overlay = m.overlay /\ r.reacquires = m.reacquires
                      /\ r.delayLock = m.delayLock /\ r.idleTimer = m.idleTimer
                      /\ r.presentationMode = m.presentationMode /\ r.inPowernap = m.inPowernap
                      /\ r.sleepTransitionDone
                      /\ Remembering(r) \/ (rest.next = "logind" /\ rest.seen # -1)
<1>5. Left(cut)
  <2>1. Typed(cut)
    BY ZenonT(30), <1>2 DEF Kept, Sound, Base, Typed, Members
  <2>2. Fading(cut) /\ Lighting(cut) /\ Locking(cut) /\ (Late(cut, d))
    BY DEF Kept, Sound, Base, Late, Typed, Locking, Fading, Sleeping, Noticing, Heeding,
        Waking, Remembering, Lighting, Dark, Away, Owed, UnderWay, Timeout, Timeouts,
        IdleTime, Members
  <2>3. Noticing(cut, w)
    BY SMTT(30), <1>2 DEF Kept, Sound, Base, Late, Typed, Locking, Fading, Sleeping, Noticing,
        Heeding, Waking, Remembering, Lighting, Dark, Away, Owed, UnderWay, Timeout,
        Timeouts, IdleTime, Members
  <2>4. Remembering(cut) \/ (rest.next = "logind" /\ rest.seen # -1)
    BY <1>2 DEF Kept, Sound, Base, Late, Typed, Locking, Fading, Sleeping, Noticing,
        Heeding, Waking, Remembering, Lighting, Dark, Away, Owed, UnderWay, Timeout,
        Timeouts, IdleTime, Members
  <2>5. /\ UnderWay(cut, p) <=> UnderWay(m, p)
        /\ "refused" \in cut.mishaps <=> "refused" \in m.mishaps
        /\ "dropped" \in cut.mishaps <=> "dropped" \in m.mishaps
        /\ Forgotten(cut.mishaps) <=> Forgotten(m.mishaps)
    BY DEF UnderWay, Forgotten, Kept, Sound, Base, Typed, Members
  <2> QED
    BY <2>1, <2>2, <2>3, <2>4, <2>5 DEF Loose, Kept, Sound, Base, Typed, Members
<1>6. ASSUME ~m.transitionTimer PROVE Left(open)
  <2>1. Typed(open)
    BY ZenonT(30), <1>2 DEF Kept, Sound, Base, Typed, Members
  <2>2. Fading(open) /\ Lighting(open) /\ Locking(open) /\ (Late(open, d))
    BY <1>6 DEF Kept, Sound, Base, Late, Typed, Locking, Fading, Sleeping, Noticing,
        Heeding, Waking, Remembering, Lighting, Dark, Away, Owed, UnderWay, Timeout,
        Timeouts, IdleTime, Members
  <2>3. Noticing(open, w)
    BY SMTT(30), <1>2 DEF Kept, Sound, Base, Late, Typed, Locking, Fading, Sleeping, Noticing,
        Heeding, Waking, Remembering, Lighting, Dark, Away, Owed, UnderWay, Timeout,
        Timeouts, IdleTime, Members
  <2>4. Remembering(open) \/ (rest.next = "logind" /\ rest.seen # -1)
    BY <1>2 DEF Kept, Sound, Base, Late, Typed, Locking, Fading, Sleeping, Noticing,
        Heeding, Waking, Remembering, Lighting, Dark, Away, Owed, UnderWay, Timeout,
        Timeouts, IdleTime, Members
  <2>5. /\ UnderWay(open, p) <=> UnderWay(m, p)
        /\ "refused" \in open.mishaps <=> "refused" \in m.mishaps
        /\ "dropped" \in open.mishaps <=> "dropped" \in m.mishaps
        /\ Forgotten(open.mishaps) <=> Forgotten(m.mishaps)
    BY DEF UnderWay, Forgotten, Kept, Sound, Base, Typed, Members
  <2> QED
    BY <2>1, <2>2, <2>3, <2>4, <2>5 DEF Loose, Kept, Sound, Base, Typed, Members
<1> HIDE DEF open, cut, Left
<1>7. Left(woken)
  BY <1>5, <1>6
<1> HIDE DEF woken
<1>8. CASE rest.next = "logind"
  <2> DEFINE asked == AskLogind(woken, ok)
  <2>1. Seen(woken, rest.seen)
    <3>1. ASSUME rest.seen # -1, Away(woken) PROVE rest.seen >= Timeout(woken)
      <4>1. woken.config \in {s.config : s \in Scenarios} /\ woken.warning \in 0..2
        BY <1>7 DEF Left, Loose, Typed
      <4>2. /\ Timeouts(woken).reduce \in Nat /\ Timeouts(woken).sleep \in Nat
            /\ Timeouts(woken).system \in Nat
            /\ Timeouts(woken).reduce <= Timeouts(woken).sleep
            /\ Timeouts(woken).sleep <= Timeouts(woken).system
            /\ Timeouts(woken).system = m.config.system
        BY <1>7, <4>1, TimeoutFacts DEF Left
      <4> QED
        BY <1>4, <3>1, <4>2 DEF Timeout
    <3> QED
      BY <1>7, <3>1 DEF Seen, Left
  <2>2. Base(asked, p, w, d) /\ Locking(asked) /\ Watching(asked, p) /\ Seen(asked, rest.seen)
    BY <1>4, <1>7, <2>1, AskLogindKeeps DEF Left
  <2> HIDE DEF asked
  <2>3. Kept(KeepWatching(asked, rest.seen), p, w, d)
    BY <1>4, <2>2, KeepWatchingKeeps
  <2> QED
    BY <1>1, <1>8, <2>3 DEF asked
<1>9. ASSUME rest.next # "logind"
      PROVE  /\ Remembering(woken)
             /\ m.actionInProgress => UnderWay(woken, p) \/ Awaits(less, {"logind"})
             /\ Watching(woken, p)
  BY <1>3, <1>7, <1>9 DEF Left, Kept, Sound, Base, Sleeping, Watching
<1>10. CASE rest.next = "others"
  <2> DEFINE black(v) == [woken EXCEPT !.saver = v, !.delayLock = FALSE]
             v == IF woken.saver = "none" THEN "none" ELSE "black"
             n == black(v)
  <2>1. AfterTransition(m, ok) = n
    BY <1>1, <1>7, <1>10 DEF Blackout, Left, Loose, Typed, Members
  <2> HIDE DEF v
  <2>3. /\ Fading(n) /\ Locking(n) /\ Noticing(n, w) /\ Lighting(n) /\ Remembering(n)
        /\ Late(n, d)
        /\ Typed(n)
    <3>1. Loose(woken, w, d) /\ Locking(woken) /\ Remembering(woken)
      BY <1>7, <1>9, <1>10 DEF Left
    <3> QED
      BY <3>1, GivesUpKeeps
  <2>2. Typed(n) /\ Typed(woken)
    BY <1>7, <2>3 DEF Left, Loose
  <2>4. Watching(n, p)
    BY <1>9, <1>10, <2>2 DEF Watching, Typed, Members, UnderWay
  <2>5. /\ m.overlay # "none" => Owed(m, p)
        /\ Owed(m, p) \/ m.reacquires > 0
    BY <1>3, <1>10 DEF Kept, Sound, Base, Sleeping
  <2>6. Owed(m, p) => Owed(woken, p)
    BY <1>3, <1>7, <1>10 DEF Left, Owed
  <2>7. Owed(n, p) <=> Owed(woken, p)
    BY <2>2 DEF Owed, UnderWay, Typed, Members
  <2>8. /\ n.overlay = m.overlay /\ n.waiting = less /\ n.reacquires = m.reacquires
        /\ n.actionInProgress = m.actionInProgress /\ n.sleepTransitionDone
        /\ UnderWay(n, p) <=> UnderWay(woken, p)
    BY <1>7, <2>2 DEF Left, UnderWay, Typed, Members
  <2> HIDE DEF n
  <2>9. Sleeping(n, p)
    BY <1>9, <1>10, <2>5, <2>6, <2>7, <2>8 DEF Sleeping
  <2> QED
    BY <2>1, <2>2, <2>3, <2>4, <2>9 DEF Kept, Sound, Base
<1>11. CASE rest.next = "shutdown"
  <2>1. Kept(AskDaemon(woken, ok), p, w, d)
    BY <1>7, <1>9, <1>11, AskDaemonKeeps DEF Left, Loose
  <2> QED
    BY <1>1, <1>11, <2>1
<1>12. CASE rest.next = "sleep"
  <2>1. Kept(SuspendSystem(woken, -1, ok), p, w, d)
    BY <1>7, <1>9, <1>12, SuspendAloneKeeps DEF Left
  <2> QED
    BY <1>1, <1>12, <2>1
<1> QED
  BY <1>4, <1>8, <1>10, <1>11, <1>12

-----------------------------------------------------------------------------
(* Dimming, darkness, and the way back. *)

\* The lock leaves the brightness, the idle time and the timers alone.
SameScreen(n, m) ==
  /\ DOMAIN n = Members
  /\ n.originalBrightness = m.originalBrightness /\ n.wanted = m.wanted
  /\ n.backlight = m.backlight /\ n.transitionTimer = m.transitionTimer
  /\ n.transitionInProgress = m.transitionInProgress
  /\ n.backlightReduced = m.backlightReduced
  /\ n.screenSleeping = m.screenSleeping /\ n.screensaverActive = m.screensaverActive
  /\ n.idle = m.idle /\ n.since = m.since /\ n.mishaps = m.mishaps
  /\ n.prevIdleTime = m.prevIdleTime
  /\ n.config = m.config /\ n.chargingState = m.chargingState
  /\ n.warning = m.warning /\ n.presentationMode = m.presentationMode
  /\ n.actionInProgress = m.actionInProgress /\ n.waiting = m.waiting
  /\ n.glibTimer = m.glibTimer /\ n.sleepTransitionDone = m.sleepTransitionDone
  /\ n.asked = m.asked

\* lockScreen leaves the screen alone.
LEMMA LockScreenLeaves ==
  ASSUME NEW m, Typed(m), NEW overlay \in BOOLEAN, NEW net
  PROVE  SameScreen(LockScreen(m, overlay, net), m)
<1> DEFINE Same(n) == SameScreen(n, m)
           asking == [m EXCEPT !.useWifiOverlay = overlay, !.wifiCheckCounter = 0]
           shown == IF asking.useWifiOverlay THEN [asking EXCEPT !.wifiOverlay = TRUE] ELSE asking
<1>1. Same(m) /\ Same(asking)
  BY DEF SameScreen, Typed, Members
<1>2. Same([asking EXCEPT !.wifiOverlay = TRUE])
  BY DEF SameScreen, Typed, Members
<1> HIDE DEF asking
<1>3. Same(shown)
  BY <1>1, <1>2
<1> HIDE DEF shown
<1>4. \A a, b :
        /\ Same([shown EXCEPT !.lockDue = a, !.wifiOverlay = b])
        /\ Same([shown EXCEPT !.wifiCheckCounter = a, !.retries = b])
        /\ Same([shown EXCEPT !.lockDue = a])
  BY <1>3 DEF SameScreen, Members
<1>5. \A n : Same(n) => Same([n EXCEPT !.hides = @ + 1])
  BY DEF SameScreen, Members
<1>6. \A n : Same(n) => Same(WokeUp(n)) /\ Same([n EXCEPT !.wifiOverlay = FALSE])
  BY DEF SameScreen, Members, WokeUp, DismissScreensaver
<1>7. Same(Lock(shown))
  <2> DEFINE locked == [shown EXCEPT !.lockDue = FALSE]
  <2>1. Same(locked)
    BY <1>4
  <2>2. Lock(shown) \in {[locked EXCEPT !.hides = @ + 1],
                         WokeUp([locked EXCEPT !.wifiOverlay = FALSE]), WokeUp(locked)}
    BY DEF Lock, LockScreenNow
  <2> HIDE DEF locked, Same
  <2> QED
    BY <2>1, <2>2, <1>5, <1>6
<1>8. Same(CheckWifiAndLock(asking, net))
  <2> DEFINE kept(b) == [shown EXCEPT !.lockDue = FALSE, !.wifiOverlay = b]
             b == IF asking.useWifiOverlay THEN FALSE ELSE shown.wifiOverlay
  <2>1. CheckWifiAndLock(asking, net) \in
          {Lock(shown), WokeUp(kept(b)),
           [shown EXCEPT !.wifiCheckCounter = @ + 1, !.retries = @ + 1]}
    BY DEF CheckWifiAndLock, shown
  <2> HIDE DEF b
  <2>2. Same(kept(b)) /\ Same([shown EXCEPT !.wifiCheckCounter = @ + 1, !.retries = @ + 1])
    BY <1>4
  <2> HIDE DEF Same, kept
  <2> QED
    BY <2>1, <2>2, <1>6, <1>7
<1>9. LockScreen(m, overlay, net) \in {m, CheckWifiAndLock(asking, net)}
  BY DEF LockScreen, asking
<1>10. Same(LockScreen(m, overlay, net))
  <2> HIDE DEF Same
  <2> QED
    BY <1>1, <1>8, <1>9
<1> QED
  BY <1>10

\* The screen is lit, with the brightness it had before.
LEMMA LitKeeps ==
  ASSUME NEW m, NEW p \in BOOLEAN, NEW w, NEW d \in Int, Sound(m, p, w, d), Away(m),
         NEW up \in {[m EXCEPT !.screensaverActive = FALSE, !.backlightReduced = FALSE,
                               !.screenSleeping = FALSE],
                     [m EXCEPT !.screensaverActive = FALSE, !.backlightReduced = FALSE],
                     [m EXCEPT !.screenSleeping = FALSE, !.backlightReduced = FALSE]},
         ~Away(up)
  PROVE  LET n == SetBrightnessImmediate(up, m.originalBrightness, TRUE)
         IN /\ Sound(n, p, w, d) /\ ~Away(n) /\ n.config = m.config
            /\ Watching(m, p) => Watching(n, p)
<1> DEFINE tip == IF up.transitionInProgress THEN FALSE ELSE up.transitionInProgress
           timer == IF up.transitionInProgress THEN FALSE ELSE up.transitionTimer
           original == Clamped(m.originalBrightness)
           n == [up EXCEPT !.transitionInProgress = tip, !.transitionTimer = timer,
                           !.backlight = original]
<1>0. /\ DOMAIN up = Members /\ DOMAIN m = Members /\ m.originalBrightness \in 1..Backlight
      /\ up.transitionInProgress = m.transitionInProgress
      /\ up.transitionTimer = m.transitionTimer
  <2>1. DOMAIN m = Members /\ m.originalBrightness \in 1..Backlight
    BY DEF Sound, Base, Typed
  <2>2. /\ DOMAIN up = Members
        /\ up.transitionInProgress = m.transitionInProgress
        /\ up.transitionTimer = m.transitionTimer
    BY ZenonT(30), <2>1 DEF Members
  <2> QED
    BY <2>1, <2>2
<1>1. original = m.originalBrightness
  BY <1>0, ClampedFits
<1>2. SetBrightnessImmediate(up, m.originalBrightness, TRUE) = n
  BY <1>0, Immediately
<1>3. /\ tip \in BOOLEAN /\ timer \in BOOLEAN /\ ~tip
      /\ timer => m.transitionTimer /\ "cut" \in m.mishaps
  BY <1>0 DEF Sound, Base, Typed, Fading
<1> HIDE DEF tip, timer, original
<1> DEFINE Good(r) == /\ Sound(r, p, w, d) /\ ~Away(r) /\ r.config = m.config
                      /\ Watching(m, p) => Watching(r, p)
           all == [m EXCEPT !.screensaverActive = FALSE, !.backlightReduced = FALSE,
                            !.screenSleeping = FALSE]
           covered == [m EXCEPT !.screensaverActive = FALSE, !.backlightReduced = FALSE]
           off == [m EXCEPT !.screenSleeping = FALSE, !.backlightReduced = FALSE]
           now(r) == [r EXCEPT !.transitionInProgress = tip, !.transitionTimer = timer,
                               !.backlight = original]
<1>4. Good(now(all))
  <2>1. Sound(now(all), p, w, d) /\ ~Away(now(all)) /\ now(all).config = m.config
    BY <1>1, <1>3 DEF Sound, Base, Late, Typed, Locking, Fading, Sleeping, Noticing,
        Heeding, Waking, Remembering, Lighting, Dark, Away, Owed, UnderWay, Timeout,
        Timeouts, IdleTime, Members
  <2>2. Watching(m, p) => Watching(now(all), p)
    BY DEF Watching, Sound, Base, Typed, Members, UnderWay
  <2> QED
    BY <2>1, <2>2
<1>5. ASSUME ~Away(covered) PROVE Good(now(covered))
  <2>0. ~m.screenSleeping
    BY <1>0, <1>5 DEF Away, Dark, Members
  <2>1. Sound(now(covered), p, w, d) /\ ~Away(now(covered)) /\ now(covered).config = m.config
    BY <1>1, <1>3, <2>0 DEF Sound, Base, Late, Typed, Locking, Fading, Sleeping, Noticing,
        Heeding, Waking, Remembering, Lighting, Dark, Away, Owed, UnderWay, Timeout,
        Timeouts, IdleTime, Members
  <2>2. Watching(m, p) => Watching(now(covered), p)
    BY DEF Watching, Sound, Base, Typed, Members, UnderWay
  <2> QED
    BY <2>1, <2>2
<1>6. ASSUME ~Away(off) PROVE Good(now(off))
  <2>0. ~m.screensaverActive
    BY <1>0, <1>6 DEF Away, Dark, Members
  <2>1. Sound(now(off), p, w, d) /\ ~Away(now(off)) /\ now(off).config = m.config
    BY <1>1, <1>3, <2>0 DEF Sound, Base, Late, Typed, Locking, Fading, Sleeping, Noticing,
        Heeding, Waking, Remembering, Lighting, Dark, Away, Owed, UnderWay, Timeout,
        Timeouts, IdleTime, Members
  <2>2. Watching(m, p) => Watching(now(off), p)
    BY DEF Watching, Sound, Base, Typed, Members, UnderWay
  <2> QED
    BY <2>1, <2>2
<1>7. up \in {all, covered, off} /\ n = now(up)
  OBVIOUS
<1> HIDE DEF all, covered, off, now, n, Good
<1>8. Good(n)
  BY <1>4, <1>5, <1>6, <1>7
<1> QED
  BY <1>2, <1>8 DEF Good

\* The display is lit again: nothing is dark afterwards.
LEMMA DisplayWakeKeeps ==
  ASSUME NEW m, NEW p \in BOOLEAN, NEW w, NEW d \in Int, NEW net,
         Sound(m, p, w, d), Away(m)
  PROVE  LET n == DisplayWake(m, net)
         IN /\ Sound(n, p, w, d) /\ ~Away(n) /\ n.config = m.config
            /\ Watching(m, p) => Watching(n, p)
<1> DEFINE locked == IF m.config.lock_on_display_off /\ ~m.screensaverActive
                       THEN LockScreen(m, FALSE, net) ELSE m
<1>1. DisplayWake(m, net) =
        SetBrightnessImmediate(
          [locked EXCEPT !.screensaverActive = FALSE, !.backlightReduced = FALSE,
                         !.screenSleeping = FALSE], m.originalBrightness, TRUE)
  BY DEF DisplayWake
<1>2. /\ Sound(LockScreen(m, FALSE, net), p, w, d)
      /\ Watching(m, p) => Watching(LockScreen(m, FALSE, net), p)
  BY LockScreenKeeps
<1>3. LET n == LockScreen(m, FALSE, net)
      IN /\ n.originalBrightness = m.originalBrightness /\ n.config = m.config
         /\ Away(n) <=> Away(m)
  <2>1. SameScreen(LockScreen(m, FALSE, net), m)
    BY LockScreenLeaves DEF Sound, Base
  <2> QED
    BY <2>1 DEF SameScreen, Away, Dark
<1>4. /\ Sound(locked, p, w, d) /\ (Watching(m, p) => Watching(locked, p))
      /\ locked.originalBrightness = m.originalBrightness /\ Away(locked)
      /\ locked.config = m.config
  BY <1>2, <1>3
<1> HIDE DEF locked
<1> DEFINE up == [locked EXCEPT !.screensaverActive = FALSE, !.backlightReduced = FALSE,
                                !.screenSleeping = FALSE]
<1>5. ~Away(up)
  BY <1>4 DEF Away, Dark, Sound, Base, Typed, Members
<1> QED
  BY <1>1, <1>4, <1>5, LitKeeps

\* The display is turned off after the time for it.
LEMMA DisplaySleepKeeps ==
  ASSUME NEW m, NEW p \in BOOLEAN, NEW w, NEW d \in Int, Sound(m, p, w, d),
         ~Dark(m), ~m.justWokeUp, IdleTime(m) >= Timeouts(m).sleep,
         m.prevIdleTime >= Timeouts(m).sleep, Timeouts(m).sleep <= d
  PROVE  LET n == DisplaySleep(m)
         IN /\ Sound(n, p, w, d) /\ IdleTime(n) = IdleTime(m) /\ Timeouts(n) = Timeouts(m)
            /\ Dark(n) /\ n.config = m.config
            /\ Watching(m, p) => Watching(n, p)
<1> DEFINE original == IF m.backlightReduced THEN m.originalBrightness ELSE m.backlight
           fade == [from |-> m.backlight, to |-> Clamped(original), step |-> 0]
           off == [m EXCEPT !.originalBrightness = original, !.backlightReduced = TRUE,
                            !.screenSleeping = TRUE]
           covered == [m EXCEPT !.originalBrightness = original, !.backlightReduced = TRUE,
                                !.screensaverActive = TRUE, !.transitionInProgress = TRUE,
                                !.transitionTimer = TRUE, !.fade = fade, !.saver = "shown"]
           dark == [m EXCEPT !.originalBrightness = original, !.backlightReduced = TRUE,
                             !.screensaverActive = TRUE]
<1>0. Typed(m) /\ DOMAIN m = Members
  BY DEF Sound, Base, Typed
<1>a. dark = [[m EXCEPT !.originalBrightness = original, !.backlightReduced = TRUE]
                EXCEPT !.screensaverActive = TRUE]
  BY <1>0 DEF Members
<1>b. LET saved == IF m.backlightReduced THEN m ELSE Remembered(m)
      IN [saved EXCEPT !.backlightReduced = TRUE] =
           [m EXCEPT !.originalBrightness = original, !.backlightReduced = TRUE]
  <2>1. CASE m.backlightReduced
    BY <1>0, <2>1 DEF Remembered, Members, Typed
  <2>2. CASE ~m.backlightReduced
    BY <1>0, <2>2 DEF Remembered, Members, Typed
  <2> QED
    BY <1>0, <2>1, <2>2 DEF Typed
<1>1. DisplaySleep(m) \in {off, LaunchScreensaver(SetBrightnessImmediate(dark, original, FALSE))}
  BY <1>0, <1>a, <1>b DEF DisplaySleep, Members
<1>2. LaunchScreensaver(SetBrightnessImmediate(dark, original, FALSE)) = covered
  <2>1. DOMAIN dark = Members /\ dark.backlight = m.backlight
    BY <1>0 DEF Members
  <2>a. SetBrightnessImmediate(dark, original, FALSE) =
          [dark EXCEPT !.transitionInProgress = TRUE, !.transitionTimer = TRUE,
                       !.fade = [from |-> dark.backlight, to |-> Clamped(original), step |-> 0]]
    <3> HIDE DEF dark, original
    <3> QED
      BY <2>1, Immediately
  <2>2. SetBrightnessImmediate(dark, original, FALSE) =
          [dark EXCEPT !.transitionInProgress = TRUE, !.transitionTimer = TRUE, !.fade = fade]
    <3> HIDE DEF dark, original
    <3> QED
      BY <2>1, <2>a
  <2> QED
    BY <1>0, <2>2 DEF LaunchScreensaver, Members
<1>3. /\ original \in 1..Backlight
      /\ original = m.wanted \/ "cut" \in m.mishaps \/ "overruled" \in m.mishaps
  <2>1. IdleTime(m) # 0
    BY SMTT(30), <1>0, TimeoutFacts DEF Typed
  <2> QED
    BY <2>1, <1>0 DEF Sound, Base, Lighting, Away, Dark, Typed
<1>4. original \in 1..Backlight /\ fade \in [from : Int, to : Int, step : Int]
  <2>1. original \in 1..Backlight
    BY <1>0 DEF Typed
  <2>2. Clamped(original) \in 1..Backlight
    BY <2>1, ClampedFits
  <2> HIDE DEF original
  <2> QED
    BY <1>0, <2>1, <2>2 DEF Typed
<1> HIDE DEF original, fade
<1> DEFINE Good(n) == /\ Sound(n, p, w, d) /\ IdleTime(n) = IdleTime(m)
                      /\ Timeouts(n) = Timeouts(m)
                      /\ Dark(n) /\ n.config = m.config
                      /\ Watching(m, p) => Watching(n, p)
<1>5. Good(off)
  <2>1. Typed(off) /\ Dark(off)
    BY <1>0, <1>4 DEF Typed, Members, Dark
  <2>2. Fading(off) /\ Locking(off) /\ Lighting(off) /\ Late(off, d) /\ Noticing(off, w)
        /\ Remembering(off)
    BY <1>3 DEF Sound, Base, Late, Typed, Locking, Fading, Sleeping, Noticing, Heeding,
        Waking, Remembering, Lighting, Dark, Away, Owed, UnderWay, Timeout, Timeouts,
        IdleTime, Members
  <2>3. Sleeping(off, p) /\ (Watching(m, p) => Watching(off, p))
    BY DEF Sound, Base, Sleeping, Watching, Typed, Members, Owed, UnderWay
  <2>4. /\ IdleTime(off) = IdleTime(m) /\ Timeouts(off) = Timeouts(m)
        /\ off.config = m.config
    BY <1>0 DEF IdleTime, Timeouts, Members
  <2> QED
    BY <2>1, <2>2, <2>3, <2>4 DEF Sound, Base
<1>6. Good(covered)
  <2>1. Typed(covered) /\ Dark(covered)
    BY <1>0, <1>4 DEF Typed, Members, Dark
  <2>2. Fading(covered) /\ Locking(covered) /\ Lighting(covered) /\ Late(covered, d)
        /\ Noticing(covered, w) /\ Remembering(covered)
    BY <1>3 DEF Sound, Base, Late, Typed, Locking, Fading, Sleeping, Noticing, Heeding,
        Waking, Remembering, Lighting, Dark, Away, Owed, UnderWay, Timeout, Timeouts,
        IdleTime, Members
  <2>3. Sleeping(covered, p) /\ (Watching(m, p) => Watching(covered, p))
    BY DEF Sound, Base, Sleeping, Watching, Typed, Members, Owed, UnderWay
  <2>4. /\ IdleTime(covered) = IdleTime(m) /\ Timeouts(covered) = Timeouts(m)
        /\ covered.config = m.config
    BY <1>0 DEF IdleTime, Timeouts, Members
  <2> QED
    BY <2>1, <2>2, <2>3, <2>4 DEF Sound, Base
<1> HIDE DEF off, covered, Good
<1>7. Good(DisplaySleep(m))
  BY <1>1, <1>2, <1>5, <1>6
<1> QED
  BY <1>7 DEF Good

\* The screen is dimmed, and what it was before is remembered.
LEMMA DimKeeps ==
  ASSUME NEW m, NEW p \in BOOLEAN, NEW w, NEW d \in Int, Sound(m, p, w, d),
         ~Away(m), ~m.justWokeUp, IdleTime(m) >= Timeouts(m).reduce,
         m.prevIdleTime >= Timeouts(m).reduce
  PROVE  Kept(Dim(m), p, w, d)
<1> DEFINE fade == [from |-> m.backlight, to |-> Max({1, m.backlight \div 5}), step |-> 0]
           n(f, tip, timer) ==
             [m EXCEPT !.originalBrightness = m.backlight, !.fade = f,
                       !.transitionInProgress = tip, !.transitionTimer = timer,
                       !.backlightReduced = TRUE, !.idleTimer = TRUE]
           f == IF m.transitionInProgress THEN m.fade ELSE fade
           timer == IF m.transitionInProgress THEN m.transitionTimer ELSE TRUE
<1>0. Typed(m) /\ DOMAIN m = Members /\ IdleTime(m) # 0
  BY SMTT(30), TimeoutFacts DEF Sound, Base, Typed
<1>1. Dim(m) = n(f, TRUE, timer)
  <2>1. CASE m.transitionInProgress
    BY ZenonT(30), <1>0, <2>1 DEF Dim, StartBrightnessTransition, Remembered, Typed, Members
  <2>2. CASE ~m.transitionInProgress
    BY <1>0, <2>2 DEF Dim, StartBrightnessTransition, Remembered, Typed, Members
  <2> QED
    BY <1>0, <2>1, <2>2 DEF Typed
<1>2. f \in [from : Int, to : Int, step : Int] /\ timer \in BOOLEAN
  <2>1. m.backlight \in Int /\ m.backlight \div 5 \in Int
    BY <1>0 DEF Typed
  <2>2. Max({1, m.backlight \div 5}) \in Int
    BY <2>1, MaxOfTwo
  <2>3. fade \in [from : Int, to : Int, step : Int]
    BY <2>1, <2>2
  <2> HIDE DEF fade
  <2>4. m.fade \in [from : Int, to : Int, step : Int] /\ m.transitionTimer \in BOOLEAN
    BY <1>0 DEF Typed
  <2> QED
    BY <2>3, <2>4
<1>3. timer \/ m.waiting # <<>> \/ "cut" \in m.mishaps
  BY DEF Sound, Base, Fading
<1>4. m.backlight = m.wanted \/ "cut" \in m.mishaps \/ "overruled" \in m.mishaps
  BY <1>0 DEF Sound, Base, Lighting
<1> HIDE DEF f, timer, fade
<1>5. Typed(n(f, TRUE, timer))
  BY <1>0, <1>2 DEF Typed, Members
<1>6. LET r == n(f, TRUE, timer)
      IN /\ Fading(r) /\ Locking(r) /\ Lighting(r) /\ Late(r, d) /\ Noticing(r, w)
         /\ Remembering(r)
  BY <1>2, <1>3, <1>4 DEF Sound, Base, Late, Typed, Locking, Fading, Sleeping, Noticing,
      Heeding, Waking, Remembering, Lighting, Dark, Away, Owed, UnderWay, Timeout, Timeouts,
      IdleTime, Members
<1>7. LET r == n(f, TRUE, timer) IN Sleeping(r, p) /\ Watching(r, p)
  BY DEF Sound, Base, Sleeping, Watching, Typed, Members, Owed, UnderWay
<1> QED
  BY <1>1, <1>5, <1>6, <1>7 DEF Kept, Sound, Base

\* ... and undimmed.
LEMMA UndimKeeps ==
  ASSUME NEW m, NEW p \in BOOLEAN, NEW w, NEW d \in Int, Sound(m, p, w, d),
         ~Dark(m), m.backlightReduced, IdleTime(m) = 0
  PROVE  Kept(Undim(m, 0), p, w, d)
<1> DEFINE fade == [from |-> m.backlight, to |-> Clamped(m.originalBrightness), step |-> 0]
           n == [m EXCEPT !.transitionInProgress = TRUE, !.transitionTimer = TRUE,
                          !.fade = fade, !.backlightReduced = FALSE, !.prevIdleTime = 0,
                          !.idleTimer = TRUE]
<1>0. Typed(m) /\ DOMAIN m = Members /\ m.originalBrightness \in 1..Backlight
  BY DEF Sound, Base, Typed
<1>1. SetBrightnessImmediate(m, m.originalBrightness, FALSE) =
        [m EXCEPT !.transitionInProgress = TRUE, !.transitionTimer = TRUE, !.fade = fade]
  BY <1>0, Immediately
<1>2. Undim(m, 0) = n
  BY <1>0, <1>1 DEF Undim, Members
<1>3. /\ fade \in [from : Int, to : Int, step : Int] /\ fade.to = m.originalBrightness
      /\ Clamped(fade.to) = m.originalBrightness
  <2>1. m.originalBrightness \in Int /\ m.backlight \in Int
    BY <1>0, Sizes DEF Typed
  <2>2. Clamped(m.originalBrightness) = m.originalBrightness
    BY <1>0, <2>1, ClampedFits
  <2> QED
    BY <2>1, <2>2
<1> HIDE DEF fade
<1>4. Typed(n)
  BY <1>0, <1>3 DEF Typed, Members
<1>5. Fading(n) /\ Locking(n) /\ Late(n, d) /\ Noticing(n, w) /\ Remembering(n)
  BY DEF Sound, Base, Late, Typed, Locking, Fading, Sleeping, Noticing, Heeding, Waking,
      Remembering, Lighting, Dark, Away, Owed, UnderWay, Timeout, Timeouts, IdleTime,
      Members
<1>6. Lighting(n)
  BY <1>3 DEF Sound, Base, Late, Typed, Locking, Fading, Sleeping, Noticing, Heeding,
      Waking, Remembering, Lighting, Dark, Away, Owed, UnderWay, Timeout, Timeouts,
      IdleTime, Members
<1>7. Sleeping(n, p) /\ Watching(n, p)
  BY DEF Sound, Base, Sleeping, Watching, Typed, Members, Owed, UnderWay
<1> QED
  BY <1>2, <1>4, <1>5, <1>6, <1>7 DEF Kept, Sound, Base

\* Dimming further with the charge.
LEMMA AdaptKeeps ==
  ASSUME NEW m, NEW p \in BOOLEAN, NEW w, NEW d \in Int, Sound(m, p, w, d),
         ~Dark(m), NEW x
  PROVE  LET n == Adapt(m, x)
         IN /\ Sound(n, p, w, d) /\ IdleTime(n) = IdleTime(m)
            /\ n.actionInProgress = m.actionInProgress
            /\ Away(n) <=> Away(m)
            /\ n.prevIdleTime = m.prevIdleTime /\ n.waiting = m.waiting
            /\ n.mishaps = m.mishaps /\ n.config = m.config
            /\ Watching(m, p) => Watching(n, p)
<1> DEFINE raw == m.backlight - Step
           fade == [from |-> m.backlight, to |-> Clamped(raw), step |-> 0]
           fading == [m EXCEPT !.transitionInProgress = TRUE, !.transitionTimer = TRUE,
                               !.fade = fade]
           less == Clamped(m.wanted - Step)
           now(timer) == [m EXCEPT !.transitionInProgress = FALSE, !.transitionTimer = timer,
                                   !.backlight = Clamped(raw), !.wanted = less]
<1>0. /\ Typed(m) /\ DOMAIN m = Members /\ raw \in Int /\ m.wanted - Step \in Int
  <2>1. Typed(m) /\ DOMAIN m = Members /\ m.backlight \in 1..Backlight /\ m.wanted \in 1..Backlight
    BY DEF Sound, Base, Typed
  <2>2. m.backlight \in Int /\ m.wanted \in Int /\ Step \in Int
    BY <2>1, Sizes
  <2> QED
    BY <2>1, <2>2
<1>1. Clamped(raw) \in 1..Backlight /\ less \in 1..Backlight
  BY <1>0, ClampedFits
<1>2. /\ SetBrightnessImmediate(m, raw, FALSE) = fading
      /\ ~m.transitionInProgress =>
           SetBrightnessImmediate([m EXCEPT !.wanted = Clamped(@ - Step)], raw, TRUE) =
             now(m.transitionTimer)
  <2>1. SetBrightnessImmediate(m, raw, FALSE) = fading
    BY <1>0, Immediately
  <2> DEFINE wanting == [m EXCEPT !.wanted = less]
  <2>2. DOMAIN wanting = Members
    BY <1>0
  <2>3. SetBrightnessImmediate(wanting, raw, TRUE) =
          [wanting EXCEPT !.transitionInProgress =
                       IF wanting.transitionInProgress THEN FALSE
                                                       ELSE wanting.transitionInProgress,
                     !.transitionTimer =
                       IF wanting.transitionInProgress THEN FALSE ELSE wanting.transitionTimer,
                     !.backlight = Clamped(raw)]
    BY ZenonT(30), <2>2, Immediately
  <2>4. ASSUME ~m.transitionInProgress
        PROVE  SetBrightnessImmediate(wanting, raw, TRUE) = now(m.transitionTimer)
    BY ZenonT(30), <1>0, <2>3, <2>4 DEF Typed, Members
  <2> QED
    BY <1>0, <2>1, <2>4 DEF Members
<1>3. \/ Adapt(m, x) = m
      \/ m.backlightReduced /\ Adapt(m, x) = fading
      \/ ~m.backlightReduced /\ ~m.transitionInProgress /\ Adapt(m, x) = now(m.transitionTimer)
  BY <1>2 DEF Adapt
<1>4. fade \in [from : Int, to : Int, step : Int]
  BY <1>0, <1>1 DEF Typed
<1>5. m.backlight = m.wanted => Clamped(raw) = less
  OBVIOUS
<1> HIDE DEF raw, less, fade
<1> DEFINE Good(n) ==
             /\ Sound(n, p, w, d) /\ IdleTime(n) = IdleTime(m)
             /\ n.actionInProgress = m.actionInProgress
             /\ Away(n) <=> Away(m)
             /\ n.prevIdleTime = m.prevIdleTime /\ n.waiting = m.waiting
             /\ n.mishaps = m.mishaps /\ n.config = m.config
             /\ Watching(m, p) => Watching(n, p)
<1>6. ASSUME m.backlightReduced PROVE Good(fading)
  <2>1. Typed(fading) /\ (Away(fading) <=> Away(m))
    BY <1>0, <1>4 DEF Typed, Members, Away, Dark
  <2>2. Fading(fading) /\ Locking(fading) /\ Lighting(fading) /\ Late(fading, d)
        /\ Noticing(fading, w) /\ Remembering(fading)
    BY <1>6 DEF Sound, Base, Late, Typed, Locking, Fading, Sleeping, Noticing, Heeding,
        Waking, Remembering, Lighting, Dark, Away, Owed, UnderWay, Timeout, Timeouts,
        IdleTime, Members
  <2>3. Sleeping(fading, p) /\ (Watching(m, p) => Watching(fading, p))
    BY DEF Sound, Base, Sleeping, Watching, Typed, Members, Owed, UnderWay
  <2>4. /\ IdleTime(fading) = IdleTime(m) /\ fading.actionInProgress = m.actionInProgress
        /\ fading.prevIdleTime = m.prevIdleTime /\ fading.waiting = m.waiting
        /\ fading.mishaps = m.mishaps /\ fading.config = m.config
    BY <1>0 DEF IdleTime, Members
  <2> QED
    BY <2>1, <2>2, <2>3, <2>4 DEF Sound, Base
<1>7. ASSUME ~m.backlightReduced, ~m.transitionInProgress PROVE Good(now(m.transitionTimer))
  <2> DEFINE n == now(m.transitionTimer)
  <2>1. Typed(n) /\ (Away(n) <=> Away(m))
    BY <1>0, <1>1 DEF Typed, Members, Away, Dark
  <2>2. Fading(n) /\ Locking(n) /\ Late(n, d) /\ Noticing(n, w) /\ Remembering(n)
    BY <1>7 DEF Sound, Base, Late, Typed, Locking, Fading, Sleeping, Noticing, Heeding,
        Waking, Remembering, Lighting, Dark, Away, Owed, UnderWay, Timeout, Timeouts,
        IdleTime, Members
  <2>5. Lighting(n)
    BY <1>5, <1>7 DEF Sound, Base, Late, Typed, Locking, Fading, Sleeping, Noticing,
        Heeding, Waking, Remembering, Lighting, Dark, Away, Owed, UnderWay, Timeout,
        Timeouts, IdleTime, Members
  <2>3. Sleeping(n, p) /\ (Watching(m, p) => Watching(n, p))
    BY DEF Sound, Base, Sleeping, Watching, Typed, Members, Owed, UnderWay
  <2>4. /\ IdleTime(n) = IdleTime(m) /\ n.actionInProgress = m.actionInProgress
        /\ n.prevIdleTime = m.prevIdleTime /\ n.waiting = m.waiting
        /\ n.mishaps = m.mishaps /\ n.config = m.config
    BY <1>0 DEF IdleTime, Members
  <2> QED
    BY <2>1, <2>2, <2>3, <2>4, <2>5 DEF Sound, Base
<1> DEFINE adapted == Adapt(m, x)
<1>8. Good(m)
  OBVIOUS
<1> HIDE DEF Good, fading, now
<1>9. Good(Adapt(m, x))
  BY <1>3, <1>6, <1>7, <1>8
<1> QED
  BY <1>9 DEF Good

-----------------------------------------------------------------------------
(* The poll of the battery. *)

\* What the poll's handlers leave alone.
Alike(n, m) ==
  /\ DOMAIN n = Members
  /\ n.config = m.config /\ n.chargingState = m.chargingState /\ n.warning = m.warning
  /\ n.idle = m.idle /\ n.since = m.since /\ n.justWokeUp = m.justWokeUp
  /\ n.inPowernap = m.inPowernap /\ n.presentationMode = m.presentationMode
  /\ n.mediaPlaying = m.mediaPlaying /\ n.prevIdleTime = m.prevIdleTime
  /\ n.actionInProgress = m.actionInProgress

\* A change of brightness leaves the rest alone.
LEMMA ImmediatelyAlike ==
  ASSUME NEW m, DOMAIN m = Members, NEW raw, NEW force \in BOOLEAN
  PROVE  Alike(SetBrightnessImmediate(m, raw, force), m)
<1> DEFINE tip == IF m.transitionInProgress THEN FALSE ELSE m.transitionInProgress
           timer == IF m.transitionInProgress THEN FALSE ELSE m.transitionTimer
           now == [m EXCEPT !.transitionInProgress = tip, !.transitionTimer = timer,
                            !.backlight = Clamped(raw)]
           fade == [from |-> m.backlight, to |-> Clamped(raw), step |-> 0]
           slow == [m EXCEPT !.transitionInProgress = TRUE, !.transitionTimer = TRUE,
                             !.fade = fade]
<1>1. SetBrightnessImmediate(m, raw, force) = IF force THEN now ELSE slow
  BY Immediately
<1> HIDE DEF tip, timer, fade
<1>2. Alike(now, m) /\ Alike(slow, m)
  BY DEF Alike, Members
<1> HIDE DEF now, slow
<1> QED
  BY <1>1, <1>2

\* A dimmed screen fades back.
LEMMA FadeBackKeeps ==
  ASSUME NEW m, NEW p \in BOOLEAN, NEW w, NEW d \in Int, Sound(m, p, w, d),
         ~Dark(m), m.backlightReduced, IdleTime(m) = 0
  PROVE  LET n == SetBrightnessImmediate([m EXCEPT !.backlightReduced = FALSE],
                                         m.originalBrightness, FALSE)
         IN /\ Sound(n, p, w, d) /\ ~Away(n) /\ Alike(n, m)
            /\ Watching(m, p) => Watching(n, p)
<1> DEFINE original == m.originalBrightness
           dimmed == [m EXCEPT !.backlightReduced = FALSE]
           fade == [from |-> dimmed.backlight, to |-> Clamped(original), step |-> 0]
           r == [m EXCEPT !.backlightReduced = FALSE, !.transitionInProgress = TRUE,
                          !.transitionTimer = TRUE, !.fade = fade]
<1>1. Typed(m) /\ DOMAIN m = Members /\ original \in 1..Backlight
  BY DEF Sound, Base, Typed
<1>2. DOMAIN dimmed = Members /\ dimmed.backlight \in 1..Backlight
  BY <1>1 DEF Typed, Members
<1>3. /\ fade \in [from : Int, to : Int, step : Int]
      /\ Clamped(fade.to) = m.originalBrightness
  <2>1. original \in Int /\ dimmed.backlight \in Int
    BY <1>1, <1>2, Sizes
  <2>2. Clamped(original) = original
    BY <1>1, <2>1, ClampedFits
  <2> HIDE DEF dimmed, original
  <2>3. fade \in [from : Int, to : Int, step : Int] /\ Clamped(fade.to) = original
    BY <2>1, <2>2
  <2> QED
    BY <2>3 DEF original
<1>4. SetBrightnessImmediate(dimmed, original, FALSE) =
        [dimmed EXCEPT !.transitionInProgress = TRUE, !.transitionTimer = TRUE, !.fade = fade]
  <2> HIDE DEF dimmed
  <2> QED
    BY <1>2, Immediately
<1> HIDE DEF fade
<1>5. SetBrightnessImmediate(dimmed, original, FALSE) = r
  BY <1>1, <1>4 DEF Members
<1>6. Typed(r) /\ ~Away(r)
  BY <1>1, <1>3 DEF Typed, Members, Away, Dark
<1>7. Fading(r) /\ Locking(r) /\ Late(r, d) /\ Noticing(r, w) /\ Remembering(r)
  BY DEF Sound, Base, Late, Typed, Locking, Fading, Sleeping, Noticing, Heeding, Waking,
      Remembering, Lighting, Dark, Away, Owed, UnderWay, Timeout, Timeouts, IdleTime,
      Members
<1>8. Lighting(r)
  BY <1>3 DEF Sound, Base, Late, Typed, Locking, Fading, Sleeping, Noticing, Heeding,
      Waking, Remembering, Lighting, Dark, Away, Owed, UnderWay, Timeout, Timeouts,
      IdleTime, Members
<1>9. Sleeping(r, p) /\ (Watching(m, p) => Watching(r, p))
  BY DEF Sound, Base, Sleeping, Watching, Typed, Members, Owed, UnderWay
<1>10. Alike(r, m)
  BY <1>1 DEF Alike, Members
<1> HIDE DEF r
<1> QED
  BY <1>5, <1>6, <1>7, <1>8, <1>9, <1>10 DEF Sound, Base

\* The user is taken to be there: the screen is lit.
LEMMA SimulatedKeeps ==
  ASSUME NEW m, NEW p \in BOOLEAN, NEW w, NEW d \in Int, Sound(m, p, w, d)
  PROVE  LET n == SimulateUserActivity(m)
         IN /\ Sound(n, p, w, d) /\ ~Away(n)
            /\ Watching(m, p) => Watching(n, p)
            /\ n.justWokeUp = m.justWokeUp
            /\ ~n.justWokeUp => IdleTime(n) = 0
            /\ n.config = m.config /\ n.chargingState = m.chargingState
            /\ n.warning = m.warning /\ n.inPowernap = m.inPowernap
<1> DEFINE n == SimulateUserActivity(m)
           reset == [m EXCEPT !.idle = 0]
           Good(r) == /\ Sound(r, p, w, d) /\ ~Away(r)
                      /\ Watching(m, p) => Watching(r, p)
                      /\ r.justWokeUp = m.justWokeUp
                      /\ ~r.justWokeUp => IdleTime(r) = 0
                      /\ r.config = m.config /\ r.chargingState = m.chargingState
                      /\ r.warning = m.warning /\ r.inPowernap = m.inPowernap
<1>0. Typed(m) /\ DOMAIN m = Members /\ (m.justWokeUp => ~Away(m))
  BY DEF Sound, Base, Typed, Noticing, Waking
<1>1. /\ Sound(reset, p, w, d) /\ IdleTime(reset) = 0
      /\ reset.config = m.config /\ reset.chargingState = m.chargingState
      /\ reset.warning = m.warning /\ reset.inPowernap = m.inPowernap
      /\ reset.justWokeUp = m.justWokeUp
      /\ reset.backlightReduced = m.backlightReduced
      /\ reset.screenSleeping = m.screenSleeping
      /\ reset.screensaverActive = m.screensaverActive
      /\ reset.originalBrightness = m.originalBrightness
      /\ reset.since = m.since /\ reset.idle = 0
  <2>1. Typed(reset)
    BY <1>0, Sizes DEF Typed, Members
  <2>2. IdleTime(reset) = 0
    BY <1>0 DEF Typed, Members, IdleTime
  <2>3. /\ Locking(reset) /\ Fading(reset) /\ Sleeping(reset, p) /\ Late(reset, d)
        /\ Noticing(reset, w) /\ Remembering(reset)
    BY DEF Sound, Base, Late, Typed, Locking, Fading, Sleeping, Noticing, Heeding, Waking,
        Remembering, Lighting, Dark, Away, Owed, UnderWay, Timeout, Timeouts, IdleTime,
        Members
  <2>4. Lighting(reset)
    BY <2>2 DEF Sound, Base, Lighting, Typed, Members, Away, Dark
  <2> QED
    BY <1>0, <2>1, <2>2, <2>3, <2>4 DEF Sound, Base, Members
<1>2. Watching(m, p) => Watching(reset, p)
  BY <1>0 DEF Watching, Typed, Members, UnderWay
<1>3. DOMAIN reset = Members /\ IdleTime(reset) = 0
  BY <1>1 DEF Sound, Base, Typed
<1>4. CASE m.justWokeUp
  <2>1. n = m
    BY <1>4 DEF SimulateUserActivity
  <2> QED
    BY <1>0, <1>4, <2>1
<1> DEFINE original == m.originalBrightness
           Lit(up) == SetBrightnessImmediate(up, original, TRUE)
           covered == [reset EXCEPT !.screensaverActive = FALSE, !.backlightReduced = FALSE]
           off == [reset EXCEPT !.screenSleeping = FALSE, !.backlightReduced = FALSE]
           dimmed == [reset EXCEPT !.backlightReduced = FALSE]
<1>5. CASE ~m.justWokeUp /\ m.screensaverActive
  <2>1. ~m.screenSleeping
    BY <1>0, <1>5 DEF Typed
  <2>2. ~Away(covered) /\ Away(reset) /\ DOMAIN covered = Members
    BY <1>1, <1>3, <1>5, <2>1 DEF Away, Dark, Members
  <2>3. Alike(covered, reset)
    BY <1>3 DEF Alike, Members
  <2>4. Alike(Lit(covered), covered)
    BY <2>2, ImmediatelyAlike
  <2>5. /\ Sound(Lit(covered), p, w, d) /\ ~Away(Lit(covered))
        /\ Watching(reset, p) => Watching(Lit(covered), p)
    BY <1>1, <2>2, LitKeeps
  <2>6. n = WokeUp(Lit(covered))
    <3> DEFINE lit == Lit(covered)
    <3>1. Alike(lit, lit) /\ ~lit.backlightReduced
      BY <2>4, <2>5 DEF Alike, Away
    <3>2. ~WokeUp(lit).backlightReduced
      BY <3>1 DEF WokeUp, DismissScreensaver, Alike, Members
    <3> HIDE DEF lit
    <3>3. SimulateUserActivity(m) = WokeUp(lit)
      BY <1>5, <2>1, <3>2 DEF SimulateUserActivity, lit
    <3> QED
      BY <3>3 DEF lit
  <2> HIDE DEF Lit, covered, n
  <2>7. /\ Sound(n, p, w, d)
        /\ Watching(Lit(covered), p) => Watching(n, p)
    BY <2>5, <2>6, WokeUpKeeps
  <2>8. Alike(n, Lit(covered)) /\ ~Away(n)
    BY <2>4, <2>5, <2>6 DEF WokeUp, DismissScreensaver, Alike, Members, Away, Dark
  <2>9. Alike(n, reset) /\ IdleTime(n) = 0
    BY <1>3, <2>3, <2>4, <2>8 DEF Alike, IdleTime
  <2> QED
    BY <1>1, <1>2, <2>5, <2>7, <2>8, <2>9 DEF Alike, n
<1>6. CASE ~m.justWokeUp /\ ~m.screensaverActive /\ m.screenSleeping
  <2>1. n = Lit(off)
    BY <1>6 DEF SimulateUserActivity
  <2>2. ~Away(off) /\ Away(reset) /\ DOMAIN off = Members /\ Alike(off, reset)
    BY <1>1, <1>3, <1>6 DEF Away, Dark, Members, Alike
  <2>4. Alike(Lit(off), off)
    BY <2>2, ImmediatelyAlike
  <2>5. /\ Sound(Lit(off), p, w, d) /\ ~Away(Lit(off))
        /\ Watching(reset, p) => Watching(Lit(off), p)
    BY <1>1, <2>2, LitKeeps
  <2> HIDE DEF Lit, off, n
  <2>9. Alike(n, reset) /\ IdleTime(n) = 0
    BY <1>3, <2>1, <2>2, <2>4 DEF Alike, IdleTime
  <2> QED
    BY <1>1, <1>2, <2>1, <2>5, <2>9 DEF Alike, n
<1>7. CASE ~m.justWokeUp /\ ~m.screensaverActive /\ ~m.screenSleeping /\ m.backlightReduced
  <2>1. n = SetBrightnessImmediate(dimmed, original, FALSE)
    BY <1>1, <1>7 DEF SimulateUserActivity
  <2>2. ~Dark(reset) /\ reset.backlightReduced
    BY <1>1, <1>7 DEF Dark
  <2> HIDE DEF reset, n
  <2>3. /\ Sound(n, p, w, d) /\ ~Away(n) /\ Alike(n, reset)
        /\ Watching(reset, p) => Watching(n, p)
    BY <1>1, <1>3, <2>1, <2>2, FadeBackKeeps
  <2>4. IdleTime(n) = 0
    BY <1>3, <2>3 DEF Alike, IdleTime
  <2> QED
    BY <1>1, <1>2, <2>3, <2>4 DEF Alike, n
<1>8. CASE ~m.justWokeUp /\ ~Away(m)
  <2>1. n = reset
    BY <1>1, <1>8 DEF SimulateUserActivity, Away, Dark
  <2>2. ~Away(reset)
    BY <1>1, <1>8 DEF Away, Dark
  <2> HIDE DEF reset, n
  <2> QED
    BY <1>1, <1>2, <2>1, <2>2 DEF n
<1> QED
  BY <1>0, <1>4, <1>5, <1>6, <1>7, <1>8 DEF Away, Dark, Typed

\* The brightness follows the charger.
LEMMA FollowedKeeps ==
  ASSUME NEW m, NEW p \in BOOLEAN, NEW w, NEW d \in Int, Sound(m, p, w, d),
         ~Away(m), ~m.justWokeUp => IdleTime(m) = 0
  PROVE  LET n == Followed(m)
         IN /\ Sound(n, p, w, d) /\ ~Away(n) /\ Alike(n, m)
            /\ Watching(m, p) => Watching(n, p)
<1> DEFINE percent == (m.backlight * 100) \div Backlight
           by == CASE m.chargingState = 1 /\ percent <= 60 -> 30
                   [] m.chargingState = 1 /\ percent \in 61..80 -> 20
                   [] m.chargingState = 0 /\ percent >= 50 -> -30
                   [] m.chargingState = 0 /\ percent \in 31..49 -> -20
                   [] OTHER -> 0
           delta == by * Step
           less == Clamped(m.wanted + delta)
           wanting == [m EXCEPT !.wanted = less]
           fade == [from |-> m.backlight, to |-> Clamped(m.backlight + delta), step |-> 0]
           slow == SetBrightnessImmediate(wanting, m.backlight + delta, FALSE)
           fading == [m EXCEPT !.wanted = less, !.transitionInProgress = TRUE,
                               !.transitionTimer = TRUE, !.fade = fade]
           noted == [m EXCEPT !.wanted = less, !.transitionInProgress = TRUE,
                              !.transitionTimer = TRUE, !.fade = fade,
                              !.mishaps = @ \cup {"overruled"}]
           n == Followed(m)
<1>0. /\ Typed(m) /\ DOMAIN m = Members /\ m.backlight \in 1..Backlight
      /\ m.wanted \in 1..Backlight /\ m.transitionInProgress \in BOOLEAN
  BY DEF Sound, Base, Typed
<1>1. delta \in Int
  <2>1. by \in {30, 20, -30, -20, 0}
    OBVIOUS
  <2> HIDE DEF by
  <2>2. by \in Int /\ Step \in Int
    BY <2>1, Sizes
  <2> QED
    BY <2>2
<1>2. Followed(m) \in {m, NoteIf(m.transitionInProgress, slow, "overruled")}
      /\ (Followed(m) # m => ~m.justWokeUp)
  BY DEF Followed
<1> HIDE DEF delta
<1>3. slow = fading
  <2>1. DOMAIN wanting = Members /\ wanting.backlight = m.backlight
    BY <1>0 DEF Members
  <2> HIDE DEF wanting
  <2>2. SetBrightnessImmediate(wanting, m.backlight + delta, FALSE) =
          [wanting EXCEPT !.transitionInProgress = TRUE, !.transitionTimer = TRUE,
             !.fade = [from |-> wanting.backlight, to |-> Clamped(m.backlight + delta),
                       step |-> 0]]
    BY <2>1, Immediately
  <2>3. SetBrightnessImmediate(wanting, m.backlight + delta, FALSE) =
          [wanting EXCEPT !.transitionInProgress = TRUE, !.transitionTimer = TRUE, !.fade = fade]
    BY <2>1, <2>2
  <2> HIDE DEF fade
  <2> QED
    BY <1>0, <2>3 DEF wanting, Members
<1>4. /\ m.transitionInProgress => NoteIf(m.transitionInProgress, fading, "overruled") = noted
      /\ ~m.transitionInProgress => NoteIf(m.transitionInProgress, fading, "overruled") = fading
  <2> HIDE DEF fade, less
  <2> QED
    BY <1>0 DEF NoteIf, Note, Members
<1>5. /\ fade \in [from : Int, to : Int, step : Int] /\ less \in 1..Backlight
      /\ m.backlight = m.wanted => Clamped(fade.to) = less
  <2>1. m.backlight \in Int /\ m.wanted \in Int
    BY <1>0, Sizes
  <2>2. m.backlight + delta \in Int /\ m.wanted + delta \in Int
    BY <1>1, <2>1
  <2>3. /\ Clamped(m.backlight + delta) \in 1..Backlight
        /\ Clamped(m.wanted + delta) \in 1..Backlight
    BY <2>2, ClampedFits
  <2>4. Clamped(m.backlight + delta) \in Int
    BY <2>3, Sizes
  <2>5. Clamped(Clamped(m.backlight + delta)) = Clamped(m.backlight + delta)
    BY <2>3, <2>4, ClampedFits
  <2> QED
    BY <2>1, <2>3, <2>4, <2>5
<1> DEFINE Good(r) == /\ Sound(r, p, w, d) /\ ~Away(r) /\ Alike(r, m)
                      /\ Watching(m, p) => Watching(r, p)
<1> HIDE DEF fade, less
<1>6. ASSUME m.transitionInProgress PROVE Good(noted)
  <2>1. Typed(noted) /\ ~Away(noted) /\ Alike(noted, m)
    BY <1>0, <1>5 DEF Typed, Members, Away, Dark, Alike
  <2>2. Fading(noted) /\ Locking(noted) /\ Late(noted, d) /\ Noticing(noted, w)
        /\ Remembering(noted) /\ Lighting(noted)
    BY DEF Sound, Base, Late, Typed, Locking, Fading, Sleeping, Noticing, Heeding, Waking,
        Remembering, Lighting, Dark, Away, Owed, UnderWay, Timeout, Timeouts, IdleTime,
        Members
  <2>3. Sleeping(noted, p) /\ (Watching(m, p) => Watching(noted, p))
    BY DEF Sound, Base, Sleeping, Watching, Typed, Members, Owed, UnderWay, Forgotten
  <2> QED
    BY <2>1, <2>2, <2>3 DEF Sound, Base
<1>7. ASSUME ~m.transitionInProgress, ~m.justWokeUp PROVE Good(fading)
  <2>1. Typed(fading) /\ ~Away(fading) /\ Alike(fading, m)
    BY <1>0, <1>5 DEF Typed, Members, Away, Dark, Alike
  <2>2. Fading(fading) /\ Locking(fading) /\ Late(fading, d) /\ Noticing(fading, w)
        /\ Remembering(fading)
    BY DEF Sound, Base, Late, Typed, Locking, Fading, Sleeping, Noticing, Heeding, Waking,
        Remembering, Lighting, Dark, Away, Owed, UnderWay, Timeout, Timeouts, IdleTime,
        Members
  <2>3. Lighting(fading)
    BY <1>5, <1>7 DEF Sound, Base, Late, Typed, Locking, Fading, Sleeping, Noticing,
        Heeding, Waking, Remembering, Lighting, Dark, Away, Owed, UnderWay, Timeout,
        Timeouts, IdleTime, Members
  <2>4. Sleeping(fading, p) /\ (Watching(m, p) => Watching(fading, p))
    BY DEF Sound, Base, Sleeping, Watching, Typed, Members, Owed, UnderWay
  <2> QED
    BY <2>1, <2>2, <2>3, <2>4 DEF Sound, Base
<1>8. Good(m)
  BY <1>0 DEF Alike
<1> HIDE DEF slow, fading, noted, Good, n
<1>9. Good(n)
  BY <1>0, <1>2, <1>3, <1>4, <1>6, <1>7, <1>8 DEF n
<1> QED
  BY <1>9 DEF Good, n

\* The idle timer runs.
LEMMA RunningKeeps ==
  ASSUME NEW m, NEW p \in BOOLEAN, NEW w, NEW d \in Int, Sound(m, p, w, d)
  PROVE  /\ Kept([m EXCEPT !.idleTimer = TRUE, !.mprisTimer = TRUE], p, w, d)
         /\ Kept([m EXCEPT !.idleTimer = TRUE], p, w, d)
<1>1. Kept([m EXCEPT !.idleTimer = TRUE, !.mprisTimer = TRUE], p, w, d)
  BY DEF Kept, Watching, Sound, Base, Late, Typed, Locking, Fading, Sleeping, Noticing,
      Heeding, Waking, Remembering, Lighting, Dark, Away, Owed, UnderWay, Timeout, Timeouts,
      IdleTime, Members
<1>2. Kept([m EXCEPT !.idleTimer = TRUE], p, w, d)
  BY DEF Kept, Watching, Sound, Base, Late, Typed, Locking, Fading, Sleeping, Noticing,
      Heeding, Waking, Remembering, Lighting, Dark, Away, Owed, UnderWay, Timeout, Timeouts,
      IdleTime, Members
<1> QED
  BY <1>1, <1>2

\* A lid that is closed.
LEMMA LidClosedKeeps ==
  ASSUME NEW m, NEW p \in BOOLEAN, NEW w, NEW d \in Int, Sound(m, p, w, d),
         NEW net, NEW ok \in BOOLEAN
  PROVE  LET n == LidClosed(m, net, ok)
         IN /\ Kept(n, p, w, d)
            /\ Away(n) <=> Away(m)
            /\ n.config = m.config /\ n.prevIdleTime = m.prevIdleTime
<1> DEFINE v == IF m.saver = "none" THEN "none" ELSE "black"
           still == [m EXCEPT !.saver = v, !.idleTimer = FALSE, !.mprisTimer = FALSE]
           Running(r) == [r EXCEPT !.idleTimer = TRUE, !.mprisTimer = TRUE]
           nap == [m EXCEPT !.saver = v, !.idleTimer = FALSE, !.mprisTimer = FALSE,
                            !.inPowernap = TRUE]
           locked == LockScreen(still, FALSE, net)
           asleep == SuspendSystem(still, -1, ok)
           Good(r) == /\ Kept(r, p, w, d)
                      /\ Away(r) <=> Away(m)
                      /\ r.config = m.config /\ r.prevIdleTime = m.prevIdleTime
           Same(r) == /\ DOMAIN r = Members
                      /\ Away(r) <=> Away(m)
                      /\ r.config = m.config /\ r.prevIdleTime = m.prevIdleTime
<1>0. Typed(m) /\ DOMAIN m = Members
  BY DEF Sound, Base, Typed
<1>1. /\ m.actionInProgress => LidClosed(m, net, ok) = m
      /\ ~m.actionInProgress =>
           LidClosed(m, net, ok) \in {nap, Running(locked), asleep, Running(still)}
  <2> DEFINE st == [Blackout(m) EXCEPT !.idleTimer = FALSE, !.mprisTimer = FALSE]
  <2>1. st = still
    BY <1>0 DEF Blackout, Members
  <2>2. [still EXCEPT !.inPowernap = TRUE] = nap
    BY <1>0 DEF Members
  <2> HIDE DEF st, still, nap
  <2>3. /\ m.actionInProgress => LidClosed(m, net, ok) = m
        /\ ~m.actionInProgress =>
             LidClosed(m, net, ok) \in
               {[st EXCEPT !.inPowernap = TRUE], Running(LockScreen(st, FALSE, net)),
                SuspendSystem(st, -1, ok), Running(st)}
    BY DEF LidClosed, st
  <2> QED
    BY <2>1, <2>2, <2>3
<1>2. ASSUME m.actionInProgress PROVE Good(m)
  BY <1>2 DEF Kept, Watching, Sound, Base, Sleeping
<1>3. Sound(still, p, w, d) /\ Same(still)
  <2>1. Sound(still, p, w, d)
    BY DEF Sound, Base, Late, Typed, Locking, Fading, Sleeping, Noticing, Heeding, Waking,
        Remembering, Lighting, Dark, Away, Owed, UnderWay, Timeout, Timeouts, IdleTime,
        Members
  <2>2. Same(still)
    BY <1>0 DEF Members, Away, Dark
  <2> QED
    BY <2>1, <2>2
<1>4. Good(nap)
  <2>1. Sound(nap, p, w, d)
    BY DEF Sound, Base, Late, Typed, Locking, Fading, Sleeping, Noticing, Heeding, Waking,
        Remembering, Lighting, Dark, Away, Owed, UnderWay, Timeout, Timeouts, IdleTime,
        Members
  <2>2. Watching(nap, p) /\ Same(nap)
    BY <1>0 DEF Members, Away, Dark, Watching
  <2> QED
    BY <2>1, <2>2 DEF Kept
<1>5. ASSUME NEW r, Sound(r, p, w, d), Same(r) PROVE Good(Running(r))
  <2>1. Kept(Running(r), p, w, d)
    BY <1>5, RunningKeeps
  <2>2. Same(Running(r))
    BY <1>5 DEF Members, Away, Dark
  <2> QED
    BY <2>1, <2>2
<1>6. Sound(locked, p, w, d) /\ Same(locked)
  <2> HIDE DEF still
  <2>1. Sound(locked, p, w, d)
    BY <1>3, LockScreenKeeps
  <2>2. SameScreen(locked, still)
    BY <1>3, LockScreenLeaves DEF Sound, Base
  <2>3. DOMAIN locked = Members
    BY <2>1 DEF Sound, Base, Typed
  <2> QED
    BY <1>3, <2>1, <2>2, <2>3 DEF SameScreen, Away, Dark
<1>7. Good(asleep)
  <2> HIDE DEF still
  <2>1. Kept(asleep, p, w, d)
    BY <1>3, SuspendAloneKeeps DEF Sound, Base, Loose, Sleeping
  <2>2. Same(asleep)
    <3>1. DOMAIN still = Members
      BY <1>3
    <3> DEFINE going == [still EXCEPT !.actionInProgress = TRUE, !.delayLock = FALSE,
                                      !.idleTimer = FALSE]
               rest == [next |-> "logind", seen |-> -1]
    <3>2. Same(going)
      BY <1>3, <3>1 DEF Members, Away, Dark
    <3>3. asleep \in {still, RunSleepTransition(going, rest), AskLogind(going, ok)}
      BY DEF SuspendSystem, KeepWatching
    <3> HIDE DEF going, rest
    <3>4. Same(RunSleepTransition(going, rest))
      BY <3>2 DEF RunSleepTransition, DismissScreensaver, Members, Away, Dark
    <3> DEFINE u == IF going.saver = "none" THEN "none" ELSE "black"
               yes == [going EXCEPT !.saver = u, !.actionInProgress = TRUE, !.asked = "sleep"]
               no == [going EXCEPT !.saver = u, !.actionInProgress = FALSE,
                                   !.mishaps = @ \cup {"refused"}]
    <3>5. AskLogind(going, ok) = IF ok THEN yes ELSE no
      BY <3>2 DEF AskLogind, NoteIf, Note, Blackout, Members
    <3> HIDE DEF u
    <3>6. Same(yes) /\ Same(no)
      BY <3>2 DEF Members, Away, Dark
    <3> HIDE DEF yes, no, Same
    <3> QED
      BY <1>3, <3>3, <3>4, <3>5, <3>6
  <2> QED
    BY <2>1, <2>2
<1> HIDE DEF Running, locked, asleep, nap, still
<1>8. Good(LidClosed(m, net, ok))
  BY SMTT(30), <1>0, <1>1, <1>2, <1>3, <1>4, <1>5, <1>6, <1>7 DEF Typed
<1> QED
  BY <1>8

\* The seconds after a wake-up are over.
LEMMA SettledKeeps ==
  ASSUME NEW m, NEW p \in BOOLEAN, NEW w, NEW d \in Int, Kept(m, p, w, d)
  PROVE  LET n == [m EXCEPT !.justWokeUp = FALSE]
         IN /\ Kept(n, p, w, d) /\ (Away(n) <=> Away(m)) /\ (Dark(n) <=> Dark(m))
            /\ IdleTime(n) = IdleTime(m) /\ Timeouts(n) = Timeouts(m) /\ ~n.justWokeUp
            /\ n.config = m.config /\ n.prevIdleTime = m.prevIdleTime
            /\ n.inPowernap = m.inPowernap /\ n.actionInProgress = m.actionInProgress
            /\ n.since = m.since
<1> DEFINE n == [m EXCEPT !.justWokeUp = FALSE]
<1>1. DOMAIN m = Members
  BY DEF Kept, Sound, Base, Typed
<1>2. Sound(n, p, w, d)
  BY DEF Kept, Sound, Base, Late, Typed, Locking, Fading, Sleeping, Noticing, Heeding,
      Waking, Remembering, Lighting, Dark, Away, Owed, UnderWay, Timeout, Timeouts,
      IdleTime, Members
<1>3. Watching(n, p)
  BY <1>1 DEF Kept, Watching, Members, UnderWay
<1>4. /\ (Away(n) <=> Away(m)) /\ (Dark(n) <=> Dark(m))
      /\ IdleTime(n) = IdleTime(m) /\ Timeouts(n) = Timeouts(m) /\ ~n.justWokeUp
      /\ n.config = m.config /\ n.prevIdleTime = m.prevIdleTime
      /\ n.inPowernap = m.inPowernap /\ n.actionInProgress = m.actionInProgress
      /\ n.since = m.since
  BY <1>1 DEF Away, Dark, IdleTime, Timeouts, Members
<1> QED
  BY <1>2, <1>3, <1>4 DEF Kept

\* The charger has come or gone: the screen is lit, and the idle time starts again.
LEMMA ReadChargerKeeps ==
  ASSUME NEW m, NEW p \in BOOLEAN, NEW w, NEW v, NEW d \in Int, Kept(m, p, w, d),
         NEW x, x.mains \in {0, 1}, x.mains # m.chargingState, x.ok \in BOOLEAN,
         m.warning <= v[x.mains]
  PROVE  LET n == ReadCharger(m, x)
         IN /\ Kept(n, p, v, d) /\ ~Away(n) /\ n.prevIdleTime = 0
            /\ n.config = m.config
            /\ n.inPowernap = m.inPowernap \/ x.mains = 0
<1> DEFINE plugged == [m EXCEPT !.chargingState = x.mains]
           active == SimulateUserActivity(plugged)
           timer == IF ~m.presentationMode /\ ~m.mediaPlaying THEN TRUE ELSE active.idleTimer
           started == [active EXCEPT !.prevIdleTime = 0, !.idleTimer = timer]
           followed == Followed(started)
           lid == LidClosed([followed EXCEPT !.inPowernap = FALSE], x.net, x.ok)
           Woke(r) == [r EXCEPT !.justWokeUp = FALSE]
<1>0. Typed(m) /\ DOMAIN m = Members
  BY DEF Kept, Sound, Base, Typed
<1>1. /\ Sound(plugged, p, v, d) /\ plugged.config = m.config
      /\ plugged.inPowernap = m.inPowernap
      /\ Watching(plugged, p)
  <2>1. Typed(plugged)
    BY <1>0 DEF Typed, Members
  <2>2. /\ Locking(plugged) /\ Fading(plugged) /\ Sleeping(plugged, p) /\ Late(plugged, d)
        /\ Remembering(plugged) /\ Lighting(plugged)
    BY DEF Kept, Sound, Base, Late, Typed, Locking, Fading, Sleeping, Noticing, Heeding,
        Waking, Remembering, Lighting, Dark, Away, Owed, UnderWay, Timeout, Timeouts,
        IdleTime, Members
  <2>3. Noticing(plugged, v)
    BY DEF Kept, Sound, Base, Late, Typed, Locking, Fading, Sleeping, Noticing, Heeding,
        Waking, Remembering, Lighting, Dark, Away, Owed, UnderWay, Timeout, Timeouts,
        IdleTime, Members
  <2>4. Watching(plugged, p)
    BY <1>0 DEF Kept, Watching, Members, UnderWay
  <2> QED
    BY <1>0, <2>1, <2>2, <2>3, <2>4 DEF Sound, Base, Members
<1> HIDE DEF plugged
<1>2. /\ Sound(active, p, v, d) /\ ~Away(active)
      /\ ~active.justWokeUp => IdleTime(active) = 0
      /\ active.config = m.config /\ active.inPowernap = m.inPowernap
      /\ Watching(active, p)
  BY <1>1, SimulatedKeeps
<1> HIDE DEF active
<1>3. /\ Sound(started, p, v, d) /\ ~Away(started)
      /\ ~started.justWokeUp => IdleTime(started) = 0
      /\ started.config = m.config /\ started.inPowernap = m.inPowernap
      /\ started.prevIdleTime = 0
      /\ Watching(started, p)
  <2>0. DOMAIN active = Members /\ timer \in BOOLEAN /\ (active.idleTimer => timer)
    BY <1>2 DEF Sound, Base, Typed
  <2> HIDE DEF timer
  <2>1. Sound(started, p, v, d)
    BY SMTT(30), <1>2, <2>0 DEF Sound, Base, Late, Typed, Locking, Fading, Sleeping, Noticing,
        Heeding, Waking, Remembering, Lighting, Dark, Away, Owed, UnderWay, Timeout,
        Timeouts, IdleTime, Members
  <2>2. Watching(started, p)
    BY <1>2, <2>0 DEF Watching, Members, UnderWay
  <2>3. /\ ~Away(started)
        /\ ~started.justWokeUp => IdleTime(started) = 0
        /\ started.config = m.config /\ started.inPowernap = m.inPowernap
        /\ started.prevIdleTime = 0
    BY <1>2, <2>0 DEF Members, Away, Dark, IdleTime
  <2> QED
    BY <2>1, <2>2, <2>3
<1> HIDE DEF started
<1>4. /\ Sound(followed, p, v, d) /\ ~Away(followed) /\ Alike(followed, started)
      /\ Watching(followed, p)
  BY <1>3, FollowedKeeps
<1>5. /\ followed.config = m.config /\ followed.inPowernap = m.inPowernap
      /\ followed.prevIdleTime = 0
  BY <1>3, <1>4 DEF Alike
<1>6. \/ ReadCharger(m, x) = Woke(followed)
      \/ x.mains = 0 /\ ReadCharger(m, x) = Woke(lid)
  BY DEF ReadCharger, plugged, active, started
<1> HIDE DEF followed
<1>7. ASSUME NEW r, Kept(r, p, v, d), ~Away(r), r.config = m.config, r.prevIdleTime = 0
      PROVE  LET n == Woke(r)
             IN /\ Kept(n, p, v, d) /\ ~Away(n) /\ n.prevIdleTime = 0
                /\ n.config = m.config /\ n.inPowernap = r.inPowernap
  BY <1>7, SettledKeeps
<1>8. Kept(lid, p, v, d) /\ ~Away(lid) /\ lid.config = m.config /\ lid.prevIdleTime = 0
  <2> DEFINE open == [followed EXCEPT !.inPowernap = FALSE]
  <2>0. DOMAIN followed = Members
    BY <1>4 DEF Sound, Base, Typed
  <2>1. Sound(open, p, v, d)
    BY <1>4 DEF Sound, Base, Late, Typed, Locking, Fading, Sleeping, Noticing, Heeding,
        Waking, Remembering, Lighting, Dark, Away, Owed, UnderWay, Timeout, Timeouts,
        IdleTime, Members
  <2>2. ~Away(open) /\ open.config = m.config /\ open.prevIdleTime = 0
    BY <1>4, <1>5, <2>0 DEF Members, Away, Dark
  <2> HIDE DEF open
  <2>3. LET n == LidClosed(open, x.net, x.ok)
        IN /\ Kept(n, p, v, d)
           /\ Away(n) <=> Away(open)
           /\ n.config = open.config /\ n.prevIdleTime = open.prevIdleTime
    BY <2>1, LidClosedKeeps
  <2> QED
    BY <2>2, <2>3 DEF open
<1> HIDE DEF lid
<1> DEFINE Good(n) == /\ Kept(n, p, v, d) /\ ~Away(n) /\ n.prevIdleTime = 0
                      /\ n.config = m.config
                      /\ n.inPowernap = m.inPowernap \/ x.mains = 0
<1>9. Good(Woke(followed))
  BY <1>4, <1>5, <1>7 DEF Kept
<1>10. ASSUME x.mains = 0 PROVE Good(Woke(lid))
  BY <1>7, <1>8, <1>10
<1> HIDE DEF Woke, Good
<1>11. Good(ReadCharger(m, x))
  BY <1>6, <1>9, <1>10
<1> QED
  BY <1>11 DEF Good

\* More than 40 hundredths of the range is more than the cap.
LEMMA OverTheCap ==
  ASSUME NEW b \in 1..Backlight, (b * 100) \div Backlight > 40
  PROVE  (40 * Backlight) \div 100 <= b
<1> DEFINE q == (b * 100) \div Backlight
<1>1. Backlight \in Nat \ {0} /\ b \in Nat
  BY Sizes
<1>2. q \in Int /\ q * Backlight <= b * 100
  BY <1>1
<1>3. q >= 41
  BY <1>2
<1> HIDE DEF q
<1>4. 41 * Backlight <= q * Backlight
  BY <1>1, <1>2, <1>3
<1>5. 41 * Backlight <= b * 100
  <2>1. 41 * Backlight \in Int /\ q * Backlight \in Int /\ b * 100 \in Int
    BY <1>1, <1>2
  <2> QED
    BY <1>2, <1>4, <2>1
<1> QED
  BY <1>1, <1>5

\* A brightness is set, where the screen is as the user wants it or with a note.
LEMMA CappedKeeps ==
  ASSUME NEW m, NEW p \in BOOLEAN, NEW w, NEW d \in Int, Kept(m, p, w, d),
         NEW level \in 1..Backlight, NEW wanted \in 1..Backlight
  PROVE  /\ Kept([m EXCEPT !.wanted = wanted, !.backlight = level,
                           !.mishaps = @ \cup {"overruled"}], p, w, d)
         /\ ~Away(m) /\ ~m.transitionInProgress /\ (m.backlight = m.wanted => wanted = level) =>
              Kept([m EXCEPT !.wanted = wanted, !.backlight = level], p, w, d)
<1> DEFINE noted == [m EXCEPT !.wanted = wanted, !.backlight = level,
                              !.mishaps = @ \cup {"overruled"}]
           set == [m EXCEPT !.wanted = wanted, !.backlight = level]
<1>1. Kept(noted, p, w, d)
  <2>1. Sound(noted, p, w, d)
    BY DEF Kept, Sound, Base, Late, Typed, Locking, Fading, Sleeping, Noticing, Heeding,
        Waking, Remembering, Lighting, Dark, Away, Owed, UnderWay, Timeout, Timeouts,
        IdleTime, Members
  <2>2. Watching(noted, p)
    BY DEF Kept, Watching, Sound, Base, Typed, Members, UnderWay, Forgotten
  <2> QED
    BY <2>1, <2>2 DEF Kept
<1>2. ASSUME ~Away(m), ~m.transitionInProgress, m.backlight = m.wanted => wanted = level
      PROVE  Kept(set, p, w, d)
  <2>1. Sound(set, p, w, d)
    BY <1>2 DEF Kept, Sound, Base, Late, Typed, Locking, Fading, Sleeping, Noticing,
        Heeding, Waking, Remembering, Lighting, Dark, Away, Owed, UnderWay, Timeout,
        Timeouts, IdleTime, Members
  <2>2. Watching(set, p)
    BY DEF Kept, Watching, Sound, Base, Typed, Members, UnderWay
  <2> QED
    BY <2>1, <2>2 DEF Kept
<1> QED
  BY <1>1, <1>2

\* What the poll leaves alone once the charger is read.
Polled(n, m) ==
  /\ Away(n) <=> Away(m)
  /\ Dark(n) <=> Dark(m)
  /\ n.backlightReduced = m.backlightReduced
  /\ n.idle = m.idle /\ n.since = m.since /\ n.justWokeUp = m.justWokeUp
  /\ n.config = m.config /\ n.prevIdleTime = m.prevIdleTime /\ n.waiting = m.waiting
  /\ "unseen" \in n.mishaps <=> "unseen" \in m.mishaps
  /\ n.inPowernap = m.inPowernap

\* A warning shortens the timeouts, and nothing that was noticed is forgotten.
LEMMA WarnedKeeps ==
  ASSUME NEW m, NEW p \in BOOLEAN, NEW w, NEW v, NEW d \in Int, Kept(m, p, v, d),
         NEW warning \in 0..2, warning <= w[m.chargingState],
         ~Away(m) \/ m.warning <= warning
  PROVE  LET n == [m EXCEPT !.warning = warning]
         IN /\ Kept(n, p, w, d) /\ Polled(n, m)
            /\ m.warning <= warning => /\ Timeouts(n).reduce <= Timeouts(m).reduce
                                       /\ Timeouts(n).sleep <= Timeouts(m).sleep
<1> DEFINE n == [m EXCEPT !.warning = warning]
<1>0. Typed(m) /\ DOMAIN m = Members /\ m.warning \in 0..2
  BY DEF Kept, Sound, Base, Typed
<1>1. Typed(n) /\ Polled(n, m)
  BY <1>0 DEF Typed, Members, Polled, Away, Dark
<1>2. /\ n.config = m.config /\ n.warning = warning
      /\ m.config \in {s.config : s \in Scenarios}
  BY <1>0 DEF Typed, Members
<1>3. m.warning <= warning => /\ Timeouts(n).reduce <= Timeouts(m).reduce
                              /\ Timeouts(n).sleep <= Timeouts(m).sleep
  <2> HIDE DEF n
  <2> QED
    BY <1>0, <1>2, TimeoutsShorten
<1>4. /\ Timeouts(n).reduce \in Int /\ Timeouts(n).sleep \in Int
      /\ Timeouts(m).reduce \in Int /\ Timeouts(m).sleep \in Int
  <2> HIDE DEF n
  <2> QED
    BY <1>0, <1>2, TimeoutFacts
<1>5. IdleTime(n) = IdleTime(m) /\ IdleTime(m) \in Int
  BY <1>0, Sizes DEF IdleTime, Typed, Members
<1>6. /\ Fading(n) /\ Locking(n) /\ Sleeping(n, p) /\ Watching(n, p)
  <2>1. Fading(n) /\ Locking(n)
    BY DEF Kept, Sound, Base, Typed, Fading, Locking, Members
  <2>2. Sleeping(n, p) /\ Watching(n, p)
    BY DEF Kept, Sound, Base, Sleeping, Watching, Typed, Members, Owed, UnderWay
  <2> QED
    BY <2>1, <2>2
<1>7. Lighting(n)
  BY <1>5 DEF Kept, Sound, Base, Typed, Lighting, Members, Away, Dark
<1>8. Away(m) => Timeout(n) <= Timeout(m) /\ Timeout(m) \in Int /\ Timeout(n) \in Int
  BY <1>1, <1>3, <1>4 DEF Timeout, Polled
<1>9. Late(n, d)
  BY <1>1, <1>3, <1>4 DEF Late, Polled, Kept, Sound, Base, Away
<1>10. m.prevIdleTime \in Int
  BY <1>0 DEF Typed
<1>11. n.chargingState = m.chargingState
  BY <1>0 DEF Members
<1> HIDE DEF n
<1>12. Noticing(n, w) /\ Remembering(n)
  BY <1>1, <1>2, <1>5, <1>8, <1>10, <1>11 DEF Polled, Kept, Sound, Base, Noticing, Heeding,
      Waking,
    Remembering
<1> QED
  BY <1>1, <1>3, <1>6, <1>7, <1>9, <1>12 DEF Kept, Sound, Base, n

\* A warning is read: it shortens the timeouts, and may cap the brightness.
LEMMA ReadWarningKeeps ==
  ASSUME NEW m, NEW p \in BOOLEAN, NEW w, NEW v, NEW d \in Int, Kept(m, p, v, d),
         NEW warning \in 0..2,
         NEW read, read = (IF m.chargingState = 0 THEN warning ELSE 0),
         read <= w[m.chargingState],
         ~Away(m) \/ m.warning <= read
  PROVE  LET n == ReadWarning(m, warning)
         IN /\ Kept(n, p, w, d) /\ Polled(n, m)
            /\ m.warning <= read => /\ Timeouts(n).reduce <= Timeouts(m).reduce
                                    /\ Timeouts(n).sleep <= Timeouts(m).sleep
<1> DEFINE warned == [m EXCEPT !.warning = read]
           cap == Clamped((40 * Backlight) \div 100)
           lower == Min({m.wanted, cap})
           capped == [warned EXCEPT !.wanted = lower, !.backlight = Clamped(cap)]
           noted == [warned EXCEPT !.wanted = lower, !.backlight = Clamped(cap),
                                   !.mishaps = @ \cup {"overruled"}]
           n == ReadWarning(m, warning)
           Good(r) == /\ Kept(r, p, w, d) /\ Polled(r, m)
                      /\ m.warning <= read => /\ Timeouts(r).reduce <= Timeouts(m).reduce
                                              /\ Timeouts(r).sleep <= Timeouts(m).sleep
<1>0. Typed(m) /\ DOMAIN m = Members /\ read \in 0..2
  BY DEF Kept, Sound, Base, Typed
<1>1. Good(warned)
  BY <1>0, WarnedKeeps
<1>2. /\ DOMAIN warned = Members /\ warned.wanted = m.wanted
      /\ warned.mishaps = m.mishaps /\ warned.backlight = m.backlight
      /\ warned.transitionInProgress = m.transitionInProgress
      /\ Away(warned) <=> Away(m)
  BY <1>0 DEF Members, Away, Dark
<1>3. \/ n = warned
      \/ n = noted
      \/ /\ n = capped /\ ~Adjusted(m)
         /\ (m.backlight * 100) \div Backlight > 40
  <2>1. warned = [m EXCEPT !.warning = IF m.chargingState = 0 THEN warning ELSE 0]
    OBVIOUS
  <2> HIDE DEF warned, cap
  <2>2. [SetBrightness([warned EXCEPT !.wanted = Min({@, cap})], cap)
           EXCEPT !.mishaps = @ \cup {"overruled"}] = noted
    BY <1>2 DEF SetBrightness, Members
  <2>3. SetBrightness([warned EXCEPT !.wanted = Min({@, cap})], cap) = capped
    BY <1>2 DEF SetBrightness, Members
  <2> HIDE DEF noted, capped, lower
  <2> QED
    BY <2>1, <2>2, <2>3 DEF ReadWarning, NoteIf, Note, cap
<1>4. /\ cap \in 1..Backlight /\ Clamped(cap) = cap /\ lower \in 1..Backlight
      /\ m.backlight = m.wanted /\ (m.backlight * 100) \div Backlight > 40 => lower = cap
  <2>1. m.backlight \in 1..Backlight /\ m.wanted \in 1..Backlight
    BY <1>0 DEF Typed
  <2>2. (40 * Backlight) \div 100 \in Int
    BY Sizes
  <2>3. cap \in 1..Backlight
    BY <2>2, ClampedFits
  <2>4. cap \in Int /\ m.wanted \in Int /\ m.backlight \in Int
    BY <2>1, <2>3, Sizes
  <2>5. Clamped(cap) = cap
    BY <2>3, <2>4, ClampedFits
  <2>6. lower = IF m.wanted <= cap THEN m.wanted ELSE cap
    <3> HIDE DEF cap
    <3> QED
      BY <2>4, MinOfTwo
  <2>7. ASSUME (m.backlight * 100) \div Backlight > 40 PROVE cap <= m.backlight
    <3> DEFINE raw == (40 * Backlight) \div 100
    <3>1. raw <= m.backlight
      BY <2>1, <2>7, OverTheCap
    <3>2. raw \in Int
      BY <2>2
    <3>3. Backlight \in Nat \ {0} /\ m.backlight \in 1..Backlight
      BY <2>1, Sizes
    <3> HIDE DEF raw
    <3>4. Min({raw, Backlight}) = IF raw <= Backlight THEN raw ELSE Backlight
      BY <3>2, <3>3, MinOfTwo
    <3>5. Min({raw, Backlight}) = raw
      BY <2>4, <3>1, <3>2, <3>3, <3>4
    <3>6. Clamped(raw) = IF 1 >= raw THEN 1 ELSE raw
      BY <3>2, <3>5, MaxOfTwo DEF Clamped
    <3>7. Clamped(raw) <= m.backlight
      BY <2>4, <3>1, <3>2, <3>3, <3>6
    <3> QED
      BY <3>7 DEF raw
  <2> HIDE DEF cap, lower
  <2> QED
    BY <2>1, <2>3, <2>4, <2>5, <2>6, <2>7
<1> HIDE DEF cap, lower, warned
<1>5. Good(noted)
  <2>1. Kept(noted, p, w, d)
    BY <1>1, <1>4, CappedKeeps
  <2>2. Polled(noted, m) /\ Timeouts(noted) = Timeouts(warned)
    BY <1>1, <1>2 DEF Polled, Members, Away, Dark, Timeouts
  <2> HIDE DEF noted
  <2> QED
    BY <1>1, <2>1, <2>2
<1>6. ASSUME ~Adjusted(m), (m.backlight * 100) \div Backlight > 40 PROVE Good(capped)
  <2>0. ~Away(warned) /\ ~warned.transitionInProgress
    BY <1>2, <1>6 DEF Adjusted, Away, Dark
  <2>1. warned.backlight = warned.wanted => lower = Clamped(cap)
    BY <1>2, <1>4, <1>6
  <2>2. Kept(capped, p, w, d)
    BY <1>1, <1>4, <2>0, <2>1, CappedKeeps
  <2>3. Polled(capped, m) /\ Timeouts(capped) = Timeouts(warned)
    BY <1>1, <1>2 DEF Polled, Members, Away, Dark, Timeouts
  <2> HIDE DEF capped
  <2> QED
    BY <1>1, <2>2, <2>3
<1> HIDE DEF noted, capped, n, Good
<1>7. Good(n)
  BY <1>1, <1>3, <1>5, <1>6
<1> QED
  BY <1>7 DEF Good, n

\* What a poll finds of the charge, and how low it can be taken to be.
LEMMA CheckBatteryKeeps ==
  ASSUME NEW m, NEW p \in BOOLEAN, NEW w, NEW d \in Int, Kept(m, p, w, d),
         NEW x, x.mains \in {0, 1}, x.warning \in 0..2, x.ok \in BOOLEAN,
         x.mains = 0 => x.warning = w[0], x.mains = 1 => x.warning = 0,
         w[0] \in 0..2, w[1] = 0
  PROVE  LET n == CheckBatteryStatus(m, x)
         IN /\ Kept(n, p, w, d) /\ n.config = m.config
            /\ \/ ~Away(n) /\ n.prevIdleTime = 0
               \/ /\ Polled(n, m)
                  /\ Timeouts(n).reduce <= Timeouts(m).reduce
                  /\ Timeouts(n).sleep <= Timeouts(m).sleep
<1> DEFINE n == CheckBatteryStatus(m, x)
           read == ReadCharger(m, x)
<1>0. m.chargingState \in {0, 1} /\ m.warning \in 0..2 /\ m.warning <= w[m.chargingState]
  BY DEF Kept, Sound, Base, Typed, Noticing, Heeding
<1>1. CASE x.mains = m.chargingState
  <2>1. n = ReadWarning(m, x.warning)
    BY <1>1 DEF CheckBatteryStatus, ReadCharger
  <2> DEFINE c == IF m.chargingState = 0 THEN x.warning ELSE 0
  <2>2. c \in 0..2 /\ c <= w[m.chargingState] /\ m.warning <= c
    BY <1>0, <1>1
  <2>3. c = IF m.chargingState = 0 THEN x.warning ELSE 0
    OBVIOUS
  <2> HIDE DEF c, n
  <2>4. /\ Kept(n, p, w, d) /\ Polled(n, m)
        /\ Timeouts(n).reduce <= Timeouts(m).reduce
        /\ Timeouts(n).sleep <= Timeouts(m).sleep
    BY <2>1, <2>2, <2>3, ReadWarningKeeps
  <2> QED
    BY <2>4 DEF Polled, n
<1>2. CASE x.mains # m.chargingState
  <2> DEFINE v == IF x.mains = 0 THEN w ELSE [state \in 0..1 |-> 2]
  <2>1. m.warning <= v[x.mains]
    BY <1>0, <1>2
  <2> HIDE DEF v
  <2>2. /\ Kept(read, p, v, d) /\ ~Away(read) /\ read.prevIdleTime = 0
        /\ read.config = m.config
        /\ read.inPowernap = m.inPowernap \/ x.mains = 0
    BY <1>2, <2>1, ReadChargerKeeps
  <2> HIDE DEF read
  <2>3. CASE m.inPowernap /\ ~read.inPowernap
    <3>1. n = read /\ x.mains = 0
      BY <2>2, <2>3 DEF CheckBatteryStatus, read
    <3> HIDE DEF n
    <3> QED
      BY <2>2, <3>1 DEF v, n
  <2>4. CASE ~(m.inPowernap /\ ~read.inPowernap)
    <3>1. n = ReadWarning(read, x.warning)
      BY <2>4 DEF CheckBatteryStatus, read
    <3> DEFINE c == IF read.chargingState = 0 THEN x.warning ELSE 0
    <3>2. read.chargingState \in {0, 1}
      BY <2>2 DEF Kept, Sound, Base, Typed
    <3>3. c \in 0..2 /\ c <= w[read.chargingState]
      BY <3>2
    <3>4. c = IF read.chargingState = 0 THEN x.warning ELSE 0
      OBVIOUS
    <3> HIDE DEF c, n
    <3>5. Kept(n, p, w, d) /\ Polled(n, read)
      BY <2>2, <3>1, <3>3, <3>4, ReadWarningKeeps
    <3> QED
      BY <2>2, <3>5 DEF Polled, n
  <2> QED
    BY <2>3, <2>4
<1> QED
  BY <1>1, <1>2

-----------------------------------------------------------------------------
(* The idle check. *)

\* The end of a check: the machine is put to sleep, or the idle time is watched further.
LEMMA SuspendedKeeps ==
  ASSUME NEW m, NEW p \in BOOLEAN, NEW w, NEW d \in Int, NEW seen \in Nat,
         NEW ok \in BOOLEAN, Sound(m, p, w, d), Seen(m, seen)
  PROVE  /\ Kept(KeepWatching(m, seen), p, w, d)
         /\ seen >= m.config.system =>
              Kept(SuspendSystem([m EXCEPT !.prevIdleTime = 0], seen, ok), p, w, d)
<1>1. Kept(KeepWatching(m, seen), p, w, d)
  BY KeepWatchingKeeps DEF Sound
<1>2. ASSUME seen >= m.config.system
      PROVE  Kept(SuspendSystem([m EXCEPT !.prevIdleTime = 0], seen, ok), p, w, d)
  <2> DEFINE n == [m EXCEPT !.prevIdleTime = 0]
  <2>1. Loose(n, w, d) /\ Locking(n)
    BY DEF Loose, Sound, Base, Late, Typed, Locking, Fading, Sleeping, Noticing, Heeding,
        Waking, Remembering, Lighting, Dark, Away, Owed, UnderWay, Timeout, Timeouts,
        IdleTime, Members
  <2>2. Seen(n, seen) /\ n.config = m.config
    BY SMTT(30) DEF Seen, Sound, Base, Late, Typed, Locking, Fading, Sleeping, Noticing, Heeding,
        Waking, Remembering, Lighting, Dark, Away, Owed, UnderWay, Timeout, Timeouts,
        IdleTime, Members
  <2>3. n.actionInProgress => UnderWay(n, p) \/ Awaits(n.waiting, {"logind"})
    BY DEF Sound, Base, Sleeping, Typed, Members, UnderWay
  <2> HIDE DEF n
  <2>4. seen \in Int /\ (seen = -1 \/ seen >= n.config.system)
    BY <1>2, <2>2
  <2>5. Kept(SuspendSystem(n, seen, ok), p, w, d)
    BY <2>1, <2>2, <2>3, <2>4, SuspendKeeps
  <2> QED
    BY <2>5 DEF n
<1> QED
  BY <1>1, <1>2

\* The three sections of a check, in whatever order of darkness.
LEMMA PipelineKeeps ==
  ASSUME NEW m, NEW p \in BOOLEAN, NEW w, NEW d \in Int, Kept(m, p, w, d),
         NEW x, x.mains \in {0, 1}, x.warning \in 0..2, x.ok \in BOOLEAN,
         x.mains = 0 => x.warning = w[0], x.mains = 1 => x.warning = 0,
         w[0] \in 0..2, w[1] = 0,
         ~m.justWokeUp,
         IdleTime(m) >= Timeouts(m).sleep => Timeouts(m).sleep <= d
  PROVE  Kept(Pipeline(m, x), p, w, d)
<1> DEFINE seen == IdleTime(m)
           t == Timeouts(m)
           Due(n, timeout) == seen >= timeout /\ n.prevIdleTime >= timeout
           polled == IF ~m.inPowernap /\ (seen = 0 \/ m.prevIdleTime >= t.reduce)
                       THEN CheckBatteryStatus(m, x) ELSE m
           dark(n) == n.screenSleeping \/ n.screensaverActive
           Suspended(n) ==
             IF /\ ~n.presentationMode \/ n.warning = 2
                /\ ~x.inhibited /\ ~n.mediaPlaying /\ Due(n, t.system)
                /\ n.config.idle = "sleep"
               THEN SuspendSystem([n EXCEPT !.prevIdleTime = 0], seen, x.ok)
               ELSE KeepWatching(n, seen)
           late == Due(polled, t.sleep) /\ ~dark(polled)
           back == polled.prevIdleTime >= t.sleep /\ seen = 0
                   /\ (dark(polled) \/ polled.backlightReduced)
           dim == ~dark(polled) /\ Due(polled, t.reduce) /\ ~polled.backlightReduced
           undim == ~dark(polled) /\ polled.prevIdleTime >= t.reduce /\ seen = 0
                    /\ polled.backlightReduced
           darker == IF /\ ~polled.mediaPlaying \/ polled.mediaPlayingType = 1
                           \/ ~polled.presentationMode
                        /\ ~x.inhibited
                       THEN DisplaySleep(polled) ELSE polled
           other == IF dark(polled) THEN polled ELSE Adapt(polled, x)
<1>1. Pipeline(m, x) =
        IF late THEN Suspended(darker)
        ELSE IF back THEN Suspended(DisplayWake(polled, x.net))
        ELSE IF dim THEN Dim(polled)
        ELSE IF undim THEN Undim(polled, seen)
        ELSE Suspended(other)
  BY DEF Pipeline
<1>2. /\ Typed(m) /\ seen \in Nat
      /\ t.reduce \in Nat \ {0} /\ t.sleep \in Nat \ {0} /\ t.system \in Nat
      /\ t.reduce <= t.sleep /\ t.sleep <= t.system /\ t.system = m.config.system
  <2>1. Typed(m)
    BY DEF Kept, Sound, Base
  <2>2. m.config \in {s.config : s \in Scenarios} /\ m.warning \in 0..2
    BY <2>1 DEF Typed
  <2>3. seen \in Nat
    BY SMTT(30), <2>1, Sizes DEF Typed, IdleTime
  <2> QED
    BY <2>1, <2>2, <2>3, TimeoutFacts
<1> DEFINE Fits(n) == /\ Kept(n, p, w, d) /\ n.config = m.config
                      /\ \/ ~Away(n) /\ n.prevIdleTime = 0
                         \/ /\ Polled(n, m)
                            /\ Timeouts(n).reduce <= t.reduce
                            /\ Timeouts(n).sleep <= t.sleep
<1>3. Fits(polled)
  <2>1. Fits(m)
    BY <1>2 DEF Polled
  <2>2. Fits(CheckBatteryStatus(m, x))
    BY CheckBatteryKeeps
  <2> HIDE DEF Fits
  <2> QED
    BY <2>1, <2>2
<1> HIDE DEF polled
<1>4. /\ Typed(polled) /\ Sound(polled, p, w, d)
      /\ dark(polled) <=> Dark(polled)
      /\ polled.prevIdleTime \in Int
      /\ Timeouts(polled).reduce \in Nat /\ Timeouts(polled).sleep \in Nat
      /\ Timeouts(polled).reduce <= Timeouts(polled).sleep
  <2>1. Typed(polled) /\ Sound(polled, p, w, d) /\ polled.prevIdleTime \in Int
        /\ polled.config \in {s.config : s \in Scenarios} /\ polled.warning \in 0..2
    BY <1>3 DEF Kept, Sound, Base, Typed
  <2>2. /\ Timeouts(polled).reduce \in Nat /\ Timeouts(polled).sleep \in Nat
        /\ Timeouts(polled).reduce <= Timeouts(polled).sleep
    BY <2>1, TimeoutFacts
  <2> QED
    BY <2>1, <2>2 DEF Dark
<1>5. ASSUME polled.prevIdleTime >= t.reduce
      PROVE  /\ Polled(polled, m) /\ IdleTime(polled) = seen /\ ~polled.justWokeUp
             /\ Timeouts(polled).reduce <= t.reduce
             /\ Timeouts(polled).sleep <= t.sleep
  BY <1>2, <1>3, <1>5 DEF Polled, IdleTime
<1>6. ASSUME NEW n, Sound(n, p, w, d), n.config = m.config, Seen(n, seen)
      PROVE  Kept(Suspended(n), p, w, d)
  <2>1. /\ Kept(KeepWatching(n, seen), p, w, d)
        /\ seen >= n.config.system =>
             Kept(SuspendSystem([n EXCEPT !.prevIdleTime = 0], seen, x.ok), p, w, d)
    <3> HIDE DEF seen
    <3> QED
      BY <1>2, <1>6, SuspendedKeeps
  <2>2. Due(n, t.system) => seen >= n.config.system
    BY <1>2, <1>6
  <2> HIDE DEF seen, t
  <2> QED
    BY <2>1, <2>2
<1> HIDE DEF Suspended
<1>7. CASE late
  <2>1. /\ Polled(polled, m) /\ IdleTime(polled) = seen /\ ~polled.justWokeUp
        /\ Timeouts(polled).reduce <= t.reduce
        /\ Timeouts(polled).sleep <= t.sleep
    BY <1>2, <1>4, <1>5, <1>7
  <2>2. Seen(polled, seen) /\ polled.config = m.config
    BY <1>2, <1>3, <1>4, <1>7, <2>1 DEF Seen, Timeout
  <2>3. LET n == DisplaySleep(polled)
        IN /\ Sound(n, p, w, d) /\ IdleTime(n) = seen /\ Timeouts(n) = Timeouts(polled)
           /\ Dark(n) /\ n.config = m.config
    <3>1. /\ ~Dark(polled) /\ IdleTime(polled) >= Timeouts(polled).sleep
          /\ polled.prevIdleTime >= Timeouts(polled).sleep /\ Timeouts(polled).sleep <= d
      BY <1>2, <1>4, <1>7, <2>1
    <3> HIDE DEF seen, t
    <3> QED
      BY <1>4, <2>1, <2>2, <3>1, DisplaySleepKeeps
  <2>4. Seen(DisplaySleep(polled), seen)
    BY <1>2, <1>4, <1>7, <2>1, <2>3 DEF Seen, Timeout
  <2>5. Kept(Suspended(polled), p, w, d) /\ Kept(Suspended(DisplaySleep(polled)), p, w, d)
    BY <1>4, <1>6, <2>2, <2>3, <2>4
  <2> HIDE DEF seen, t, late, back, dim, undim, other, Due, dark
  <2> QED
    BY <1>1, <1>7, <2>5
<1>8. CASE ~late /\ back
  <2>1. Away(polled)
    BY <1>4, <1>8 DEF Away
  <2> DEFINE n == DisplayWake(polled, x.net)
  <2>2. Sound(n, p, w, d) /\ ~Away(n) /\ n.config = m.config
    BY <1>3, <1>4, <2>1, DisplayWakeKeeps
  <2>3. Seen(n, seen)
    BY <1>2, <2>2 DEF Seen
  <2>4. Kept(Suspended(n), p, w, d)
    BY <1>6, <2>2, <2>3
  <2> HIDE DEF seen, t, late, back, dim, undim, other, Due, dark, darker
  <2> QED
    BY <1>1, <1>8, <2>4
<1>9. CASE ~late /\ ~back /\ dim
  <2>1. /\ ~Away(polled) /\ ~polled.justWokeUp
        /\ IdleTime(polled) >= Timeouts(polled).reduce
        /\ polled.prevIdleTime >= Timeouts(polled).reduce
    BY <1>2, <1>4, <1>5, <1>9 DEF Away
  <2>2. Kept(Dim(polled), p, w, d)
    BY <1>4, <2>1, DimKeeps
  <2> HIDE DEF seen, t, late, back, dim, undim, other, Due, dark, darker
  <2> QED
    BY <1>1, <1>9, <2>2
<1>10. CASE ~late /\ ~back /\ ~dim /\ undim
  <2>1. ~Dark(polled) /\ polled.backlightReduced /\ IdleTime(polled) = 0 /\ seen = 0
    BY <1>4, <1>5, <1>10
  <2>2. Kept(Undim(polled, 0), p, w, d)
    BY <1>4, <2>1, UndimKeeps
  <2> HIDE DEF seen, t, late, back, dim, undim, other, Due, dark, darker
  <2> QED
    BY <1>1, <1>10, <2>1, <2>2
<1>11. CASE ~late /\ ~back /\ ~dim /\ ~undim
  <2> DEFINE Next2(n) == /\ Sound(n, p, w, d) /\ n.config = m.config
                         /\ Away(n) <=> Away(polled)
                         /\ n.waiting = polled.waiting
                         /\ n.mishaps = polled.mishaps
                         /\ IdleTime(n) = IdleTime(polled)
  <2>1. Next2(other)
    <3>1. Next2(polled)
      BY <1>3, <1>4
    <3>2. ASSUME ~Dark(polled) PROVE Next2(Adapt(polled, x))
      BY <1>3, <1>4, <3>2, AdaptKeeps
    <3> HIDE DEF Next2
    <3> QED
      BY <1>4, <3>1, <3>2
  <2> HIDE DEF other
  <2>2. Seen(other, seen)
    <3>1. CASE ~Away(polled)
      BY <1>2, <2>1, <3>1 DEF Seen
    <3>2. ASSUME Away(polled), "unseen" \notin other.mishaps
          PROVE  seen >= Timeout(other) \/ Resumes(other.waiting)
      <4>1. Polled(polled, m) /\ IdleTime(polled) = seen
        BY <1>3, <3>2 DEF Polled, IdleTime
      <4>2. other.idle = 0 \/ IdleTime(other) >= Timeout(other)
        BY <2>1, <3>2 DEF Sound, Base, Noticing, Heeding
      <4>3. other.idle = 0 => IdleTime(other) = 0
        BY <2>1 DEF Sound, Base, Typed, IdleTime
      <4>4. m.prevIdleTime >= Timeout(m) \/ Resumes(m.waiting)
        BY <2>1, <3>2, <4>1 DEF Kept, Sound, Remembering, Polled
      <4>5. ASSUME other.idle = 0 PROVE Resumes(other.waiting)
        <5>1. seen = 0
          BY <2>1, <4>1, <4>3, <4>5
        <5>2. ~(m.prevIdleTime >= Timeout(m))
          BY <1>2, <1>4, <1>11, <3>2, <4>1, <5>1 DEF Timeout, Polled, Away
        <5> QED
          BY <2>1, <4>1, <4>4, <5>2 DEF Polled
      <4> QED
        BY <2>1, <4>1, <4>2, <4>5
    <3> QED
      BY <1>2, <2>1, <3>1, <3>2 DEF Seen
  <2>3. Kept(Suspended(other), p, w, d)
    BY <1>6, <2>1, <2>2
  <2> HIDE DEF seen, t, late, back, dim, undim, Due, dark, darker, Next2
  <2> QED
    BY <1>1, <1>11, <2>3
<1> QED
  BY <1>7, <1>8, <1>9, <1>10, <1>11

\* A check, at any time.
LEMMA CheckIdleKeeps ==
  ASSUME NEW m, NEW p \in BOOLEAN, NEW w, NEW d \in Int, Kept(m, p, w, d),
         NEW x, x.mains \in {0, 1}, x.warning \in 0..2, x.ok \in BOOLEAN,
         x.mains = 0 => x.warning = w[0], x.mains = 1 => x.warning = 0,
         w[0] \in 0..2, w[1] = 0,
         IdleTime(m) >= Timeouts(m).sleep => Timeouts(m).sleep <= d
  PROVE  Kept(CheckIdle(m, x), p, w, d)
<1> DEFINE n == [m EXCEPT !.justWokeUp = FALSE]
           early == [m EXCEPT !.prevIdleTime = 0]
<1>1. \/ CheckIdle(m, x) = m
      \/ m.justWokeUp /\ CheckIdle(m, x) = early
      \/ CheckIdle(m, x) = Pipeline(n, x)
  BY DEF CheckIdle
<1>2. ASSUME m.justWokeUp PROVE Kept(early, p, w, d)
  <2>0. ~Away(m) /\ Typed(m)
    BY <1>2 DEF Kept, Sound, Base, Noticing, Waking
  <2>3. Typed(early) /\ ~Away(early) /\ IdleTime(early) = IdleTime(m)
    BY <2>0 DEF Typed, Members, Away, Dark, IdleTime
  <2>4. /\ Fading(early) /\ Locking(early) /\ Late(early, d) /\ Noticing(early, w)
        /\ Sleeping(early, p) /\ Lighting(early)
    BY DEF Kept, Sound, Base, Late, Typed, Locking, Fading, Sleeping, Noticing, Heeding,
        Waking, Remembering, Lighting, Dark, Away, Owed, UnderWay, Timeout, Timeouts,
        IdleTime, Members
  <2>1. Sound(early, p, w, d)
    BY <2>3, <2>4 DEF Sound, Base, Remembering
  <2>2. Watching(early, p)
    BY DEF Kept, Watching, Sound, Base, Typed, Members, UnderWay
  <2> QED
    BY <2>1, <2>2 DEF Kept
<1>3. Kept(Pipeline(n, x), p, w, d)
  <2>1. /\ Kept(n, p, w, d) /\ ~n.justWokeUp
        /\ IdleTime(n) = IdleTime(m) /\ Timeouts(n) = Timeouts(m)
    BY SettledKeeps
  <2> HIDE DEF n
  <2> QED
    BY <2>1, PipelineKeeps
<1> HIDE DEF n, early
<1> QED
  BY <1>1, <1>2, <1>3

-----------------------------------------------------------------------------
(* Presentations and media. *)

\* A presentation begins or ends; its end is a check.
LEMMA PresentationKeeps ==
  ASSUME NEW m, NEW p \in BOOLEAN, NEW w, NEW d \in Int, Kept(m, p, w, d),
         NEW x, x.mains \in {0, 1}, x.warning \in 0..2, x.ok \in BOOLEAN,
         x.mains = 0 => x.warning = w[0], x.mains = 1 => x.warning = 0,
         w[0] \in 0..2, w[1] = 0,
         IdleTime(m) >= Timeouts(m).sleep => Timeouts(m).sleep <= d,
         NEW enable \in BOOLEAN
  PROVE  Kept(SetPresentationMode(m, enable, x), p, w, d)
<1> DEFINE set == [m EXCEPT !.presentationMode = TRUE]
           off == [m EXCEPT !.presentationMode = TRUE, !.idleTimer = FALSE,
                            !.transitionTimer = FALSE]
           cut == [m EXCEPT !.presentationMode = TRUE, !.idleTimer = FALSE,
                            !.transitionTimer = FALSE, !.mishaps = @ \cup {"cut"}]
           ended == [m EXCEPT !.presentationMode = FALSE, !.idleTimer = TRUE]
<1>0. DOMAIN m = Members /\ m.transitionTimer \in BOOLEAN
  BY DEF Kept, Sound, Base, Typed
<1>1. \/ SetPresentationMode(m, enable, x) \in {m, set, CheckIdle(ended, x)}
      \/ m.transitionTimer /\ SetPresentationMode(m, enable, x) = cut
      \/ ~m.transitionTimer /\ SetPresentationMode(m, enable, x) = off
  BY <1>0 DEF SetPresentationMode, NoteIf, Note, Members
<1>2. Kept(set, p, w, d)
  <2>1. Sound(set, p, w, d)
    BY DEF Kept, Sound, Base, Late, Typed, Locking, Fading, Sleeping, Noticing, Heeding,
        Waking, Remembering, Lighting, Dark, Away, Owed, UnderWay, Timeout, Timeouts,
        IdleTime, Members
  <2>2. Watching(set, p)
    BY <1>0 DEF Watching, Members
  <2> QED
    BY <2>1, <2>2 DEF Kept
<1>3. ASSUME m.transitionTimer PROVE Kept(cut, p, w, d)
  <2>1. Sound(cut, p, w, d)
    BY <1>3 DEF Kept, Sound, Base, Late, Typed, Locking, Fading, Sleeping, Noticing,
        Heeding, Waking, Remembering, Lighting, Dark, Away, Owed, UnderWay, Timeout,
        Timeouts, IdleTime, Members
  <2>2. Watching(cut, p)
    BY <1>0 DEF Watching, Members
  <2> QED
    BY <2>1, <2>2 DEF Kept
<1>4. ASSUME ~m.transitionTimer PROVE Kept(off, p, w, d)
  <2>1. Sound(off, p, w, d)
    BY <1>4 DEF Kept, Sound, Base, Late, Typed, Locking, Fading, Sleeping, Noticing,
        Heeding, Waking, Remembering, Lighting, Dark, Away, Owed, UnderWay, Timeout,
        Timeouts, IdleTime, Members
  <2>2. Watching(off, p)
    BY <1>0 DEF Watching, Members
  <2> QED
    BY <2>1, <2>2 DEF Kept
<1>5. Kept(CheckIdle(ended, x), p, w, d)
  <2>1. Sound(ended, p, w, d)
    BY DEF Kept, Sound, Base, Late, Typed, Locking, Fading, Sleeping, Noticing, Heeding,
        Waking, Remembering, Lighting, Dark, Away, Owed, UnderWay, Timeout, Timeouts,
        IdleTime, Members
  <2>2. Watching(ended, p)
    BY <1>0 DEF Watching, Members
  <2>3. IdleTime(ended) = IdleTime(m) /\ Timeouts(ended) = Timeouts(m)
    BY <1>0 DEF IdleTime, Timeouts, Members
  <2> HIDE DEF ended
  <2>4. Kept(ended, p, w, d)
    BY <2>1, <2>2 DEF Kept
  <2> QED
    BY <2>3, <2>4, CheckIdleKeeps
<1> HIDE DEF set, off, cut, ended
<1> QED
  BY <1>1, <1>2, <1>3, <1>4, <1>5

\* The media players are polled, and may begin or end a presentation.
LEMMA PollMprisKeeps ==
  ASSUME NEW m, NEW p \in BOOLEAN, NEW w, NEW d \in Int, Kept(m, p, w, d),
         NEW x, x.mains \in {0, 1}, x.warning \in 0..2, x.ok \in BOOLEAN,
         x.mains = 0 => x.warning = w[0], x.mains = 1 => x.warning = 0,
         w[0] \in 0..2, w[1] = 0,
         IdleTime(m) >= Timeouts(m).sleep => Timeouts(m).sleep <= d
  PROVE  Kept(PollMpris(m, x), p, w, d)
<1> DEFINE typed == [m EXCEPT !.mediaPlayingType = MprisType]
           heard == [typed EXCEPT !.mediaPlaying = MprisPlaying]
           Good(r) == Kept(r, p, w, d) /\ IdleTime(r) = IdleTime(m) /\ Timeouts(r) = Timeouts(m)
<1>0. DOMAIN m = Members
  BY DEF Kept, Sound, Base, Typed
<1>1. \A type : Kept([m EXCEPT !.mediaPlayingType = type], p, w, d)
  <2> TAKE type
  <2>1. Sound([m EXCEPT !.mediaPlayingType = type], p, w, d)
    BY DEF Kept, Sound, Base, Late, Typed, Locking, Fading, Sleeping, Noticing, Heeding,
        Waking, Remembering, Lighting, Dark, Away, Owed, UnderWay, Timeout, Timeouts,
        IdleTime, Members
  <2>2. Watching([m EXCEPT !.mediaPlayingType = type], p)
    BY <1>0 DEF Kept, Watching, Members, UnderWay
  <2> QED
    BY <2>1, <2>2 DEF Kept
<1>2. \A type : \A playing \in BOOLEAN :
        Kept([[m EXCEPT !.mediaPlayingType = type] EXCEPT !.mediaPlaying = playing], p, w, d)
  <2> TAKE type
  <2> TAKE playing \in BOOLEAN
  <2> DEFINE r == [[m EXCEPT !.mediaPlayingType = type] EXCEPT !.mediaPlaying = playing]
  <2>1. Sound(r, p, w, d)
    BY DEF Kept, Sound, Base, Late, Typed, Locking, Fading, Sleeping, Noticing, Heeding,
        Waking, Remembering, Lighting, Dark, Away, Owed, UnderWay, Timeout, Timeouts,
        IdleTime, Members
  <2>2. Watching(r, p)
    BY <1>0 DEF Kept, Watching, Members, UnderWay
  <2> QED
    BY <2>1, <2>2 DEF Kept
<1>3. MprisPlaying \in BOOLEAN
  BY DEF MprisPlaying
<1>4. Kept(typed, p, w, d) /\ Kept(heard, p, w, d)
  BY <1>1, <1>2, <1>3
<1>5. IdleTime(heard) = IdleTime(m) /\ Timeouts(heard) = Timeouts(m)
  BY <1>0 DEF IdleTime, Timeouts, Members
<1>6. PollMpris(m, x) \in {typed, SetPresentationMode(heard, MprisPlaying, x)}
  BY DEF PollMpris
<1> HIDE DEF typed, heard
<1>7. Kept(SetPresentationMode(heard, MprisPlaying, x), p, w, d)
  BY <1>3, <1>4, <1>5, PresentationKeeps
<1> QED
  BY <1>4, <1>6, <1>7

-----------------------------------------------------------------------------
(* Waking up. *)

\* The brightness is what is wanted, whether the screen was dimmed or not.
Lit(m) ==
  "cut" \notin m.mishaps /\ "overruled" \notin m.mishaps =>
    /\ m.transitionTimer => Clamped(m.fade.to) = m.wanted /\ IdleTime(m) = 0
    /\ ~m.transitionTimer => m.backlight = m.wanted

\* onResume lights the screen with the brightness that was remembered.
LEMMA OnResumeKeeps ==
  ASSUME NEW m, NEW p \in BOOLEAN, NEW w, NEW d \in Int, Kept(m, p, w, d)
  PROVE  Kept(OnResume(m), p, w, d)
<1> DEFINE tip == IF m.transitionInProgress THEN FALSE ELSE m.transitionInProgress
           timer == IF m.transitionInProgress THEN FALSE ELSE m.transitionTimer
           lit == [m EXCEPT !.transitionInProgress = tip, !.transitionTimer = timer,
                            !.backlight = m.originalBrightness]
           awake(original, t1, t2, level) ==
             [m EXCEPT !.transitionInProgress = t1, !.transitionTimer = t2,
                       !.backlight = level, !.originalBrightness = original,
                       !.justWokeUp = TRUE, !.since = 0, !.inPowernap = FALSE,
                       !.idleTimer = TRUE, !.mprisTimer = TRUE, !.prevIdleTime = 0,
                       !.backlightReduced = FALSE, !.screenSleeping = FALSE,
                       !.screensaverActive = FALSE]
           plain == [m EXCEPT !.originalBrightness = m.backlight,
                              !.justWokeUp = TRUE, !.since = 0, !.inPowernap = FALSE,
                              !.idleTimer = TRUE, !.mprisTimer = TRUE, !.prevIdleTime = 0,
                              !.backlightReduced = FALSE, !.screenSleeping = FALSE,
                              !.screensaverActive = FALSE]
           bright == awake(m.originalBrightness, tip, timer, m.originalBrightness)
<1>0. Typed(m) /\ DOMAIN m = Members /\ m.originalBrightness \in 1..Backlight
  BY DEF Kept, Sound, Base, Typed
<1>1. SetBrightnessImmediate(m, m.originalBrightness, TRUE) = lit
  <2> DEFINE level == Clamped(m.originalBrightness)
             now == [m EXCEPT !.transitionInProgress = tip, !.transitionTimer = timer,
                              !.backlight = level]
  <2>1. SetBrightnessImmediate(m, m.originalBrightness, TRUE) = now
    BY <1>0, Immediately
  <2>2. level = m.originalBrightness
    BY <1>0, Sizes, ClampedFits
  <2> HIDE DEF level, tip, timer
  <2> QED
    BY <2>1, <2>2
<1>a. 0 \in 0..WakeCap
  BY Sizes
<1>2. /\ Away(m) => OnResume(m) = bright
      /\ ~Away(m) => OnResume(m) = plain
  <2>1. CASE Away(m)
    <3> DEFINE Up(r) == [Remembered(r) EXCEPT
                           !.justWokeUp = TRUE, !.since = 0, !.inPowernap = FALSE,
                           !.idleTimer = TRUE, !.mprisTimer = TRUE, !.prevIdleTime = 0,
                           !.backlightReduced = FALSE, !.screenSleeping = FALSE,
                           !.screensaverActive = FALSE]
    <3>1. OnResume(m) = Up(SetBrightnessImmediate(m, m.originalBrightness, TRUE))
      BY <2>1 DEF OnResume, Away, Dark
    <3>2. DOMAIN lit = Members /\ lit.backlight = m.originalBrightness
      BY <1>0 DEF Members
    <3>3. Up(lit) = [lit EXCEPT
                       !.originalBrightness = m.originalBrightness,
                       !.justWokeUp = TRUE, !.since = 0, !.inPowernap = FALSE,
                       !.idleTimer = TRUE, !.mprisTimer = TRUE, !.prevIdleTime = 0,
                       !.backlightReduced = FALSE, !.screenSleeping = FALSE,
                       !.screensaverActive = FALSE]
      <4> HIDE DEF lit
      <4> QED
        BY <3>2 DEF Remembered, Members
    <3> HIDE DEF tip, timer
    <3>4. Up(lit) = bright
      BY <1>0, <3>3 DEF Members
    <3> QED
      BY <1>1, <2>1, <3>1, <3>4
  <2>2. CASE ~Away(m)
    BY <1>0, <2>2 DEF OnResume, Remembered, Away, Dark, Members
  <2> QED
    BY <2>1, <2>2
<1>3. /\ tip \in BOOLEAN /\ timer \in BOOLEAN /\ ~tip
      /\ timer => m.transitionTimer /\ "cut" \in m.mishaps
  BY DEF Kept, Sound, Base, Typed, Fading
<1> HIDE DEF tip, timer
<1>4. ASSUME Away(m) PROVE Kept(bright, p, w, d)
  <2>0. Typed(bright)
    <3>1. DOMAIN bright = Members
      BY <1>0
    <3>2. /\ bright.backlight \in 1..Backlight /\ bright.originalBrightness \in 1..Backlight
          /\ bright.since \in 0..WakeCap /\ bright.idle \in 0..MaxIdle
          /\ bright.prevIdleTime \in Int
          /\ bright.wanted \in 1..Backlight
      BY <1>0, <1>3, <1>a DEF Typed, Members
    <3>3. /\ bright.transitionInProgress \in BOOLEAN /\ bright.transitionTimer \in BOOLEAN
          /\ bright.config = m.config /\ bright.waiting = m.waiting /\ bright.fade = m.fade
          /\ bright.asked = m.asked /\ bright.warning = m.warning
          /\ bright.chargingState = m.chargingState
          /\ bright.retries = m.retries /\ bright.hides = m.hides
          /\ bright.reacquires = m.reacquires
      BY <1>0, <1>3, <1>a DEF Typed, Members
    <3>4. /\ bright.idleTimer = TRUE /\ bright.glibTimer = m.glibTimer
          /\ bright.backlightReduced = FALSE /\ bright.screenSleeping = FALSE
          /\ bright.screensaverActive = FALSE
          /\ bright.justWokeUp = TRUE /\ bright.presentationMode = m.presentationMode
          /\ bright.actionInProgress = m.actionInProgress /\ bright.inPowernap = FALSE
          /\ bright.mediaPlaying = m.mediaPlaying /\ bright.useWifiOverlay = m.useWifiOverlay
          /\ bright.wifiOverlay = m.wifiOverlay /\ bright.lockDue = m.lockDue
          /\ bright.sleepTransitionDone = m.sleepTransitionDone /\ bright.delayLock = m.delayLock
      BY <1>0 DEF Members
    <3> HIDE DEF bright
    <3> QED
      BY <1>0, <3>1, <3>2, <3>3, <3>4 DEF Typed
  <2>1. ~Away(bright) /\ bright.idleTimer
    BY <1>0 DEF Members, Away, Dark
  <2>2. /\ Fading(bright) /\ Locking(bright) /\ Late(bright, d) /\ Noticing(bright, w)
        /\ Remembering(bright)
    BY <1>3 DEF Kept, Sound, Base, Late, Typed, Locking, Fading, Sleeping, Noticing,
        Heeding, Waking, Remembering, Lighting, Dark, Away, Owed, UnderWay, Timeout,
        Timeouts, IdleTime, Members
  <2>3. Lighting(bright)
    BY <1>3, <1>4 DEF Kept, Sound, Base, Late, Typed, Locking, Fading, Sleeping, Noticing,
        Heeding, Waking, Remembering, Lighting, Dark, Away, Owed, UnderWay, Timeout,
        Timeouts, IdleTime, Members
  <2>4. Sleeping(bright, p)
    BY DEF Kept, Sound, Base, Sleeping, Typed, Members, Owed, UnderWay
  <2> QED
    BY <2>0, <2>1, <2>2, <2>3, <2>4 DEF Kept, Sound, Base, Watching
<1>5. ASSUME ~Away(m) PROVE Kept(plain, p, w, d)
  <2>0. Typed(plain)
    <3>1. DOMAIN plain = Members
      BY <1>0
    <3>2. /\ plain.backlight \in 1..Backlight /\ plain.originalBrightness \in 1..Backlight
          /\ plain.since \in 0..WakeCap /\ plain.idle \in 0..MaxIdle /\ plain.prevIdleTime \in Int
          /\ plain.wanted \in 1..Backlight
      BY <1>0, <1>a DEF Typed, Members
    <3>3. /\ plain.transitionInProgress \in BOOLEAN /\ plain.transitionTimer \in BOOLEAN
          /\ plain.config = m.config /\ plain.waiting = m.waiting /\ plain.fade = m.fade
          /\ plain.asked = m.asked /\ plain.warning = m.warning
          /\ plain.chargingState = m.chargingState
          /\ plain.retries = m.retries /\ plain.hides = m.hides /\ plain.reacquires = m.reacquires
      BY <1>0, <1>a DEF Typed, Members
    <3>4. /\ plain.idleTimer = TRUE /\ plain.glibTimer = m.glibTimer
          /\ plain.backlightReduced = FALSE /\ plain.screenSleeping = FALSE
          /\ plain.screensaverActive = FALSE
          /\ plain.justWokeUp = TRUE /\ plain.presentationMode = m.presentationMode
          /\ plain.actionInProgress = m.actionInProgress /\ plain.inPowernap = FALSE
          /\ plain.mediaPlaying = m.mediaPlaying /\ plain.useWifiOverlay = m.useWifiOverlay
          /\ plain.wifiOverlay = m.wifiOverlay /\ plain.lockDue = m.lockDue
          /\ plain.sleepTransitionDone = m.sleepTransitionDone /\ plain.delayLock = m.delayLock
      BY <1>0 DEF Members
    <3> HIDE DEF plain
    <3> QED
      BY <1>0, <3>1, <3>2, <3>3, <3>4 DEF Typed
  <2>1. ~Away(plain) /\ plain.idleTimer
    BY <1>0 DEF Members, Away, Dark
  <2>2. /\ Fading(plain) /\ Locking(plain) /\ Late(plain, d) /\ Noticing(plain, w)
        /\ Remembering(plain)
    BY DEF Kept, Sound, Base, Late, Typed, Locking, Fading, Sleeping, Noticing, Heeding,
        Waking, Remembering, Lighting, Dark, Away, Owed, UnderWay, Timeout, Timeouts,
        IdleTime, Members
  <2>3. Lighting(plain)
    <3>1. IdleTime(m) = 0 => IdleTime(plain) = 0
      BY <1>0, Sizes DEF Typed, Members, IdleTime
    <3> QED
      BY <1>5, <3>1 DEF Kept, Sound, Base, Typed, Lighting, Away, Dark, Members
  <2>4. Sleeping(plain, p)
    BY DEF Kept, Sound, Base, Sleeping, Typed, Members, Owed, UnderWay
  <2> QED
    BY <2>0, <2>1, <2>2, <2>3, <2>4 DEF Kept, Sound, Base, Watching
<1> HIDE DEF bright, plain
<1> QED
  BY <1>2, <1>4, <1>5

\* The first half of the way back from a sleep: the lock may be due, and that is all.
LEMMA WokenRests ==
  ASSUME NEW m, NEW p \in BOOLEAN, NEW q \in BOOLEAN, NEW w, NEW d \in Int,
         Kept(m, p, w, d), m.glibTimer
  PROVE  LET n == Woken(m)
         IN /\ Rest(n, q, w, d) /\ Remembering(n) /\ ~n.actionInProgress
            /\ ~m.config.lock_on_sleep => Locking(n)
            /\ n.config = m.config /\ n.originalBrightness = m.originalBrightness
            /\ n.wanted = m.wanted /\ n.backlight = m.backlight
            /\ Away(n) <=> Away(m)
<1> DEFINE due == m.config.lock_on_sleep
           n == [m EXCEPT !.justWokeUp = TRUE, !.since = 0, !.idle = 0,
                          !.actionInProgress = FALSE, !.lockDue = due,
                          !.reacquires = @ + 1, !.overlay = "none", !.saver = "none"]
<1>0. Typed(m) /\ DOMAIN m = Members
  BY DEF Kept, Sound, Base, Typed
<1>1. Woken(m) = n
  BY <1>0 DEF Woken, WokeUp, DismissScreensaver, Members
<1>2. due \in BOOLEAN
  BY <1>0, ConfigFacts DEF Typed, ConfigType
<1>3. ~due => ~n.lockDue
  BY <1>0 DEF Members
<1>4. Awaits(m.waiting, {"others"}) => m.sleepTransitionDone
  <2>1. Awaits(m.waiting, {"others"}) => m.waiting # <<>>
    BY DEF Awaits
  <2> QED
    BY <2>1 DEF Kept, Sound, Base, Sleeping
<1>5. m.waiting # <<>> => m.sleepTransitionDone
  BY DEF Kept, Sound, Base, Sleeping
<1> HIDE DEF due
<1>6. Typed(n)
  <2>1. 0 \in 0..WakeCap /\ 0 \in 0..MaxIdle
    BY Sizes
  <2>2. m.reacquires + 1 \in Nat
    BY <1>0 DEF Typed
  <2>3. DOMAIN n = Members
    BY <1>0
  <2>4. /\ n.since \in 0..WakeCap /\ n.idle \in 0..MaxIdle /\ n.reacquires \in Nat
        /\ n.lockDue \in BOOLEAN /\ n.justWokeUp \in BOOLEAN /\ n.actionInProgress \in BOOLEAN
    BY <1>0, <1>2, <2>1, <2>2 DEF Members
  <2>5. /\ n.config = m.config /\ n.chargingState = m.chargingState /\ n.warning = m.warning
        /\ n.idleTimer = m.idleTimer /\ n.transitionTimer = m.transitionTimer
        /\ n.glibTimer = m.glibTimer /\ n.transitionInProgress = m.transitionInProgress
        /\ n.backlightReduced = m.backlightReduced /\ n.screenSleeping = m.screenSleeping
        /\ n.screensaverActive = m.screensaverActive
        /\ n.presentationMode = m.presentationMode /\ n.inPowernap = m.inPowernap
        /\ n.mediaPlaying = m.mediaPlaying /\ n.useWifiOverlay = m.useWifiOverlay
        /\ n.wifiOverlay = m.wifiOverlay /\ n.sleepTransitionDone = m.sleepTransitionDone
        /\ n.delayLock = m.delayLock /\ n.backlight = m.backlight
        /\ n.originalBrightness = m.originalBrightness /\ n.wanted = m.wanted
        /\ n.fade = m.fade /\ n.prevIdleTime = m.prevIdleTime /\ n.retries = m.retries
        /\ n.hides = m.hides /\ n.waiting = m.waiting /\ n.asked = m.asked
    BY ZenonT(30), <1>0 DEF Members
  <2> HIDE DEF n
  <2> QED
    BY <1>0, <2>3, <2>4, <2>5 DEF Typed
<1>7. IdleTime(n) = 0
  BY <1>0, Sizes DEF Members, IdleTime
<1>8. Fading(n) /\ Late(n, d) /\ Remembering(n)
  BY DEF Kept, Sound, Base, Late, Typed, Locking, Fading, Sleeping, Noticing, Heeding,
      Waking, Remembering, Lighting, Dark, Away, Owed, UnderWay, Timeout, Timeouts,
      IdleTime, Members
<1>9. Heeding(n, w)
  BY DEF Kept, Sound, Base, Late, Typed, Locking, Fading, Sleeping, Noticing, Heeding,
      Waking, Remembering, Lighting, Dark, Away, Owed, UnderWay, Timeout, Timeouts,
      IdleTime, Members
<1>10. Lighting(n)
  BY <1>0, <1>7 DEF Kept, Sound, Base, Lighting, Away, Dark, Members
<1>11. Sleeping(n, q)
  <2>1. /\ n.actionInProgress = FALSE /\ n.overlay = "none" /\ n.reacquires > 0
        /\ n.waiting = m.waiting /\ n.sleepTransitionDone = m.sleepTransitionDone
    BY <1>0 DEF Typed, Members
  <2> HIDE DEF n
  <2> QED
    BY <1>4, <1>5, <2>1 DEF Sleeping
<1>12. ~due => Locking(n)
  BY <1>0, <1>3 DEF Kept, Sound, Locking, Members
<1>13. /\ ~n.actionInProgress /\ n.config = m.config
       /\ n.originalBrightness = m.originalBrightness
       /\ n.wanted = m.wanted /\ n.backlight = m.backlight
       /\ Away(n) <=> Away(m)
  BY <1>0 DEF Members, Away, Dark
<1> HIDE DEF n
<1> QED
  BY <1>1, <1>6, <1>8, <1>9, <1>10, <1>11, <1>12, <1>13 DEF Rest, due

\* What is so before the flags of darkness are cleared.
Stirred(m, p, w) ==
  /\ Typed(m) /\ Fading(m) /\ Sleeping(m, p) /\ Heeding(m, w) /\ Locking(m) /\ Lit(m)

\* afterWakeActions sets the brightness that was remembered: the one that is wanted, or
\* somebody's choice is overruled.
LEMMA LitAgain ==
  ASSUME NEW m, NEW p \in BOOLEAN, NEW w, NEW d \in Int, Held(m, p, w, d)
  PROVE  /\ ~Away(m) => Stirred(m, p, w)
         /\ Away(m) \/ m.wanted = m.originalBrightness =>
              Stirred(SetBrightnessImmediate(m, m.originalBrightness, TRUE), p, w)
         /\ Stirred(Note(SetBrightnessImmediate(m, m.originalBrightness, TRUE), "overruled"),
                    p, w)
<1> DEFINE tip == IF m.transitionInProgress THEN FALSE ELSE m.transitionInProgress
           timer == IF m.transitionInProgress THEN FALSE ELSE m.transitionTimer
           level == Clamped(m.originalBrightness)
           n == [m EXCEPT !.transitionInProgress = tip, !.transitionTimer = timer,
                          !.backlight = level]
           noted == [m EXCEPT !.transitionInProgress = tip, !.transitionTimer = timer,
                              !.backlight = level, !.mishaps = @ \cup {"overruled"}]
<1>0. Typed(m) /\ DOMAIN m = Members
  BY DEF Held, Rest, Typed
<1>1. SetBrightnessImmediate(m, m.originalBrightness, TRUE) = n
  BY <1>0, Immediately
<1>2. level = m.originalBrightness /\ level \in 1..Backlight
  BY <1>0, Sizes, ClampedFits DEF Typed
<1>3. /\ tip \in BOOLEAN /\ timer \in BOOLEAN /\ ~tip
      /\ timer => m.transitionTimer /\ "cut" \in m.mishaps
  BY DEF Held, Rest, Typed, Fading
<1> HIDE DEF tip, timer, level
<1>4. Note(n, "overruled") = noted
  BY <1>0 DEF Note, Members
<1>5. ~Away(m) => Stirred(m, p, w)
  BY DEF Held, Rest, Stirred, Lighting, Lit
<1>6. Typed(n) /\ Fading(n) /\ Sleeping(n, p) /\ Heeding(n, w) /\ Locking(n)
  BY <1>2, <1>3 DEF Held, Rest, Sound, Base, Late, Typed, Locking, Fading, Sleeping,
      Noticing, Heeding, Waking, Remembering, Lighting, Dark, Away, Owed, UnderWay, Timeout,
      Timeouts, IdleTime, Members
<1>7. Typed(noted) /\ Fading(noted) /\ Sleeping(noted, p) /\ Heeding(noted, w) /\ Locking(noted)
  BY <1>2, <1>3 DEF Held, Rest, Sound, Base, Late, Typed, Locking, Fading, Sleeping,
      Noticing, Heeding, Waking, Remembering, Lighting, Dark, Away, Owed, UnderWay, Timeout,
      Timeouts, IdleTime, Members
<1>8. Lit(noted)
  BY <1>0 DEF Lit, Members
<1>9. Away(m) \/ m.wanted = m.originalBrightness => Lit(n)
  BY <1>0, <1>2, <1>3 DEF Held, Rest, Lighting, Lit, Members
<1> HIDE DEF n, noted
<1> QED
  BY <1>1, <1>4, <1>5, <1>6, <1>7, <1>8, <1>9 DEF Stirred

\* The flags of darkness are cleared, and the checks go on.
LEMMA AwakeKeeps ==
  ASSUME NEW m, NEW p \in BOOLEAN, NEW w, NEW d \in Int, Stirred(m, p, w)
  PROVE  Kept([m EXCEPT !.screenSleeping = FALSE, !.screensaverActive = FALSE,
                        !.backlightReduced = FALSE, !.presentationMode = FALSE,
                        !.prevIdleTime = 0, !.idleTimer = TRUE, !.mprisTimer = TRUE],
              p, w, d)
<1> DEFINE n == [m EXCEPT !.screenSleeping = FALSE, !.screensaverActive = FALSE,
                          !.backlightReduced = FALSE, !.presentationMode = FALSE,
                          !.prevIdleTime = 0, !.idleTimer = TRUE, !.mprisTimer = TRUE]
<1>0. Typed(m) /\ DOMAIN m = Members
  BY DEF Stirred, Typed
<1>1. Typed(n)
  BY <1>0 DEF Typed, Members
<1>2. ~Away(n) /\ n.idleTimer /\ ~Dark(n)
  BY <1>0 DEF Members, Away, Dark
<1>3. Fading(n) /\ Locking(n)
  BY DEF Stirred, Fading, Locking, Typed, Members
<1>4. Sleeping(n, p)
  BY DEF Stirred, Sleeping, Owed, UnderWay, Typed, Members
<1>5. n.warning = m.warning /\ n.chargingState = m.chargingState /\ n.waiting = m.waiting
      /\ n.config = m.config
  BY <1>0 DEF Members
<1>6. Lighting(n)
  BY <1>0, <1>2 DEF Stirred, Lit, Lighting, IdleTime, Members
<1> HIDE DEF n
<1>7. Noticing(n, w)
  BY <1>2, <1>5 DEF Stirred, Heeding, Noticing, Waking
<1>8. Kept(n, p, w, d)
  BY <1>1, <1>2, <1>3, <1>4, <1>6, <1>7
     DEF Kept, Sound, Base, Remembering, Watching, Late
<1> QED
  BY <1>8 DEF n

\* The machine is awake again, whatever is under way by now.
LEMMA AfterWakeKeeps ==
  ASSUME NEW m, NEW p \in BOOLEAN, NEW q \in BOOLEAN, NEW w, NEW d \in Int,
         Kept(m, p, w, d), m.glibTimer, NEW net
  PROVE  Kept(AfterWakeActions(m, net), q, w, d)
<1> DEFINE waking == Woken(m)
           locked == IF m.config.lock_on_sleep THEN LockScreen(waking, TRUE, net) ELSE waking
           lit == SetBrightnessImmediate(locked, m.originalBrightness, TRUE)
           up(n) == [n EXCEPT !.screenSleeping = FALSE, !.screensaverActive = FALSE,
                              !.backlightReduced = FALSE, !.presentationMode = FALSE,
                              !.prevIdleTime = 0, !.idleTimer = TRUE, !.mprisTimer = TRUE]
<1>1. /\ Away(m) => AfterWakeActions(m, net) = up(lit)
      /\ ~Away(m) /\ m.wanted = m.originalBrightness =>
           AfterWakeActions(m, net) \in {up(lit), up(locked)}
      /\ ~Away(m) => AfterWakeActions(m, net) \in {up(Note(lit, "overruled")), up(lit), up(locked)}
      /\ ~Away(m) /\ m.wanted # m.originalBrightness =>
           AfterWakeActions(m, net) \in {up(Note(lit, "overruled")), up(locked)}
  BY DEF AfterWakeActions, NoteIf, Away, Dark
<1>2. /\ Rest(waking, q, w, d) /\ Remembering(waking) /\ ~waking.actionInProgress
      /\ ~m.config.lock_on_sleep => Locking(waking)
      /\ waking.originalBrightness = m.originalBrightness
      /\ waking.wanted = m.wanted
      /\ Away(waking) <=> Away(m)
  BY WokenRests
<1> HIDE DEF waking
<1> DEFINE after == LockScreen(waking, TRUE, net)
<1>3. Held(after, q, w, d) /\ SameScreen(after, waking)
  BY <1>2, LockScreenHolds, LockScreenLeaves DEF Rest
<1> HIDE DEF after
<1>4. /\ Held(locked, q, w, d) /\ locked.originalBrightness = m.originalBrightness
      /\ locked.wanted = m.wanted
      /\ Away(locked) <=> Away(m)
  <2>1. locked = IF m.config.lock_on_sleep THEN after ELSE waking
    BY DEF after
  <2> HIDE DEF locked
  <2>2. CASE m.config.lock_on_sleep
    BY <1>2, <1>3, <2>1, <2>2 DEF SameScreen, Away, Dark
  <2>3. CASE ~m.config.lock_on_sleep
    BY <1>2, <2>1, <2>3 DEF Held
  <2> QED
    BY <2>2, <2>3
<1> HIDE DEF locked
<1>5. /\ ~Away(m) => Stirred(locked, q, w)
      /\ Away(m) \/ m.wanted = m.originalBrightness => Stirred(lit, q, w)
      /\ Stirred(Note(lit, "overruled"), q, w)
  BY <1>4, LitAgain
<1> HIDE DEF lit
<1>6. \A n : Stirred(n, q, w) => Kept(up(n), q, w, d)
  BY AwakeKeeps
<1> HIDE DEF up
<1> QED
  BY <1>1, <1>5, <1>6

-----------------------------------------------------------------------------
(* Every step keeps all of this. *)

\* What a handler finds is what the world and the Wi-Fi, the clock and logind can say.
LEMMA FindingsFacts ==
  ASSUME world.mains \in {0, 1}, world.warning \in 0..2, NEW x \in Findings
  PROVE  /\ x.mains \in {0, 1} /\ x.warning \in 0..2 /\ x.ok \in BOOLEAN
         /\ x.mains = 0 => x.warning = Limits[0]
         /\ x.mains = 1 => x.warning = 0
         /\ Limits[0] \in 0..2 /\ Limits[1] = 0
<1>1. /\ x.mains = world.mains
      /\ x.warning = IF world.mains = 1 THEN 0 ELSE world.warning
      /\ x.ok \in (IF machine = "awake" THEN BOOLEAN ELSE {FALSE})
  BY DEF Findings
<1>2. x.ok \in BOOLEAN
  BY <1>1
<1>3. Limits[0] = world.warning /\ Limits[1] = 0
  BY DEF Limits
<1> QED
  BY <1>1, <1>2, <1>3

\* The idle time there was in a screen that is lit: it is all that a check can see, unless
\* the last wake-up is long ago.
Then == IF Dark(gui) \/ gui.since >= WakeCap THEN gui.config.sleep ELSE gui.since

\* What the lemmas about handlers ask for, before a step.
LEMMA Before ==
  ASSUME IInv
  PROVE  /\ Kept(gui, SleepUnderWay, Limits, Then) /\ Then \in Int
         /\ SleepUnderWay \in BOOLEAN
         /\ IdleTime(gui) >= Timeouts(gui).sleep => Timeouts(gui).sleep <= Then
<1>1. Typed(gui)
  BY DEF IInv
<1>2. /\ gui.config.sleep \in Nat /\ gui.since \in Nat /\ gui.idle \in Nat
      /\ WakeCap \in Nat
  <2>1. gui.config \in {s.config : s \in Scenarios}
    BY <1>1 DEF Typed
  <2>2. gui.config \in ConfigType
    BY <2>1, ConfigFacts
  <2>3. WakeCap \in Nat /\ MaxIdle \in Nat
    BY Sizes
  <2>4. gui.since \in 0..WakeCap /\ gui.idle \in 0..MaxIdle
    BY <1>1 DEF Typed
  <2> QED
    BY <2>2, <2>3, <2>4 DEF ConfigType
<1>3. Timeouts(gui).sleep \in Nat /\ Timeouts(gui).sleep <= gui.config.sleep
  BY <1>1, TimeoutFacts, SleepShortens DEF Typed
<1>4. Then \in Int
  BY <1>2 DEF Then
<1>5. Late(gui, Then)
  BY <1>3 DEF Late, Then
<1>6. IdleTime(gui) >= Timeouts(gui).sleep => Timeouts(gui).sleep <= Then
  <2>1. CASE Dark(gui) \/ gui.since >= WakeCap
    BY <1>3, <2>1 DEF Then
  <2>2. CASE ~(Dark(gui) \/ gui.since >= WakeCap)
    <3>1. IdleTime(gui) <= gui.since /\ Then = gui.since
      BY <1>2, <2>2 DEF IdleTime, Then
    <3>2. IdleTime(gui) \in Nat
      BY <1>2 DEF IdleTime
    <3> QED
      BY <1>2, <1>3, <3>1, <3>2
  <2> QED
    BY <2>1, <2>2
<1>7. SleepUnderWay \in BOOLEAN
  BY DEF SleepUnderWay
<1>8. Kept(gui, SleepUnderWay, Limits, Then)
  BY <1>5 DEF IInv, Kept, Sound, Base
<1> QED
  BY <1>4, <1>6, <1>7, <1>8

\* A sleep that was asked for is under way, and so the client need not remember it.
LEMMA AskedKeeps ==
  ASSUME NEW m, NEW p \in BOOLEAN, NEW q \in BOOLEAN, NEW w, NEW d \in Int, Kept(m, p, w, d),
         UnderWay(m, p) => q
  PROVE  Kept([m EXCEPT !.asked = "no"], q, w, d)
<1> DEFINE n == [m EXCEPT !.asked = "no"]
<1>1. Sound(n, q, w, d)
  BY DEF Kept, Sound, Base, Late, Typed, Locking, Fading, Sleeping, Noticing, Heeding,
      Waking, Remembering, Lighting, Dark, Away, Owed, UnderWay, Timeout, Timeouts,
      IdleTime, Members
<1>2. Watching(n, q)
  BY DEF Kept, Watching, Sound, Base, Typed, Members, UnderWay
<1> QED
  BY <1>1, <1>2 DEF Kept

\* A sleep that comes under way takes nothing away.
LEMMA Onward ==
  ASSUME NEW m, NEW p \in BOOLEAN, NEW q \in BOOLEAN, NEW w, NEW d \in Int, Kept(m, p, w, d),
         p => q
  PROVE  Kept(m, q, w, d)
<1>1. Sleeping(m, q)
  BY DEF Kept, Sound, Base, Sleeping, Owed, UnderWay
<1> QED
  BY <1>1 DEF Kept, Sound, Base, Watching, UnderWay

\* All but the words from logind, after a step.
After(d) ==
  /\ Kept(gui, SleepUnderWay, Limits, d) /\ gui.asked = "no"
  /\ world.mains \in {0, 1} /\ world.warning \in 0..2
  /\ signals \in Seq(BOOLEAN) /\ SignalsPaired

\* A handler leaves the members well; then all is well once logind was asked.
LEMMA HandleKeeps ==
  ASSUME IInv, NEW m, NEW d \in Int, Kept(m, SleepUnderWay, Limits, d), Handle(m), world' = world
  PROVE  After(d)'
<1>1. SleepUnderWay \in BOOLEAN /\ SleepUnderWay' \in BOOLEAN
  BY DEF SleepUnderWay
<1>2. Limits' = Limits
  BY DEF Limits
<1>3. DOMAIN m = Members /\ m.asked \in {"no", "sleep", "shutdown"}
  BY DEF Kept, Sound, Base, Typed
<1>4. gui' = [m EXCEPT !.asked = "no"] /\ gui'.asked = "no"
  BY <1>3 DEF Handle, Members
<1>5. signals \in Seq(BOOLEAN) /\ world.mains \in {0, 1} /\ world.warning \in 0..2
  BY DEF IInv
<1>6. CASE m.asked = "sleep"
  <2>1. machine' = "going" /\ signals' = Append(signals, TRUE)
    BY <1>6 DEF Handle
  <2>2. signals' \in Seq(BOOLEAN)
    BY <1>5, <2>1, AppendProperties
  <2>3. SleepUnderWay' /\ SignalsPaired'
    BY <2>1 DEF SleepUnderWay, SignalsPaired
  <2>4. Kept(gui', SleepUnderWay', Limits, d)
    BY <1>1, <1>4, <2>3, AskedKeeps
  <2> QED
    BY <1>2, <1>4, <1>5, <2>2, <2>3, <2>4 DEF After
<1>7. CASE m.asked = "shutdown"
  <2>1. machine' = "off" /\ signals' = signals
    BY <1>7 DEF Handle
  <2>3. SleepUnderWay' /\ SignalsPaired'
    BY <2>1 DEF SleepUnderWay, SignalsPaired
  <2>4. Kept(gui', SleepUnderWay', Limits, d)
    BY <1>1, <1>4, <2>3, AskedKeeps
  <2> QED
    BY <1>2, <1>4, <1>5, <2>1, <2>3, <2>4 DEF After
<1>8. CASE m.asked = "no"
  <2>1. machine' = machine /\ signals' = signals
    BY <1>8 DEF Handle
  <2>2. SleepUnderWay' <=> SleepUnderWay
    BY <2>1 DEF SleepUnderWay
  <2>3. SignalsPaired'
    BY <2>1 DEF SignalsPaired, IInv
  <2>4. Kept(gui', SleepUnderWay', Limits, d)
    BY <1>1, <1>4, <1>8, <2>2, AskedKeeps DEF UnderWay
  <2> QED
    BY <1>2, <1>4, <1>5, <2>1, <2>3, <2>4 DEF After
<1> QED
  BY <1>3, <1>6, <1>7, <1>8

\* A step that leaves the client alone.
LEMMA AloneKeeps ==
  ASSUME IInv, NEW d \in Int, Kept(gui, SleepUnderWay, Limits, d),
         gui' = gui, world' = world, SleepUnderWay => SleepUnderWay',
         signals' \in Seq(BOOLEAN), SignalsPaired'
  PROVE  After(d)'
<1>1. SleepUnderWay \in BOOLEAN /\ SleepUnderWay' \in BOOLEAN
  BY DEF SleepUnderWay
<1>2. Limits' = Limits
  BY DEF Limits
<1>3. Kept(gui, SleepUnderWay', Limits, d)
  BY <1>1, Onward
<1> QED
  BY <1>2, <1>3 DEF After, IInv

-----------------------------------------------------------------------------
(* What the actions do to the members. *)

\* Members that no part of the invariant is about.
LEMMA LidKeeps ==
  ASSUME NEW m, NEW p \in BOOLEAN, NEW w, NEW d \in Int, Kept(m, p, w, d), NEW v
  PROVE  /\ Kept([m EXCEPT !.lastLidState = v], p, w, d)
         /\ Kept([m EXCEPT !.lidOpen = v], p, w, d)
         /\ Kept([m EXCEPT !.saver = v], p, w, d)
<1>1. /\ Sound([m EXCEPT !.lastLidState = v], p, w, d)
      /\ Sound([m EXCEPT !.lidOpen = v], p, w, d)
      /\ Sound([m EXCEPT !.saver = v], p, w, d)
  BY DEF Kept, Sound, Base, Late, Typed, Locking, Fading, Sleeping, Noticing, Heeding,
      Waking, Remembering, Lighting, Dark, Away, Owed, UnderWay, Timeout, Timeouts,
      IdleTime, Members
<1>2. /\ Watching([m EXCEPT !.lastLidState = v], p)
      /\ Watching([m EXCEPT !.lidOpen = v], p)
      /\ Watching([m EXCEPT !.saver = v], p)
  BY DEF Kept, Watching, Sound, Base, Typed, Members, UnderWay
<1> QED
  BY <1>1, <1>2 DEF Kept

\* Input brings idle time back to nothing.
LEMMA InputKeeps ==
  ASSUME NEW m, NEW p \in BOOLEAN, NEW w, NEW d \in Int, Kept(m, p, w, d)
  PROVE  Kept([m EXCEPT !.idle = 0], p, w, d)
<1> DEFINE n == [m EXCEPT !.idle = 0]
<1>0. DOMAIN m = Members
  BY DEF Kept, Sound, Base, Typed
<1>1. 0 \in 0..MaxIdle
  BY Sizes
<1>2. Watching(n, p)
  BY <1>0 DEF Kept, Watching, Members, UnderWay
<1>3. Sound(n, p, w, d)
  <2>1. Typed(n)
    BY <1>1 DEF Kept, Sound, Base, Typed, Members
  <2>2. Fading(n) /\ Sleeping(n, p) /\ Noticing(n, w) /\ Late(n, d)
    BY DEF Kept, Sound, Base, Late, Typed, Locking, Fading, Sleeping, Noticing, Heeding,
        Waking, Remembering, Lighting, Dark, Away, Owed, UnderWay, Timeout, Timeouts,
        IdleTime, Members
  <2>3. Locking(n) /\ Remembering(n)
    BY DEF Kept, Sound, Base, Late, Typed, Locking, Fading, Sleeping, Noticing, Heeding,
        Waking, Remembering, Lighting, Dark, Away, Owed, UnderWay, Timeout, Timeouts,
        IdleTime, Members
  <2>4. IdleTime(n) = 0
    <3>1. n.idle = 0 /\ n.since = m.since
      BY <1>0 DEF Members
    <3>2. m.since \in 0..WakeCap
      BY DEF Kept, Sound, Base, Typed
    <3> HIDE DEF n
    <3> QED
      BY <3>1, <3>2 DEF IdleTime
  <2>5. Lighting(n)
    BY <1>0, <2>4 DEF Kept, Sound, Base, Lighting, Away, Dark, Members
  <2> QED
    BY <2>1, <2>2, <2>3, <2>5 DEF Sound, Base
<1> QED
  BY <1>2, <1>3 DEF Kept

\* The Wi-Fi check is tried again.
LEMMA RetryKeeps ==
  ASSUME NEW m, NEW p \in BOOLEAN, NEW w, NEW d \in Int, Kept(m, p, w, d), m.retries > 0, NEW net
  PROVE  Kept(CheckWifiAndLock([m EXCEPT !.retries = @ - 1], net), p, w, d)
<1> DEFINE n == [m EXCEPT !.retries = @ - 1]
           after == CheckWifiAndLock(n, net)
<1>1. Rest(n, p, w, d) /\ Remembering(n) /\ Waking(n)
  BY DEF Kept, Rest, Sound, Base, Late, Typed, Locking, Fading, Sleeping, Noticing, Heeding,
      Waking, Remembering, Lighting, Dark, Away, Owed, UnderWay, Timeout, Timeouts,
      IdleTime, Members
<1>2. Watching(n, p)
  BY DEF Kept, Watching, Sound, Base, Typed, Members, UnderWay
<1> HIDE DEF n
<1>3. Held(after, p, w, d) /\ Waking(after) /\ Watching(after, p)
  BY <1>1, <1>2, CheckWifiKeeps
<1> HIDE DEF after
<1>4. Kept(after, p, w, d)
  BY <1>3 DEF Held, Rest, Kept, Sound, Base, Noticing
<1> QED
  BY <1>4 DEF after, n

\* The overlay of the Wi-Fi check goes.
LEMMA HideKeeps ==
  ASSUME NEW m, NEW p \in BOOLEAN, NEW w, NEW d \in Int, Kept(m, p, w, d), m.hides > 0
  PROVE  Kept(WokeUp([m EXCEPT !.hides = @ - 1, !.wifiOverlay = FALSE]), p, w, d)
<1> DEFINE n == [m EXCEPT !.hides = @ - 1, !.wifiOverlay = FALSE]
<1>1. Sound(n, p, w, d)
  BY DEF Kept, Sound, Base, Late, Typed, Locking, Fading, Sleeping, Noticing, Heeding,
      Waking, Remembering, Lighting, Dark, Away, Owed, UnderWay, Timeout, Timeouts,
      IdleTime, Members
<1>2. Watching(n, p)
  BY DEF Kept, Watching, Sound, Base, Typed, Members, UnderWay
<1> HIDE DEF n
<1>3. Sound(WokeUp(n), p, w, d) /\ Watching(WokeUp(n), p)
  BY <1>1, <1>2, WokeUpKeeps
<1>4. Kept(WokeUp(n), p, w, d)
  BY <1>3 DEF Kept
<1> QED
  BY <1>4 DEF n

\* The delay lock is taken again: the loop of an effect that others' sleep brought is not
\* over, so that this sleep is still under way.
LEMMA ReacquireKeeps ==
  ASSUME NEW m, NEW p \in BOOLEAN, NEW w, NEW d \in Int, Kept(m, p, w, d), m.reacquires > 0,
         m.waiting # <<>> => ~m.sleepTransitionDone
  PROVE  Kept([m EXCEPT !.reacquires = @ - 1, !.delayLock = @ \/ m.config.intercept], p, w, d)
<1> DEFINE held == m.delayLock \/ m.config.intercept
           n == [m EXCEPT !.reacquires = @ - 1, !.delayLock = held]
<1>0. DOMAIN m = Members /\ m.reacquires - 1 \in Nat
  BY DEF Kept, Sound, Base, Typed
<1>1. held \in BOOLEAN /\ (m.config.intercept => held)
  BY ConfigFacts DEF Kept, Sound, Base, Typed, ConfigType
<1>2. [m EXCEPT !.reacquires = @ - 1, !.delayLock = @ \/ m.config.intercept] = n
  BY <1>0 DEF Members
<1> HIDE DEF held
<1>3. Watching(n, p)
  BY <1>0 DEF Kept, Watching, Members, UnderWay
<1>4. Typed(n)
  BY <1>0, <1>1 DEF Kept, Sound, Base, Typed, Members
<1>5. /\ Fading(n) /\ Noticing(n, w) /\ Late(n, d) /\ Lighting(n) /\ Locking(n)
      /\ Remembering(n)
  BY DEF Kept, Sound, Base, Late, Typed, Locking, Fading, Sleeping, Noticing, Heeding,
      Waking, Remembering, Lighting, Dark, Away, Owed, UnderWay, Timeout, Timeouts,
      IdleTime, Members
<1>6. Awaits(m.waiting, {"others"}) => Owed(m, p)
  <2>1. Awaits(m.waiting, {"others"}) => m.waiting # <<>>
    BY DEF Awaits
  <2> QED
    BY <2>1 DEF Kept, Sound, Base, Sleeping
<1>7. Owed(m, p) <=> Owed(n, p)
  BY <1>0 DEF Owed, UnderWay, Members
<1>8. /\ n.waiting = m.waiting /\ n.overlay = m.overlay /\ n.config = m.config
      /\ n.actionInProgress = m.actionInProgress /\ n.glibTimer = m.glibTimer
      /\ n.sleepTransitionDone = m.sleepTransitionDone
      /\ UnderWay(n, p) <=> UnderWay(m, p)
      /\ n.delayLock = held
  BY <1>0 DEF Members, UnderWay
<1>9. Sleeping(m, p)
  BY DEF Kept, Sound, Base
<1> HIDE DEF n
<1>10. Sleeping(n, p)
  BY <1>1, <1>6, <1>7, <1>8, <1>9 DEF Sleeping
<1> QED
  BY <1>2, <1>3, <1>4, <1>5, <1>10 DEF Kept, Sound, Base

\* The last frame of the effect: a sleep is owed while it plays.
LEMMA AnimationKeeps ==
  ASSUME NEW m, NEW p \in BOOLEAN, NEW w, NEW d \in Int, Kept(m, p, w, d), m.overlay = "playing"
  PROVE  Kept([m EXCEPT !.overlay = "done", !.sleepTransitionDone = TRUE], p, w, d)
<1> DEFINE n == [m EXCEPT !.overlay = "done", !.sleepTransitionDone = TRUE]
<1>1. Watching(n, p)
  BY DEF Kept, Watching, Sound, Base, Typed, Members, UnderWay
<1>2. Typed(n)
  BY DEF Kept, Sound, Base, Typed, Members
<1>3. Owed(m, p)
  BY DEF Kept, Sound, Base, Sleeping
<1>4. Sleeping(n, p)
  BY <1>3 DEF Kept, Sound, Base, Sleeping, Owed, UnderWay, Typed, Members
<1>5. /\ Fading(n) /\ Noticing(n, w) /\ Late(n, d) /\ Lighting(n) /\ Locking(n)
      /\ Remembering(n)
  BY DEF Kept, Sound, Base, Late, Typed, Locking, Fading, Sleeping, Noticing, Heeding,
      Waking, Remembering, Lighting, Dark, Away, Owed, UnderWay, Timeout, Timeouts,
      IdleTime, Members
<1> QED
  BY <1>1, <1>2, <1>4, <1>5 DEF Kept, Sound, Base

\* A brightness is chosen: it is wanted from now on.
LEMMA ChosenKeeps ==
  ASSUME NEW m, NEW p \in BOOLEAN, NEW w, NEW d \in Int, Kept(m, p, w, d), NEW raw \in Levels
  PROVE  Kept(NoteIf(Adjusted(m), SetBrightness([m EXCEPT !.wanted = raw], raw), "overruled"),
              p, w, d)
<1> DEFINE set == [m EXCEPT !.wanted = raw, !.backlight = raw]
           noted == [m EXCEPT !.wanted = raw, !.backlight = raw,
                              !.mishaps = @ \cup {"overruled"}]
<1>0. DOMAIN m = Members
  BY DEF Kept, Sound, Base, Typed
<1>1. raw \in 1..Backlight
  BY ScreenAssumption
<1>2. Clamped(raw) = raw
  BY <1>1, ClampedFits
<1>3. SetBrightness([m EXCEPT !.wanted = raw], raw) = set /\ Note(set, "overruled") = noted
  BY <1>0, <1>2 DEF SetBrightness, Note, Members
<1>4. Kept(noted, p, w, d) /\ (~Adjusted(m) => Kept(set, p, w, d))
  BY <1>1, CappedKeeps DEF Adjusted, Away, Dark
<1> HIDE DEF set, noted
<1> QED
  BY <1>3, <1>4 DEF NoteIf

\* The session is locked by a remote call.
LEMMA RemoteLockKeeps ==
  ASSUME NEW m, NEW p \in BOOLEAN, NEW w, NEW d \in Int, Kept(m, p, w, d)
  PROVE  Kept(LockScreenNow(m), p, w, d)
<1> DEFINE n == [m EXCEPT !.lockDue = FALSE]
<1>1. Sound(n, p, w, d)
  BY DEF Kept, Sound, Base, Late, Typed, Locking, Fading, Sleeping, Noticing, Heeding,
      Waking, Remembering, Lighting, Dark, Away, Owed, UnderWay, Timeout, Timeouts,
      IdleTime, Members
<1>2. Watching(n, p)
  BY DEF Kept, Watching, Sound, Base, Typed, Members, UnderWay
<1> QED
  BY <1>1, <1>2 DEF Kept, LockScreenNow

\* The checks rest for a shutdown, which is called off.
LEMMA CalledOffKeeps ==
  ASSUME NEW m, NEW p \in BOOLEAN, NEW w, NEW d \in Int, Kept(m, p, w, d)
  PROVE  Kept(PrepareForShutdown(m), p, w, d)
<1> DEFINE n == [m EXCEPT !.idleTimer = FALSE, !.mishaps = @ \cup {"called off"}]
<1>0. DOMAIN m = Members
  BY DEF Kept, Sound, Base, Typed
<1>1. Note([m EXCEPT !.idleTimer = FALSE], "called off") = n
  BY <1>0 DEF Note, Members
<1>2. Sound(n, p, w, d)
  BY DEF Kept, Sound, Base, Late, Typed, Locking, Fading, Sleeping, Noticing, Heeding,
      Waking, Remembering, Lighting, Dark, Away, Owed, UnderWay, Timeout, Timeouts,
      IdleTime, Members
<1>3. Watching(n, p)
  BY <1>0 DEF Watching, Forgotten, Members
<1> QED
  BY <1>1, <1>2, <1>3 DEF Kept, PrepareForShutdown

\* Input, with a screensaver or without one.
LEMMA InputHandled ==
  ASSUME NEW m, NEW p \in BOOLEAN, NEW w, NEW d \in Int, Kept(m, p, w, d)
  PROVE  /\ Kept(OnResume(DismissScreensaver(m)), p, w, d)
         /\ LET used == [m EXCEPT !.idle = 0]
            IN Kept(IF m.saver = "none" THEN used ELSE OnResume(DismissScreensaver(used)),
                    p, w, d)
<1>1. \A r : Kept(r, p, w, d) => Kept(OnResume(DismissScreensaver(r)), p, w, d)
  <2> SUFFICES ASSUME NEW r, Kept(r, p, w, d)
               PROVE  Kept(OnResume(DismissScreensaver(r)), p, w, d)
    OBVIOUS
  <2> DEFINE clear == [r EXCEPT !.saver = "none"]
  <2>1. Kept(clear, p, w, d)
    BY LidKeeps
  <2>2. DismissScreensaver(r) = clear
    BY DEF DismissScreensaver
  <2> HIDE DEF clear
  <2> QED
    BY <2>1, <2>2, OnResumeKeeps
<1> DEFINE used == [m EXCEPT !.idle = 0]
<1>2. Kept(used, p, w, d)
  BY InputKeeps
<1> HIDE DEF used
<1>3. Kept(IF m.saver = "none" THEN used ELSE OnResume(DismissScreensaver(used)), p, w, d)
  BY <1>1, <1>2
<1> QED
  BY <1>1, <1>3 DEF used

\* Neither word from logind makes the client ask for anything.
LEMMA PrepareAsksNothing ==
  ASSUME NEW m, DOMAIN m = Members
  PROVE  PrepareForSleep(m).asked = m.asked
<1> DEFINE still == [m EXCEPT !.idleTimer = FALSE]
           rest == [next |-> "others", seen |-> -1]
           v == IF m.saver = "none" THEN "none" ELSE "black"
           more == Append(m.waiting, rest)
           playing == [m EXCEPT !.idleTimer = FALSE, !.saver = "none",
                                !.transitionInProgress = TRUE, !.overlay = "playing",
                                !.sleepTransitionDone = FALSE, !.glibTimer = FALSE,
                                !.waiting = more]
           black == [m EXCEPT !.idleTimer = FALSE, !.saver = v, !.delayLock = FALSE]
           given == [m EXCEPT !.delayLock = FALSE]
<1>1. PrepareForSleep(m) \in {playing, black, given}
  BY DEF PrepareForSleep, RunSleepTransition, DismissScreensaver, Blackout, Members
<1> HIDE DEF v, more
<1>2. playing.asked = m.asked /\ black.asked = m.asked /\ given.asked = m.asked
  BY DEF Members
<1> HIDE DEF playing, black, given
<1> QED
  BY <1>1, <1>2

\* The same for the second word.
LEMMA AfterWakeAsksNothing ==
  ASSUME NEW m, NEW p \in BOOLEAN, NEW w, NEW d \in Int,
         Kept(m, p, w, d), m.glibTimer, NEW net
  PROVE  AfterWakeActions(m, net).asked = m.asked
<1> DEFINE waking == Woken(m)
           locked == IF m.config.lock_on_sleep THEN LockScreen(waking, TRUE, net) ELSE waking
           lit == SetBrightnessImmediate(locked, m.originalBrightness, TRUE)
           up(n) == [n EXCEPT !.screenSleeping = FALSE, !.screensaverActive = FALSE,
                              !.backlightReduced = FALSE, !.presentationMode = FALSE,
                              !.prevIdleTime = 0, !.idleTimer = TRUE, !.mprisTimer = TRUE]
<1>0. DOMAIN m = Members
  BY DEF Kept, Sound, Base, Typed
<1>1. AfterWakeActions(m, net) \in {up(Note(lit, "overruled")), up(lit), up(locked)}
  BY DEF AfterWakeActions, NoteIf
<1>2. Typed(waking)
  BY WokenRests DEF Rest
<1>3. waking.asked = m.asked
  BY <1>0 DEF Woken, WokeUp, DismissScreensaver, Members
<1> HIDE DEF waking
<1>4. SameScreen(LockScreen(waking, TRUE, net), waking)
  BY <1>2, LockScreenLeaves
<1>5. locked.asked = m.asked /\ DOMAIN locked = Members
  BY <1>2, <1>3, <1>4 DEF SameScreen, Typed
<1> HIDE DEF locked
<1>6. lit.asked = m.asked /\ DOMAIN lit = Members
  <2> DEFINE tip == IF locked.transitionInProgress THEN FALSE ELSE locked.transitionInProgress
             timer == IF locked.transitionInProgress THEN FALSE ELSE locked.transitionTimer
             level == Clamped(m.originalBrightness)
             now == [locked EXCEPT !.transitionInProgress = tip, !.transitionTimer = timer,
                                   !.backlight = level]
  <2>1. lit = now
    BY <1>5, Immediately
  <2> HIDE DEF tip, timer, level
  <2>2. now.asked = m.asked /\ DOMAIN now = Members
    BY <1>5 DEF Members
  <2> HIDE DEF now, lit
  <2> QED
    BY <2>1, <2>2
<1> HIDE DEF lit
<1>7. Note(lit, "overruled").asked = m.asked /\ DOMAIN Note(lit, "overruled") = Members
  BY <1>6 DEF Note, Members
<1>8. \A n : DOMAIN n = Members => up(n).asked = n.asked
  BY DEF Members
<1> HIDE DEF up
<1> QED
  BY <1>1, <1>5, <1>6, <1>7, <1>8

\* A word from logind.
LEMMA IterateGlibKeeps ==
  ASSUME IInv, IterateGlib, NEW d \in Int, Kept(gui, SleepUnderWay, Limits, d)
  PROVE  After(d)'
<1>1. PICK x \in Findings :
        gui' = IF Head(signals) THEN PrepareForSleep(gui) ELSE AfterWakeActions(gui, x.net)
  BY DEF IterateGlib
<1>2. /\ signals \in Seq(BOOLEAN) /\ signals # <<>> /\ signals' = Tail(signals)
      /\ machine' = machine /\ world' = world /\ gui.glibTimer /\ gui.asked = "no"
  BY DEF IterateGlib, IInv
<1>3. Limits' = Limits
  BY <1>2 DEF Limits
<1>4. /\ Len(signals) \in Nat \ {0} /\ DOMAIN signals = 1..Len(signals)
      /\ signals' \in Seq(BOOLEAN) /\ DOMAIN signals' = 1..(Len(signals) - 1)
      /\ \A i \in DOMAIN signals' : i + 1 \in DOMAIN signals /\ signals'[i] = signals[i + 1]
      /\ Head(signals) = signals[1] /\ Head(signals) \in BOOLEAN
  BY <1>2, EmptySeq, HeadTailProperties
<1>5. SignalsPaired'
  <2> SUFFICES ASSUME NEW i \in DOMAIN signals', signals'[i]
               PROVE  machine' # "awake" \/ \E j \in DOMAIN signals' : i < j /\ ~signals'[j]
    BY DEF SignalsPaired
  <2>1. i + 1 \in DOMAIN signals /\ signals[i + 1]
    BY <1>4
  <2>2. CASE machine # "awake"
    BY <1>2, <2>2
  <2>3. CASE machine = "awake"
    <3>1. PICK j \in DOMAIN signals : i + 1 < j /\ ~signals[j]
      BY <2>1, <2>3 DEF IInv, SignalsPaired
    <3>2. j - 1 \in DOMAIN signals' /\ i < j - 1 /\ signals'[j - 1] = signals[j]
      BY <1>4, <3>1
    <3> QED
      BY <3>1, <3>2
  <2> QED
    BY <2>2, <2>3
<1>a. 1 \in DOMAIN signals
  BY <1>4
<1>b. \A j \in DOMAIN signals : 1 < j => j - 1 \in DOMAIN signals' /\ (j - 1) + 1 = j
  BY <1>4
<1>c. \A j \in DOMAIN signals : 1 < j => signals'[j - 1] = signals[j]
  BY <1>4, <1>b
<1>d. signals[1] = Head(signals)
  BY <1>4
<1>6. Head(signals) => SleepUnderWay /\ SleepUnderWay'
  <2>1. CASE machine # "awake"
    BY <1>2, <2>1 DEF SleepUnderWay
  <2>2. ASSUME machine = "awake", signals[1] PROVE SleepUnderWay /\ SleepUnderWay'
    <3>1. PICK j \in DOMAIN signals : 1 < j /\ ~signals[j]
      BY <1>a, <2>2 DEF IInv, SignalsPaired
    <3>2. j - 1 \in DOMAIN signals' /\ signals'[j - 1] = signals[j]
      BY <1>b, <1>c, <3>1
    <3> QED
      BY <3>1, <3>2 DEF SleepUnderWay
  <2> QED
    BY <1>d, <2>1, <2>2
<1>7. SleepUnderWay \in BOOLEAN /\ SleepUnderWay' \in BOOLEAN
  BY DEF SleepUnderWay
<1>8. DOMAIN gui = Members
  BY DEF IInv, Typed
<1>9. Kept(gui', SleepUnderWay', Limits, d) /\ gui'.asked = "no"
  <2>1. CASE Head(signals)
    <3>1. Kept(gui, TRUE, Limits, d)
      BY <1>6, <1>7, <2>1, Onward
    <3>2. Kept(PrepareForSleep(gui), TRUE, Limits, d)
      BY <3>1, PrepareForSleepKeeps
    <3>3. Kept(gui', TRUE, Limits, d)
      BY <1>1, <2>1, <3>2
    <3>4. Kept(gui', SleepUnderWay', Limits, d)
      BY <1>6, <1>7, <2>1, <3>3, Onward
    <3>5. gui'.asked = "no"
      BY <1>1, <1>2, <1>8, <2>1, PrepareAsksNothing
    <3> QED
      BY <3>4, <3>5
  <2>2. CASE ~Head(signals)
    <3>1. gui' = AfterWakeActions(gui, x.net)
      BY <1>1, <2>2
    <3>2. Kept(AfterWakeActions(gui, x.net), SleepUnderWay', Limits, d)
      BY <1>2, <1>7, AfterWakeKeeps
    <3>3. AfterWakeActions(gui, x.net).asked = "no"
      BY <1>2, <1>7, AfterWakeAsksNothing
    <3> QED
      BY <3>1, <3>2, <3>3
  <2> QED
    BY <2>1, <2>2
<1> QED
  BY <1>2, <1>3, <1>4, <1>5, <1>9 DEF After, IInv

\* Idle time that goes on is still past the timeout it was past.
LEMMA IdlesKeeps ==
  ASSUME IInv, Idles, NEW d \in Int, Kept(gui, SleepUnderWay, Limits, d)
  PROVE  After(d)'
<1> DEFINE more == Min({gui.idle + 1, MaxIdle})
           longer == Min({gui.since + 1, WakeCap})
           n == [gui EXCEPT !.idle = more, !.since = longer]
           noted == [gui EXCEPT !.idle = more, !.since = longer,
                                !.mishaps = @ \cup {"unseen"}]
           unseen == /\ gui.idle = 0 /\ Away(gui)
                     /\ ~gui.idleTimer \/ gui.actionInProgress \/ gui.waiting # <<>>
<1>0. Typed(gui) /\ DOMAIN gui = Members
  BY DEF IInv, Typed
<1>1. /\ gui.idle \in 0..MaxIdle /\ gui.since \in 0..WakeCap
      /\ MaxIdle \in Nat /\ WakeCap \in Nat
  BY <1>0, ScreenAssumption DEF Typed
<1>2. /\ more = IF gui.idle + 1 <= MaxIdle THEN gui.idle + 1 ELSE MaxIdle
      /\ longer = IF gui.since + 1 <= WakeCap THEN gui.since + 1 ELSE WakeCap
  <2>1. gui.idle + 1 \in Int /\ gui.since + 1 \in Int
    BY <1>1
  <2> QED
    BY <1>1, <2>1, MinOfTwo
<1>3. gui' = IF unseen THEN noted ELSE n
  BY <1>0 DEF Idles, NoteIf, Note, Away, Dark, Members
<1> HIDE DEF more, longer
<1>4. /\ more \in 0..MaxIdle /\ gui.idle <= more
      /\ longer \in 0..WakeCap /\ gui.since <= longer
  BY <1>1, <1>2
<1> DEFINE Past(r) == \/ r.idle = 0
                      \/ IdleTime(r) >= Timeout(gui)
<1>5. \A r : r.idle = more /\ r.since = longer /\ IdleTime(gui) >= Timeout(gui) => Past(r)
  <2>1. Timeout(gui) \in Nat
    BY <1>0, TimeoutFacts DEF Typed, Timeout
  <2>2. \A r : r.idle = more /\ r.since = longer =>
           IdleTime(r) >= IdleTime(gui) /\ IdleTime(r) \in Nat
    BY <1>1, <1>4 DEF IdleTime
  <2>3. IdleTime(gui) \in Nat
    BY <1>1 DEF IdleTime
  <2> QED
    BY <2>1, <2>2, <2>3
<1>6. ~gui.transitionTimer
  BY DEF Idles
<1>7. ASSUME ~unseen, Away(gui), "unseen" \notin gui.mishaps
      PROVE  IdleTime(gui) >= Timeout(gui)
  <2>1. gui.idle = 0 \/ IdleTime(gui) >= Timeout(gui)
    BY <1>7 DEF IInv, Noticing, Heeding
  <2>2. ASSUME gui.idle = 0 PROVE FALSE
    <3>1. gui.idleTimer /\ ~gui.actionInProgress /\ gui.waiting = <<>>
      BY <1>7, <2>2
    <3>2. gui.prevIdleTime = IdleTime(gui)
      BY <3>1 DEF Idles
    <3>3. IdleTime(gui) = 0
      BY <1>1, <2>2 DEF IdleTime
    <3>4. ~Resumes(gui.waiting)
      BY <3>1 DEF Resumes
    <3>5. gui.prevIdleTime >= Timeout(gui)
      BY <1>7, <3>4 DEF IInv, Remembering
    <3>6. Timeout(gui) \in Nat \ {0}
      BY <1>0, TimeoutFacts DEF Typed, Timeout
    <3> QED
      BY <3>2, <3>3, <3>5, <3>6
  <2> QED
    BY <2>1, <2>2
<1> HIDE DEF Past, unseen
<1>8. Kept(noted, SleepUnderWay, Limits, d) /\ noted.asked = "no"
  <2>1. Typed(noted)
    BY <1>0, <1>4 DEF Typed, Members
  <2>2. /\ Fading(noted) /\ Locking(noted) /\ Sleeping(noted, SleepUnderWay)
        /\ Watching(noted, SleepUnderWay)
    <3>1. Fading(noted) /\ Locking(noted) /\ Sleeping(noted, SleepUnderWay)
      BY <1>0 DEF IInv, Fading, Locking, Sleeping, Owed, UnderWay, Members
    <3>2. Forgotten(gui.mishaps) => Forgotten(noted.mishaps)
      BY <1>0 DEF Forgotten, Members
    <3>3. Watching(noted, SleepUnderWay)
      BY <1>0, <3>2 DEF IInv, Watching, UnderWay, Members
    <3> QED
      BY <3>1, <3>3
  <2>3. Noticing(noted, Limits)
    BY <1>0 DEF IInv, Noticing, Heeding, Waking, Away, Dark, Members
  <2>4. Remembering(noted)
    BY <1>0 DEF Remembering, Members
  <2>5. Lighting(noted)
    BY <1>0, <1>6 DEF IInv, Lighting, Away, Dark, Members
  <2>6. Late(noted, d)
    BY <1>0 DEF Kept, Sound, Base, Late, Dark, Timeouts, Members
  <2>7. noted.asked = "no"
    BY <1>0 DEF IInv, Members
  <2> HIDE DEF noted
  <2> QED
    BY <2>1, <2>2, <2>3, <2>4, <2>5, <2>6, <2>7 DEF Kept, Sound, Base
<1>9. ASSUME ~unseen PROVE Kept(n, SleepUnderWay, Limits, d) /\ n.asked = "no"
  <2>1. Typed(n)
    BY <1>0, <1>4 DEF Typed, Members
  <2>2. /\ Fading(n) /\ Locking(n) /\ Sleeping(n, SleepUnderWay)
        /\ Watching(n, SleepUnderWay)
    BY <1>0 DEF IInv, Fading, Locking, Sleeping, Watching, Owed, UnderWay, Members
  <2>3. /\ Away(n) <=> Away(gui)
        /\ Dark(n) <=> Dark(gui)
        /\ n.mishaps = gui.mishaps /\ n.waiting = gui.waiting /\ n.config = gui.config
        /\ n.justWokeUp = gui.justWokeUp /\ n.warning = gui.warning
        /\ n.chargingState = gui.chargingState /\ n.prevIdleTime = gui.prevIdleTime
        /\ n.idle = more /\ n.since = longer /\ n.asked = gui.asked
    BY <1>0 DEF Away, Dark, Members
  <2>4. Lighting(n)
    BY <1>0, <1>6 DEF IInv, Lighting, Away, Dark, Members
  <2> HIDE DEF n
  <2>5. Timeouts(n) = Timeouts(gui) /\ Timeout(n) = Timeout(gui)
    BY <2>3 DEF Timeouts, Timeout
  <2>6. Away(n) /\ "unseen" \notin n.mishaps => Past(n)
    BY <1>5, <1>7, <1>9, <2>3
  <2>7. Noticing(n, Limits)
    BY <2>3, <2>5, <2>6 DEF IInv, Noticing, Heeding, Waking, Past
  <2>8. Remembering(n)
    BY <2>3, <2>5 DEF IInv, Remembering
  <2>9. Late(n, d)
    BY <2>3, <2>5 DEF Kept, Sound, Base, Late
  <2> QED
    BY <2>1, <2>2, <2>3, <2>4, <2>7, <2>8, <2>9 DEF Kept, Sound, Base, IInv
<1> HIDE DEF n, noted
<1>10. Kept(gui', SleepUnderWay, Limits, d) /\ gui'.asked = "no"
  BY <1>3, <1>8, <1>9
<1>11. /\ UNCHANGED <<world, machine, signals>>
       /\ SignalsPaired' /\ (SleepUnderWay' <=> SleepUnderWay) /\ Limits' = Limits
  BY DEF Idles, IInv, SignalsPaired, SleepUnderWay, Limits
<1>12. Kept(gui', SleepUnderWay', Limits', d)
  BY <1>10, <1>11, Onward DEF SleepUnderWay
<1> QED
  BY <1>10, <1>11, <1>12 DEF After, IInv

\* The charge only goes down, as far as warnings go.
LEMMA ChangeGrows ==
  ASSUME Change, world.mains \in {0, 1}, world.warning \in 0..2
  PROVE  /\ world'.mains \in {0, 1} /\ world'.warning \in 0..2
         /\ world.warning <= world'.warning
<1>0. world.warning \in Int
  OBVIOUS
<1>1. CASE world' = [world EXCEPT !.mains = 1 - @]
  BY <1>1
<1>2. CASE \E warning \in (world.warning + 1)..2 : world' = [world EXCEPT !.warning = warning]
  BY <1>2
<1>3. CASE \E list \in Playlists \ {world.players} : world' = [world EXCEPT !.players = list]
  BY <1>3
<1> QED
  BY <1>1, <1>2, <1>3 DEF Change

-----------------------------------------------------------------------------
(* The invariant, and what follows from it. *)

\* Every step keeps the invariant, and darkens the screen no earlier than the idle time
\* there was allows.
LEMMA StepKeeps ==
  ASSUME IInv, [Next]_vars, NEW d \in Int, d = Then
  PROVE  After(d)'
<1>1. /\ Kept(gui, SleepUnderWay, Limits, d) 
      /\ SleepUnderWay \in BOOLEAN
      /\ IdleTime(gui) >= Timeouts(gui).sleep => Timeouts(gui).sleep <= d
  BY Before
<1>2. Typed(gui) /\ DOMAIN gui = Members /\ gui.asked = "no"
  BY DEF IInv, Typed
<1>3. /\ world.mains \in {0, 1} /\ world.warning \in 0..2
      /\ signals \in Seq(BOOLEAN) /\ SignalsPaired
  BY DEF IInv
<1>4. \A x \in Findings :
        /\ x.mains \in {0, 1} /\ x.warning \in 0..2 /\ x.ok \in BOOLEAN
        /\ x.mains = 0 => x.warning = Limits[0]
        /\ x.mains = 1 => x.warning = 0
        /\ Limits[0] \in 0..2 /\ Limits[1] = 0
  BY <1>3, FindingsFacts
<1> DEFINE Fine(m) == Kept(m, SleepUnderWay, Limits, d)
<1>5. \A m : Fine(m) /\ Handle(m) /\ world' = world => After(d)'
  BY <1>1, HandleKeeps
<1>6. CASE IdleTimer
  <2>1. PICK x \in Findings : Handle(CheckIdle(gui, x)) /\ world' = world
    BY <1>6 DEF IdleTimer, Unmoved
  <2>2. Fine(CheckIdle(gui, x))
    BY <1>1, <1>4, CheckIdleKeeps
  <2> QED
    BY <1>5, <2>1, <2>2
<1>7. CASE FadeStep
  <2>1. Handle(UpdateBrightnessTransition(gui)) /\ world' = world /\ gui.transitionTimer
    BY <1>7 DEF FadeStep, Unmoved
  <2>2. Fine(UpdateBrightnessTransition(gui))
    BY <1>1, <2>1, FadeStepKeeps
  <2> QED
    BY <1>5, <2>1, <2>2
<1>8. CASE MprisTimer
  <2>1. PICK x \in Findings : Handle(PollMpris(gui, x)) /\ world' = world
    BY <1>8 DEF MprisTimer, Unmoved
  <2>2. Fine(PollMpris(gui, x))
    BY <1>1, <1>4, PollMprisKeeps
  <2> QED
    BY <1>5, <2>1, <2>2
<1>9. CASE BatteryPoll
  <2>1. PICK x \in Findings : Handle(CheckBatteryStatus(gui, x)) /\ world' = world
    BY <1>9 DEF BatteryPoll, Unmoved
  <2>2. Fine(CheckBatteryStatus(gui, x))
    BY <1>1, <1>4, CheckBatteryKeeps
  <2> QED
    BY <1>5, <2>1, <2>2
<1>10. CASE CheckLidState
  <2> DEFINE m == [gui EXCEPT !.lastLidState = gui.lidOpen]
  <2>1. PICK x \in Findings :
          Handle(CASE gui.actionInProgress -> m
                   [] ~gui.actionInProgress /\ ~gui.lidOpen -> LidClosed(m, x.net, x.ok)
                   [] OTHER -> OnResume(m))
    BY <1>10 DEF CheckLidState
  <2>2. world' = world
    BY <1>10 DEF CheckLidState, Unmoved
  <2>3. Fine(m)
    BY <1>1, LidKeeps
  <2> HIDE DEF m
  <2>4. Fine(LidClosed(m, x.net, x.ok)) /\ Fine(OnResume(m))
    BY <1>1, <1>4, <2>3, LidClosedKeeps, OnResumeKeeps DEF Kept
  <2>5. PICK n \in {m, LidClosed(m, x.net, x.ok), OnResume(m)} : Handle(n)
    BY <2>1
  <2>6. Fine(n)
    BY <2>3, <2>4
  <2> QED
    BY <1>5, <2>2, <2>5, <2>6
<1>11. CASE WifiRetry
  <2>1. PICK x \in Findings :
          Handle(CheckWifiAndLock([gui EXCEPT !.retries = @ - 1], x.net)) /\ world' = world
    BY <1>11 DEF WifiRetry, Unmoved
  <2>2. Fine(CheckWifiAndLock([gui EXCEPT !.retries = @ - 1], x.net))
    BY <1>1, <1>11, RetryKeeps DEF WifiRetry
  <2> QED
    BY <1>5, <2>1, <2>2
<1>12. CASE HideWifiOverlay
  <2>1. Handle(WokeUp([gui EXCEPT !.hides = @ - 1, !.wifiOverlay = FALSE])) /\ world' = world
    BY <1>12 DEF HideWifiOverlay, Unmoved
  <2>2. Fine(WokeUp([gui EXCEPT !.hides = @ - 1, !.wifiOverlay = FALSE]))
    BY <1>1, <1>12, HideKeeps DEF HideWifiOverlay
  <2> QED
    BY <1>5, <2>1, <2>2
<1>13. CASE ReacquireDelayInhibitor
  <2> DEFINE m == [gui EXCEPT !.reacquires = @ - 1, !.delayLock = @ \/ gui.config.intercept]
  <2>1. Handle(m) /\ world' = world
    BY <1>13 DEF ReacquireDelayInhibitor, Unmoved
  <2>2. Fine(m)
    BY <1>1, <1>13, ReacquireKeeps DEF ReacquireDelayInhibitor
  <2> HIDE DEF m
  <2> QED
    BY <1>5, <2>1, <2>2
<1>14. CASE AnimationEnds
  <2> DEFINE m == [gui EXCEPT !.overlay = "done", !.sleepTransitionDone = TRUE]
  <2>1. Handle(m) /\ world' = world
    BY <1>14 DEF AnimationEnds, Unmoved
  <2>2. Fine(m)
    BY <1>1, <1>14, AnimationKeeps DEF AnimationEnds
  <2> HIDE DEF m
  <2> QED
    BY <1>5, <2>1, <2>2
<1>15. CASE Continue
  <2>1. PICK x \in Findings : Handle(AfterTransition(gui, x.ok)) /\ world' = world
    BY <1>15 DEF Continue, Unmoved
  <2>2. gui.waiting # <<>> /\ gui.sleepTransitionDone
    BY <1>15 DEF Continue
  <2>3. Fine(AfterTransition(gui, x.ok))
    BY <1>1, <1>4, <2>2, AfterTransitionKeeps
  <2> QED
    BY <1>5, <2>1, <2>3
<1>16. CASE IterateGlib
  BY <1>1, <1>16, IterateGlibKeeps
<1>17. CASE Input
  <2> DEFINE used == [gui EXCEPT !.idle = 0]
             m == IF gui.saver = "none" THEN used ELSE OnResume(DismissScreensaver(used))
  <2>1. Handle(m) /\ world' = world
    BY <1>17 DEF Input
  <2>2. Fine(m)
    BY <1>1, InputHandled
  <2> HIDE DEF m
  <2> QED
    BY <1>5, <2>1, <2>2
<1>18. CASE Nudge
  <2> DEFINE m == [gui EXCEPT !.idle = 0]
  <2>1. Handle(m) /\ world' = world
    BY <1>18 DEF Nudge
  <2>2. Fine(m)
    BY <1>1, InputKeeps
  <2> HIDE DEF m
  <2> QED
    BY <1>5, <2>1, <2>2
<1>19. CASE ChildExits
  <2>1. Handle(OnResume(DismissScreensaver(gui))) /\ world' = world
    BY <1>19 DEF ChildExits
  <2>2. Fine(OnResume(DismissScreensaver(gui)))
    BY <1>1, InputHandled
  <2> QED
    BY <1>5, <2>1, <2>2
<1>20. CASE MoveLid
  <2> DEFINE v == ~gui.lidOpen
             m == [gui EXCEPT !.lidOpen = v]
  <2>1. Handle(m) /\ world' = world
    BY <1>20 DEF MoveLid
  <2> HIDE DEF v
  <2>2. Fine(m)
    BY <1>1, LidKeeps
  <2> HIDE DEF m
  <2> QED
    BY <1>5, <2>1, <2>2
<1>21. CASE Button
  <2>1. PICK x \in Findings : Handle(PressButton(gui, x.ok)) /\ world' = world
    BY <1>21 DEF Button
  <2>2. Fine(PressButton(gui, x.ok))
    BY <1>1, <1>4, PressButtonKeeps
  <2> QED
    BY <1>5, <2>1, <2>2
<1>22. CASE ChooseBrightness
  <2> DEFINE m(raw) ==
        NoteIf(Adjusted(gui), SetBrightness([gui EXCEPT !.wanted = raw], raw), "overruled")
  <2>1. PICK raw \in Levels : Handle(m(raw)) /\ world' = world
    BY <1>22 DEF ChooseBrightness
  <2>2. Fine(m(raw))
    BY <1>1, ChosenKeeps
  <2> HIDE DEF m
  <2> QED
    BY <1>5, <2>1, <2>2
<1>23. CASE ChoosePresentation
  <2>1. PICK enable \in BOOLEAN, x \in Findings :
          Handle(SetPresentationMode(gui, enable, x)) /\ world' = world
    BY <1>23 DEF ChoosePresentation
  <2>2. Fine(SetPresentationMode(gui, enable, x))
    BY <1>1, <1>4, PresentationKeeps
  <2> QED
    BY <1>5, <2>1, <2>2
<1>24. CASE RemoteLock
  <2>1. Handle(LockScreenNow(gui)) /\ world' = world
    BY <1>24 DEF RemoteLock
  <2>2. Fine(LockScreenNow(gui))
    BY <1>1, RemoteLockKeeps
  <2> QED
    BY <1>5, <2>1, <2>2
<1>25. CASE RemoteSuspend
  <2>1. PICK x \in Findings : Handle(SuspendSystem(gui, -1, x.ok)) /\ world' = world
    BY <1>25 DEF RemoteSuspend
  <2>2. /\ Loose(gui, Limits, d) /\ Locking(gui) /\ Remembering(gui)
        /\ gui.actionInProgress =>
             UnderWay(gui, SleepUnderWay) \/ Awaits(gui.waiting, {"logind"})
    BY <1>1 DEF Kept, Sound, Base, Loose, Sleeping
  <2>3. Fine(SuspendSystem(gui, -1, x.ok))
    BY <1>1, <1>4, <2>2, SuspendAloneKeeps
  <2> QED
    BY <1>5, <2>1, <2>3
<1>26. CASE Change
  <2>1. UNCHANGED <<gui, machine, signals>>
    BY <1>26 DEF Change
  <2>2. /\ world'.mains \in {0, 1} /\ world'.warning \in 0..2
        /\ world.warning <= world'.warning
    BY <1>3, <1>26, ChangeGrows
  <2>3. gui.warning <= Limits'[gui.chargingState]
    <3>1. gui.warning <= Limits[gui.chargingState]
      BY DEF IInv, Noticing, Heeding
    <3>2. gui.warning \in 0..2 /\ gui.chargingState \in 0..1
      BY <1>2 DEF Typed
    <3>3. Limits[gui.chargingState] <= Limits'[gui.chargingState]
      BY <1>3, <2>2, <3>2 DEF Limits
    <3>4. Limits[gui.chargingState] \in 0..2 /\ Limits'[gui.chargingState] \in 0..2
      BY <1>3, <2>2, <3>2 DEF Limits
    <3> QED
      BY <3>1, <3>2, <3>3, <3>4
  <2>4. Kept(gui, SleepUnderWay, Limits', d)
    BY <1>1, <2>3 DEF Kept, Sound, Base, Noticing, Heeding
  <2>5. SleepUnderWay' = SleepUnderWay /\ SignalsPaired'
    BY <1>3, <2>1 DEF SleepUnderWay, SignalsPaired
  <2> QED
    BY <1>2, <1>3, <2>1, <2>2, <2>4, <2>5 DEF After
<1>27. CASE OthersSleep
  <2>1. machine' = "going" /\ signals' = Append(signals, TRUE) /\ gui' = gui /\ world' = world
    BY <1>27 DEF OthersSleep
  <2>2. SleepUnderWay' /\ SignalsPaired'
    BY <2>1 DEF SleepUnderWay, SignalsPaired
  <2>3. signals' \in Seq(BOOLEAN)
    BY <1>3, <2>1, AppendProperties
  <2> QED
    BY <1>1, <2>1, <2>2, <2>3, AloneKeeps
<1>28. CASE FallAsleep
  <2>1. machine' = "asleep" /\ signals' = signals /\ gui' = gui /\ world' = world
    BY <1>28 DEF FallAsleep
  <2>2. SleepUnderWay' /\ SignalsPaired'
    BY <2>1 DEF SleepUnderWay, SignalsPaired
  <2> QED
    BY <1>1, <1>3, <2>1, <2>2, AloneKeeps
<1>29. CASE Wake
  <2>1. signals' = Append(signals, FALSE) /\ gui' = gui /\ world' = world
    BY <1>29 DEF Wake
  <2>2. /\ signals' \in Seq(BOOLEAN) /\ Len(signals') = Len(signals) + 1
        /\ signals'[Len(signals) + 1] = FALSE
    BY <1>3, <2>1, AppendProperties
  <2>3. /\ Len(signals) \in Nat /\ DOMAIN signals' = 1..(Len(signals) + 1)
        /\ Len(signals) + 1 \in DOMAIN signals'
    BY <1>3, <2>2
  <2>4. SleepUnderWay'
    BY <2>2, <2>3 DEF SleepUnderWay
  <2>5. SignalsPaired'
    <3> SUFFICES ASSUME NEW i \in DOMAIN signals', signals'[i]
                 PROVE  \E j \in DOMAIN signals' : i < j /\ ~signals'[j]
      BY DEF SignalsPaired
    <3>1. i # Len(signals) + 1
      BY <2>2
    <3>2. i < Len(signals) + 1
      BY <2>3, <3>1
    <3> QED
      BY <2>2, <2>3, <3>2
  <2> QED
    BY <1>1, <2>1, <2>2, <2>4, <2>5, AloneKeeps
<1>30. CASE Idles
  BY <1>1, <1>30, IdlesKeeps
<1>31. CASE ShutdownCalledOff
  <2>1. Handle(PrepareForShutdown(gui)) /\ world' = world
    BY <1>31 DEF ShutdownCalledOff
  <2>2. Fine(PrepareForShutdown(gui))
    BY <1>1, CalledOffKeeps
  <2> QED
    BY <1>5, <2>1, <2>2
<1>32. CASE UNCHANGED vars
  <2>1. gui' = gui /\ world' = world /\ machine' = machine /\ signals' = signals
    BY <1>32 DEF vars
  <2>2. SleepUnderWay' = SleepUnderWay /\ SignalsPaired'
    BY <1>3, <2>1 DEF SleepUnderWay, SignalsPaired
  <2> QED
    BY <1>1, <1>3, <2>1, <2>2, AloneKeeps
<1> QED
  BY <1>6, <1>7, <1>8, <1>9, <1>10, <1>11, <1>12, <1>13, <1>14, <1>15, <1>16, <1>17, <1>18,
     <1>19, <1>20, <1>21, <1>22, <1>23, <1>24, <1>25, <1>26, <1>27, <1>28, <1>29, <1>30, <1>31,
     <1>32 DEF Next

\* The invariant holds in the beginning.
LEMMA InitInv ==
  ASSUME Init
  PROVE  IInv
<1>1. PICK s \in Scenarios :
        /\ gui = Fresh(s.config)
        /\ world = [mains |-> 1, warning |-> 0, players |-> <<>>, kinds |-> s.kinds]
  BY DEF Init
<1>2. machine = "awake" /\ signals = <<>>
  BY DEF Init
<1>3. s.config \in {r.config : r \in Scenarios} /\ s.config.intercept \in BOOLEAN
  BY ConfigFacts DEF ConfigType
<1>4. /\ Backlight \in 1..Backlight /\ 0 \in 0..MaxIdle /\ 0 \in 0..WakeCap
      /\ Backlight \in Int /\ 0 \in Nat
  BY Sizes
<1>5. world.mains = 1 /\ world.warning = 0
  BY <1>1
<1>6. DOMAIN gui = Members
  BY <1>1 DEF Fresh, Members
<1>7. /\ gui.chargingState = 1 /\ gui.warning = 0 /\ gui.idleTimer = TRUE
      /\ gui.transitionTimer = FALSE /\ gui.glibTimer = TRUE
      /\ gui.transitionInProgress = FALSE /\ gui.backlightReduced = FALSE
      /\ gui.screenSleeping = FALSE /\ gui.screensaverActive = FALSE
      /\ gui.justWokeUp = TRUE /\ gui.presentationMode = FALSE /\ gui.actionInProgress = FALSE
      /\ gui.inPowernap = FALSE /\ gui.mediaPlaying = FALSE
      /\ gui.useWifiOverlay = FALSE /\ gui.wifiOverlay = FALSE /\ gui.lockDue = FALSE
      /\ gui.sleepTransitionDone = FALSE /\ gui.delayLock = gui.config.intercept
  BY <1>1 DEF Fresh
<1>8. /\ gui.config = s.config
      /\ gui.backlight = Backlight /\ gui.originalBrightness = Backlight
      /\ gui.wanted = Backlight
      /\ gui.fade = [from |-> Backlight, to |-> Backlight, step |-> 0]
      /\ gui.prevIdleTime = 0 /\ gui.idle = 0 /\ gui.since = 0
      /\ gui.retries = 0 /\ gui.hides = 0 /\ gui.reacquires = 0
      /\ gui.waiting = <<>> /\ gui.asked = "no" /\ gui.overlay = "none"
  BY <1>1 DEF Fresh
<1>9. /\ gui.fade \in [from : Int, to : Int, step : Int]
      /\ gui.waiting \in Seq(Continuations) /\ DOMAIN gui.waiting = {}
      /\ gui.delayLock \in BOOLEAN
  BY <1>3, <1>4, <1>7, <1>8
<1>10. Typed(gui)
  <2>1. /\ gui.config \in {r.config : r \in Scenarios}
        /\ gui.backlight \in 1..Backlight /\ gui.originalBrightness \in 1..Backlight
        /\ gui.wanted \in 1..Backlight /\ gui.idle \in 0..MaxIdle /\ gui.since \in 0..WakeCap
        /\ gui.prevIdleTime \in Int
        /\ gui.retries \in Nat /\ gui.hides \in Nat /\ gui.reacquires \in Nat
        /\ gui.asked \in {"no", "sleep", "shutdown"}
    BY <1>3, <1>4, <1>8
  <2>2. gui.chargingState \in {0, 1} /\ gui.warning \in 0..2
    BY <1>7
  <2> QED
    BY <1>6, <1>7, <1>9, <2>1, <2>2 DEF Typed
<1>11. ~Away(gui) /\ ~Dark(gui)
  BY <1>7 DEF Away, Dark
<1>12. ~Awaits(gui.waiting, {"logind"}) /\ ~Awaits(gui.waiting, {"others"})
  BY <1>9 DEF Awaits
<1>13. Locking(gui) /\ Fading(gui) /\ Remembering(gui) /\ Lighting(gui)
       /\ Watching(gui, SleepUnderWay)
  BY <1>7, <1>8, <1>11 DEF Locking, Fading, Remembering, Lighting, Watching
<1>14. Sleeping(gui, SleepUnderWay)
  BY <1>7, <1>8, <1>12 DEF Sleeping
<1>15. Noticing(gui, Limits)
  <2>1. Limits[gui.chargingState] = 0
    BY <1>7 DEF Limits
  <2> QED
    BY <1>7, <1>9, <1>11, <2>1 DEF Noticing, Heeding, Waking
<1>16. signals \in Seq(BOOLEAN) /\ SignalsPaired
  BY <1>2 DEF SignalsPaired
<1> QED
  BY <1>5, <1>8, <1>10, <1>13, <1>14, <1>15, <1>16 DEF IInv

\* Types and all that keeps the client and the screen in step, see the parts of IInv:
\* src/src/inactivity_manager.cpp as a whole.
THEOREM Invariance == Spec => []IInv
<1>1. Init => IInv
  BY InitInv
<1>2. IInv /\ [Next]_vars => IInv'
  <2> SUFFICES ASSUME IInv, [Next]_vars PROVE IInv'
    OBVIOUS
  <2>1. Then \in Int
    BY Before
  <2>2. PICK d \in Int : d = Then
    BY <2>1
  <2>3. After(d)'
    BY <2>2, StepKeeps
  <2> QED
    BY <2>3 DEF After, IInv, Kept, Sound, Base
<1> QED
  BY <1>1, <1>2, PTL DEF Spec

\* However often the screen was dimmed, turned off, covered or slept with, at rest it has
\* the brightness that the user or the charge made it: setBrightnessImmediate and the fades
\* of inactivity_manager.cpp, for every backlight and every timeout.
THEOREM ScreenBrightnessKept == Spec => []BrightnessKept
<1>1. IInv => BrightnessKept
  BY DEF IInv, BrightnessKept, Adjusted, Lighting, Fading, Away, Dark
<1> QED
  BY <1>1, Invariance, PTL

\* The effect before a sleep and the overlay of the Wi-Fi check go: runSleepTransitionSync,
\* wokeUp and checkWifiAndLock, with any number of retries and loops inside each other.
THEOREM ScreenOverlaysGo == Spec => []OverlaysGo
<1>1. IInv => OverlayOnlyAroundSleep
  <2> SUFFICES ASSUME IInv, gui.overlay # "none"
               PROVE  gui.waiting # <<>> \/ machine # "awake" \/ signals # <<>> \/ Refused
    BY DEF OverlayOnlyAroundSleep
  <2>1. Owed(gui, SleepUnderWay) /\ gui.asked = "no"
    BY DEF IInv, Sleeping
  <2>2. SleepUnderWay => machine # "awake" \/ signals # <<>>
    BY DEF SleepUnderWay
  <2>3. Awaits(gui.waiting, {"logind", "sleep", "shutdown"}) => gui.waiting # <<>>
    BY DEF Awaits
  <2>4. "refused" \in gui.mishaps \/ "dropped" \in gui.mishaps => Refused
    BY DEF Refused
  <2> QED
    BY <2>1, <2>2, <2>3, <2>4 DEF Owed, UnderWay
<1>2. IInv => WifiOverlayGoes
  BY DEF IInv, WifiOverlayGoes, Locking
<1> QED
  BY <1>1, <1>2, Invariance, PTL DEF OverlaysGo

\* A lock that is due after a sleep comes, or a retry of the Wi-Fi check will bring it:
\* afterWakeActions, lockScreen and checkWifiAndLock.
THEOREM ScreenLockedAfterWake == Spec => []LockedAfterWake
<1>1. IInv => LockedAfterWake
  BY DEF IInv, LockedAfterWake, Locking
<1> QED
  BY <1>1, Invariance, PTL

\* A client at rest has what it needs to react: no flag makes it deaf, its checks run unless
\* a sleep was refused or a shutdown called off, its delay lock is held, and what it
\* remembers of idle time lets the next input wake the screen.
THEOREM ScreenClientAtRest == Spec => []ClientAtRest
<1>1. IInv => ButtonsHeard
  BY DEF IInv, ButtonsHeard, Fading
<1>2. IInv /\ Quiet => /\ ~UnderWay(gui, SleepUnderWay)
                       /\ \A nexts : ~Awaits(gui.waiting, nexts)
                       /\ ~Resumes(gui.waiting)
  BY DEF IInv, Quiet, UnderWay, SleepUnderWay, Awaits, Resumes
<1>3. IInv => IdleWatched
  BY <1>2 DEF IInv, IdleWatched, Watching, Forgotten
<1>4. IInv => DelayLockHeld
  BY <1>2 DEF IInv, DelayLockHeld, Sleeping, Owed, Refused
<1>5. IInv => InputIsNoticed
  <2> SUFFICES ASSUME IInv, Quiet, "unseen" \notin gui.mishaps
               PROVE  /\ Dark(gui) => gui.prevIdleTime >= Timeouts(gui).sleep
                      /\ gui.backlightReduced /\ ~Dark(gui) =>
                           gui.prevIdleTime >= Timeouts(gui).reduce
    BY DEF InputIsNoticed, Dark
  <2>1. Away(gui) => gui.prevIdleTime >= Timeout(gui)
    BY <1>2 DEF IInv, Remembering
  <2> QED
    BY <2>1 DEF Away, Timeout
<1> QED
  BY <1>1, <1>3, <1>4, <1>5, Invariance, PTL DEF ClientAtRest

\* Idle time from before a wake-up does not darken the screen soon after it: checkIdle caps
\* what the X server says by m_wakeTime.
THEOREM ScreenNotRightAfterWaking == Spec => NotRightAfterWaking
<1> DEFINE Darkens == ~Dark(gui) /\ Dark(gui')
           Capped == Darkens => gui.since >= Min({WakeCap, Timeouts(gui').sleep})
<1>1. IInv /\ IInv' /\ [Next]_vars => [Capped]_vars
  <2> SUFFICES ASSUME IInv, IInv', [Next]_vars, Darkens
               PROVE  gui.since >= Min({WakeCap, Timeouts(gui').sleep})
    OBVIOUS
  <2>1. Then \in Int
    BY Before
  <2>2. PICK d \in Int : d = Then
    BY <2>1
  <2>3. After(d)'
    BY <2>2, StepKeeps
  <2>4. Late(gui', d)
    BY <2>3 DEF After, Kept, Sound, Base
  <2>5. Timeouts(gui').sleep <= d
    BY <2>4 DEF Late
  <2>6. Timeouts(gui').sleep \in Nat /\ WakeCap \in Nat
    <3>1. Typed(gui')
      BY <2>3 DEF After, Kept, Sound, Base
    <3> QED
      BY <3>1, TimeoutFacts, Sizes DEF Typed
  <2>7. gui.since \in Nat
    <3>1. gui.since \in 0..WakeCap
      BY DEF IInv, Typed
    <3> QED
      BY <2>6, <3>1
  <2>8. Min({WakeCap, Timeouts(gui').sleep}) =
          IF WakeCap <= Timeouts(gui').sleep THEN WakeCap ELSE Timeouts(gui').sleep
    BY <2>6, MinOfTwo
  <2>9. d = IF gui.since >= WakeCap THEN gui.config.sleep ELSE gui.since
    BY <2>2 DEF Then
  <2> QED
    BY <2>5, <2>6, <2>7, <2>8, <2>9
<1>2. Spec => [][Capped]_vars
  BY <1>1, Invariance, PTL DEF Spec
<1> QED
  BY <1>2 DEF NotRightAfterWaking, Dark

===============================================================================
