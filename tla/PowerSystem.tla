------------------------------ MODULE PowerSystem ------------------------------
(***************************************************************************)
(* The desktop client and the root daemon together: every callDaemon of    *)
(* the client is one connection in the daemon's backlog.  The client never *)
(* reads an answer.  A call blocks while the backlog is full, and goes     *)
(* nowhere, without the client noticing, while the daemon is down; the     *)
(* daemon may go down between any two calls of one handler.                *)
(***************************************************************************)
EXTENDS Integers, Sequences

CONSTANTS
  Configs, Percents, Radios, Picks, Wishes, Others, HasLid,
  Procs, Matching, RegexCompiled,
  Services, Hardcoded, MaxEntries, MaxFreezable,
  Cores, Backlog, Offered, HasEthernet, HasWebcam

VARIABLES
  gui, machine, signals, asked,
  running, stopped, frozen_procs, procs_whitelist, procs_blacklist,
  active, whitelist, blacklist, merged_whitelist, frozen_services, owed_services,
  online, noted, cpu_online_initial, owed_cores,
  hw, tuning, mode, keep_running, reboot_or_poweroff, backlog,
  lost   \* history: a profile the client asked for, or the daemon's hold on
         \* it, was lost, and no profile command has been served since

G == INSTANCE InactivityManager
D == INSTANCE Daemon

\* The values of the configuration file and of the popup's slider.
ASSUME SystemAssumption ==
  /\ Picks \subseteq G!Profiles
  /\ \A c \in Configs :
       /\ {c.bat_power_profile, c.ac_power_profile, c.ac_full_power_profile} \subseteq G!Profiles
       /\ c.critical_action \in 0..2

guiVars == <<gui, machine, signals, asked>>
daemonVars ==
  <<running, stopped, frozen_procs, procs_whitelist, procs_blacklist,
    active, whitelist, blacklist, merged_whitelist, frozen_services, owed_services,
    online, noted, cpu_online_initial, owed_cores,
    hw, tuning, mode, keep_running, reboot_or_poweroff, backlog>>
vars == <<guiVars, daemonVars, lost>>

ProfileCommands == {G!ProfileCommand(p) : p \in G!Profiles}

-----------------------------------------------------------------------------
\* A slip for the mutation runs: the client waits for a daemon that is down.
CallDaemonRetrying ==
  /\ gui.calls # <<>> /\ Head(gui.calls)[1] # "logind"
  /\ D!Connect(Head(gui.calls))
  /\ G!WriteCall
  /\ UNCHANGED lost

\* callDaemon: connect, write, close.
CallDaemon ==
  /\ gui.calls # <<>> /\ Head(gui.calls)[1] # "logind"
  /\ IF mode = "up"
       THEN D!Connect(Head(gui.calls)) /\ UNCHANGED lost
       ELSE /\ lost' = (lost \/ Head(gui.calls) \in ProfileCommands)
            /\ UNCHANGED daemonVars
  /\ G!WriteCall

Client == (G!Handlers \/ G!Logind) /\ UNCHANGED <<daemonVars, lost>>

\* While the machine sleeps neither process runs.
Serve ==
  /\ machine # "asleep"
  /\ D!Serve
  /\ lost' = (lost /\ Head(backlog) \notin ProfileCommands)
  /\ UNCHANGED guiVars

GoDown ==
  /\ machine # "asleep"
  /\ D!LeaveLoop \/ D!PollError \/ D!Crash
  /\ lost' = TRUE
  /\ UNCHANGED guiVars

Other ==
  /\ machine # "asleep"
  /\ D!Start \/ D!Signal \/ D!Environment
  /\ UNCHANGED <<guiVars, lost>>

Init == G!Init /\ D!Init /\ lost = FALSE

Next == CallDaemon \/ Client \/ Serve \/ GoDown \/ Other

(***************************************************************************)
(* What the two processes schedule by themselves: a connect that can       *)
(* succeed does, logind answers, and the daemon's loop turns: it serves,   *)
(* or it is left once keep_running is cleared.                             *)
(***************************************************************************)
Fairness ==
  /\ WF_vars(CallDaemon)
  /\ WF_vars(Serve)
  /\ WF_vars(~keep_running /\ GoDown)
  /\ WF_vars((G!LogindAccepts \/ G!LogindRefuses) /\ UNCHANGED <<daemonVars, lost>>)

Spec == Init /\ [][Next]_vars /\ Fairness

-----------------------------------------------------------------------------
(***************************************************************************)
(* A client that exits leaves no freezing in force: whatever freezing was  *)
(* still on its way when stop() ran, the thaw of stop() was served after   *)
(* it once everything is served, however often the daemon went down.       *)
(***************************************************************************)
ExitThaws ==
  gui.phase = "exited" /\ gui.calls = <<>> /\ backlog = <<>> /\ mode = "up" => ~frozen_procs

(***************************************************************************)
(* The single-threaded client never hangs in callDaemon: not on a full     *)
(* backlog, and not on a daemon that dies with the client's call in it     *)
(* (unless the machine falls asleep under it).                             *)
(***************************************************************************)
HandlersEnd == gui.calls # <<>> ~> gui.calls = <<>> \/ machine = "asleep"

(***************************************************************************)
(* The client skips a profile it believes to be in force.  That belief is  *)
(* right whenever no profile command is under way, unless a command went   *)
(* to a daemon that was down or the daemon went down since, or a           *)
(* calibration has told the daemon another one and no profile was sent     *)
(* since.                                                                  *)
(***************************************************************************)
InFlight ==
  {c \in ProfileCommands :
     \/ \E i \in DOMAIN gui.calls : gui.calls[i] = c
     \/ \E i \in DOMAIN backlog : backlog[i] = c}

ProfileOf(p) ==
  CASE p = 0 -> "low" [] p = 1 -> "balanced" [] p = 2 -> "performance" [] p = 3 -> "ultra_low"

BeliefIsRight ==
  ~lost /\ ~gui.bypassed /\ InFlight = {} /\ gui.lastHwProfile # -1 =>
    hw.profile = ProfileOf(gui.lastHwProfile)

(***************************************************************************)
(* energy_management_logic.md:157, when the battery drops further "an      *)
(* automated shutdown or hibernate is triggered": what the client asks the *)
(* daemon for is something the daemon knows how to do.                     *)
(***************************************************************************)
CommandsAreKnown == \A i \in DOMAIN backlog : backlog[i][1] \in D!Names
=============================================================================
