------------------------------ MODULE ProcFreezer ------------------------------
(***************************************************************************)
(* Process freezing in the root daemon (src/src/yabatmand.c).              *)
(*                                                                         *)
(* freeze_processes(1) scans /proc and sends SIGSTOP to every process that *)
(* the lists of the moment select, freeze_processes(0) scans again and     *)
(* sends SIGCONT to every process that the lists of that later moment      *)
(* select.  The daemon keeps no record of whom it stopped: one flag and    *)
(* the two lists are all it has, and all three live in its memory.         *)
(***************************************************************************)

CONSTANTS
  Procs,          \* the user processes that can exist; pids are not reused
  Matching,       \* those whose command line PATTERN_MSG or PATTERN_SYNC matches
  RegexCompiled   \* whether both regcomp calls of main succeeded

ASSUME ProcAssumption ==
  /\ Matching \subseteq Procs
  /\ RegexCompiled \in BOOLEAN

VARIABLES
  running,          \* the processes that exist
  stopped,          \* those of them that a SIGSTOP of the daemon suspended
  frozen_procs,     \* the daemon's flag
  procs_whitelist,  \* never freeze ...
  procs_blacklist   \* ... and always freeze, which wins over the whitelist

procVars == <<running, stopped, frozen_procs, procs_whitelist, procs_blacklist>>
lists == <<procs_whitelist, procs_blacklist>>

ProcTypeOK ==
  /\ running \subseteq Procs
  /\ stopped \subseteq running
  /\ frozen_procs \in BOOLEAN
  /\ procs_whitelist \subseteq Procs
  /\ procs_blacklist \subseteq Procs

(***************************************************************************)
(* The processes a scan of /proc signals: a blacklisted command line is    *)
(* signalled without looking at the patterns or at the whitelist.          *)
(***************************************************************************)
Targets == running \cap (procs_blacklist \cup (Matching \ procs_whitelist))

-----------------------------------------------------------------------------
\* A slip for the mutation runs: only the waking scan honours the whitelist.
FreezeAllMatching(freeze, opened) ==
  /\ frozen_procs' = freeze
  /\ stopped' = IF frozen_procs # freeze /\ RegexCompiled /\ opened
                  THEN IF freeze THEN stopped \cup (running \cap (procs_blacklist \cup Matching))
                                 ELSE stopped \ Targets
                  ELSE stopped
  /\ UNCHANGED <<running, lists>>

-----------------------------------------------------------------------------
(***************************************************************************)
(* freeze_processes: the flag is written before the scan is known to       *)
(* happen, so it also changes when the patterns did not compile or         *)
(* opendir("/proc") failed (opened = FALSE).                               *)
(***************************************************************************)
FreezeProcesses(freeze, opened) ==
  /\ frozen_procs' = freeze
  /\ stopped' = IF frozen_procs # freeze /\ RegexCompiled /\ opened
                  THEN IF freeze THEN stopped \cup Targets ELSE stopped \ Targets
                  ELSE stopped
  /\ UNCHANGED <<running, lists>>

SetProcsWhitelist(list) ==
  /\ procs_whitelist' = list
  /\ UNCHANGED <<running, stopped, frozen_procs, procs_blacklist>>

SetProcsBlacklist(list) ==
  /\ procs_blacklist' = list
  /\ UNCHANGED <<running, stopped, frozen_procs, procs_whitelist>>

\* The daemon dies and is started again: its static variables are as at startup.
LoseProcMemory ==
  /\ frozen_procs' = FALSE
  /\ procs_whitelist' = {}
  /\ procs_blacklist' = {}
  /\ UNCHANGED <<running, stopped>>

Spawn(p) ==
  /\ p \notin running
  /\ running' = running \cup {p}
  /\ UNCHANGED <<stopped, frozen_procs, lists>>

Exit(p) ==
  /\ p \in running
  /\ running' = running \ {p}
  /\ stopped' = stopped \ {p}
  /\ UNCHANGED <<frozen_procs, lists>>

-----------------------------------------------------------------------------
ProcInit ==
  /\ running \in SUBSET Procs
  /\ stopped = {}
  /\ frozen_procs = FALSE
  /\ procs_whitelist = {}
  /\ procs_blacklist = {}

EditLists == \E list \in SUBSET Procs : SetProcsWhitelist(list) \/ SetProcsBlacklist(list)
FailedThaw == frozen_procs /\ FreezeProcesses(FALSE, FALSE)

ProcNext ==
  \/ \E freeze, opened \in BOOLEAN : FreezeProcesses(freeze, opened)
  \/ EditLists
  \/ LoseProcMemory
  \/ \E p \in Procs : Spawn(p) \/ Exit(p)

ProcSpec == ProcInit /\ [][ProcNext]_procVars

-----------------------------------------------------------------------------
(***************************************************************************)
(* The stopped processes that a freeze_processes:0 arriving now would not  *)
(* wake: all of them when the flag says that nothing is frozen, otherwise  *)
(* those that the lists no longer select.                                  *)
(***************************************************************************)
Stranded == IF frozen_procs THEN stopped \ Targets ELSE stopped

(***************************************************************************)
(* Freezing, waking, processes that start and processes that end never     *)
(* leave a process suspended beyond the reach of the next waking command:  *)
(* only an edit of the lists in between, a waking scan that could not read *)
(* /proc, or the loss of the daemon's memory does.                         *)
(***************************************************************************)
StrandedOnlyByLoss ==
  [][Stranded' \subseteq Stranded \/ EditLists \/ FailedThaw \/ LoseProcMemory]_procVars
=============================================================================
