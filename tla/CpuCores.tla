------------------------------- MODULE CpuCores -------------------------------
(***************************************************************************)
(* CPU hot-plugging by the root daemon (src/src/yabatmand.c).  The daemon  *)
(* notes which secondary cores are online when it takes them all offline,  *)
(* and brings back those it noted; before it ever noted anything, bringing *)
(* back means bringing every secondary core online.  The notes are static  *)
(* variables: each disable overwrites them and a restart clears them.      *)
(***************************************************************************)

CONSTANT Cores   \* the secondary cores; the boot core cannot be unplugged

VARIABLES
  online,              \* the cores the kernel runs
  noted,               \* cpu_count > 1: a disable has filled in the next array
  cpu_online_initial,  \* the cores that were online at the latest disable
  owed_cores           \* history: cores that the daemon unplugged and that are
                       \* still offline

coreVars == <<online, noted, cpu_online_initial, owed_cores>>

CoreTypeOK ==
  /\ online \subseteq Cores
  /\ noted \in BOOLEAN
  /\ cpu_online_initial \subseteq Cores
  /\ owed_cores \subseteq Cores \ online

\* A slip for the mutation runs: no fallback when nothing was ever noted.
RestorableNotedOnly == cpu_online_initial

\* The cores that reenable_cpu_cores brings online.
Restorable == IF noted THEN cpu_online_initial ELSE Cores

-----------------------------------------------------------------------------
\* disable_cpu_cores: read cpu*/online of every core, then unplug them all.
DisableCores ==
  /\ noted' = (Cores # {})
  /\ cpu_online_initial' = online
  /\ online' = {}
  /\ owed_cores' = owed_cores \cup online

ReenableCores ==
  /\ online' = online \cup Restorable
  /\ owed_cores' = owed_cores \ online'
  /\ UNCHANGED <<noted, cpu_online_initial>>

\* The daemon dies and is started again.
LoseCoreMemory ==
  /\ noted' = FALSE
  /\ cpu_online_initial' = {}
  /\ UNCHANGED <<online, owed_cores>>

\* The sleep hook writes 1 to every core's online file itself.
HookOnline ==
  /\ online' = Cores
  /\ owed_cores' = {}
  /\ UNCHANGED <<noted, cpu_online_initial>>

\* An administrator unplugs or plugs a core.
AdminUnplug(c) ==
  /\ c \in online
  /\ online' = online \ {c}
  /\ UNCHANGED <<noted, cpu_online_initial, owed_cores>>

AdminPlug(c) ==
  /\ c \notin online
  /\ online' = online \cup {c}
  /\ owed_cores' = owed_cores \ {c}
  /\ UNCHANGED <<noted, cpu_online_initial>>

-----------------------------------------------------------------------------
CoreInit ==
  /\ online \in SUBSET Cores
  /\ noted = FALSE
  /\ cpu_online_initial = {}
  /\ owed_cores = {}

CoreNext ==
  \/ DisableCores
  \/ ReenableCores
  \/ LoseCoreMemory
  \/ HookOnline
  \/ \E c \in Cores : AdminUnplug(c) \/ AdminPlug(c)

CoreSpec == CoreInit /\ [][CoreNext]_coreVars

-----------------------------------------------------------------------------
\* Cores that the daemon took and that no reenable_cpu_cores will give back.
Lost == owed_cores \ Restorable

(***************************************************************************)
(* Only one thing makes the daemon lose a core: disabling the cores again  *)
(* while some that it took are still offline, which overwrites the notes   *)
(* with the crippled set.  A crash never does, it falls back on "all".     *)
(***************************************************************************)
LostOnlyByDoubleDisable ==
  [][Lost' \subseteq Lost \/ (DisableCores /\ owed_cores # {})]_coreVars
=============================================================================
