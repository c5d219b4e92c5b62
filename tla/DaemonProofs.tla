----------------------------- MODULE DaemonProofs -----------------------------
(***************************************************************************)
(* For every machine, every backlog and every set of well-formed commands: *)
(* the daemon as a whole implements its three stateful parts, so that what *)
(* ProcFreezer, ServiceFreezer and CpuCores say of their own steps holds   *)
(* of the loop, of the exit path and of restarts too.                      *)
(***************************************************************************)
EXTENDS Daemon, FiniteSetTheorems, TLAPS

\* A scan signals processes that it met in /proc.
LEMMA TargetsRun == Targets \subseteq running
BY DEF Targets

\* No step breaks the types; in particular only what runs is ever stopped.
LEMMA ProcStep == ProcTypeOK /\ [ProcNext]_procVars => ProcTypeOK'
<1> SUFFICES ASSUME ProcTypeOK, [ProcNext]_procVars
             PROVE  ProcTypeOK'
  OBVIOUS
<1> USE DEF ProcTypeOK, lists
<1>1. ASSUME NEW freeze \in BOOLEAN, NEW opened \in BOOLEAN, FreezeProcesses(freeze, opened)
      PROVE  ProcTypeOK'
  <2>1. stopped' \subseteq stopped \cup Targets
    BY <1>1 DEF FreezeProcesses
  <2> QED
    BY <1>1, <2>1, TargetsRun DEF FreezeProcesses
<1>2. CASE EditLists
  BY <1>2 DEF EditLists, SetProcsWhitelist, SetProcsBlacklist
<1>3. CASE LoseProcMemory
  BY <1>3 DEF LoseProcMemory
<1>4. ASSUME NEW p \in Procs, Spawn(p) \/ Exit(p)
      PROVE  ProcTypeOK'
  BY <1>4 DEF Spawn, Exit
<1>5. CASE UNCHANGED procVars
  BY <1>5 DEF procVars
<1> QED
  BY <1>1, <1>2, <1>3, <1>4, <1>5 DEF ProcNext

(***************************************************************************)
(* At all times the processes that a SIGSTOP of the daemon suspended are   *)
(* processes that exist, and the lists name processes.                     *)
(***************************************************************************)
THEOREM ProcTypes == ProcSpec => []ProcTypeOK
<1>1. ProcInit => ProcTypeOK
  BY DEF ProcInit, ProcTypeOK
<1> QED
  BY <1>1, ProcStep, PTL DEF ProcSpec

-----------------------------------------------------------------------------
(***************************************************************************)
(* The inductive invariant behind StrandedOnlyByLoss.  Without compiled    *)
(* patterns freeze_processes:0 clears the flag and wakes nobody; that      *)
(* strands nobody because freeze_processes:1 stopped nobody either.        *)
(***************************************************************************)
ProcIInv == ProcTypeOK /\ (~RegexCompiled => stopped = {})

LEMMA ProcIInvStep == ProcIInv /\ [ProcNext]_procVars => ProcIInv'
<1> SUFFICES ASSUME ProcIInv, [ProcNext]_procVars
             PROVE  ~RegexCompiled => stopped' = {}
  BY ProcStep DEF ProcIInv
<1> USE DEF ProcIInv, lists
<1>1. ASSUME NEW freeze \in BOOLEAN, NEW opened \in BOOLEAN, FreezeProcesses(freeze, opened)
      PROVE  ~RegexCompiled => stopped' = {}
  BY <1>1 DEF FreezeProcesses
<1>2. CASE EditLists
  BY <1>2 DEF EditLists, SetProcsWhitelist, SetProcsBlacklist
<1>3. CASE LoseProcMemory
  BY <1>3 DEF LoseProcMemory
<1>4. ASSUME NEW p \in Procs, Spawn(p) \/ Exit(p)
      PROVE  ~RegexCompiled => stopped' = {}
  BY <1>4 DEF Spawn, Exit
<1>5. CASE UNCHANGED procVars
  BY <1>5 DEF procVars
<1> QED
  BY <1>1, <1>2, <1>3, <1>4, <1>5 DEF ProcNext

LEMMA ProcInvariance == ProcSpec => []ProcIInv
<1>1. ProcInit => ProcIInv
  BY DEF ProcInit, ProcIInv, ProcTypeOK
<1> QED
  BY <1>1, ProcIInvStep, PTL DEF ProcSpec

(***************************************************************************)
(* A freezing scan stops exactly what the waking scan would wake, and one  *)
(* that does not happen stops nothing: neither strands anybody.            *)
(***************************************************************************)
LEMMA FreezingStrandsNobody ==
  ASSUME ProcTypeOK, NEW opened \in BOOLEAN, FreezeProcesses(TRUE, opened)
  PROVE  Stranded' \subseteq Stranded
<1>1. Targets' = Targets
  BY DEF FreezeProcesses, Targets, lists
<1>2. Stranded' = stopped' \ Targets
  BY <1>1 DEF FreezeProcesses, Stranded
<1>3. CASE frozen_procs
  BY <1>2, <1>3 DEF FreezeProcesses, Stranded
<1>4. CASE ~frozen_procs
  BY <1>2, <1>4 DEF FreezeProcesses, Stranded
<1> QED
  BY <1>3, <1>4 DEF ProcTypeOK

\* A waking scan leaves stopped only who was stranded before, if it reads /proc.
LEMMA WakingStrandsNobody ==
  ASSUME ProcIInv, NEW opened \in BOOLEAN, FreezeProcesses(FALSE, opened)
  PROVE  Stranded' \subseteq Stranded \/ FailedThaw
<1>1. Stranded' = stopped'
  BY DEF FreezeProcesses, Stranded
<1>2. CASE ~frozen_procs
  BY <1>1, <1>2 DEF FreezeProcesses, Stranded
<1>3. CASE frozen_procs /\ ~opened
  BY <1>3 DEF FreezeProcesses, FailedThaw
<1>4. CASE frozen_procs /\ opened
  <2>1. CASE RegexCompiled
    BY <1>1, <1>4, <2>1 DEF FreezeProcesses, Stranded
  <2>2. CASE ~RegexCompiled
    BY <1>1, <1>4, <2>2 DEF FreezeProcesses, Stranded, ProcIInv
  <2> QED
    BY <2>1, <2>2
<1> QED
  BY <1>2, <1>3, <1>4 DEF ProcIInv, ProcTypeOK

\* A process that starts was not stopped, and one that ends is no longer.
LEMMA ComingAndGoingStrandsNobody ==
  ASSUME ProcTypeOK, NEW p \in Procs, Spawn(p) \/ Exit(p)
  PROVE  Stranded' \subseteq Stranded
<1>1. CASE Spawn(p)
  BY <1>1 DEF Spawn, Stranded, Targets, lists, ProcTypeOK
<1>2. CASE Exit(p)
  BY <1>2 DEF Exit, Stranded, Targets, lists, ProcTypeOK
<1> QED
  BY <1>1, <1>2

(***************************************************************************)
(* In every run, a stopped process gets out of reach of the next waking    *)
(* command only by an edit of the lists, by a waking scan that could not   *)
(* read /proc, or by the loss of the daemon's memory.                      *)
(***************************************************************************)
THEOREM ProcStrandedOnlyByLoss == ProcSpec => StrandedOnlyByLoss
<1>1. ProcIInv /\ [ProcNext]_procVars =>
        [Stranded' \subseteq Stranded \/ EditLists \/ FailedThaw \/ LoseProcMemory]_procVars
  <2> SUFFICES ASSUME ProcIInv, ProcNext
               PROVE  Stranded' \subseteq Stranded \/ EditLists \/ FailedThaw \/ LoseProcMemory
    OBVIOUS
  <2>1. ASSUME NEW freeze \in BOOLEAN, NEW opened \in BOOLEAN, FreezeProcesses(freeze, opened)
        PROVE  Stranded' \subseteq Stranded \/ FailedThaw
    <3>1. CASE freeze = TRUE
      BY <2>1, <3>1, FreezingStrandsNobody DEF ProcIInv
    <3>2. CASE freeze = FALSE
      BY <2>1, <3>2, WakingStrandsNobody
    <3> QED
      BY <3>1, <3>2
  <2>2. ASSUME NEW p \in Procs, Spawn(p) \/ Exit(p)
        PROVE  Stranded' \subseteq Stranded
    BY <2>2, ComingAndGoingStrandsNobody DEF ProcIInv
  <2> QED
    BY <2>1, <2>2 DEF ProcNext
<1> QED
  BY <1>1, ProcInvariance, PTL DEF ProcSpec, StrandedOnlyByLoss

-----------------------------------------------------------------------------
\* An array holds nothing but what was put in, and never more than its length.
LEMMA AppendedFits ==
  ASSUME NEW old, NEW new, NEW all \in Appended(old, new)
  PROVE  all \subseteq old \cup new /\ Cardinality(all) <= MaxFreezable
<1>1. CASE Cardinality(old \cup new) <= MaxFreezable
  BY <1>1 DEF Appended
<1>2. CASE ~(Cardinality(old \cup new) <= MaxFreezable)
  <2>1. all \subseteq old \cup new /\ Cardinality(all) = MaxFreezable
    BY <1>2 DEF Appended
  <2> QED
    BY <2>1, ServiceAssumption
<1> QED
  BY <1>1, <1>2

\* What fits is taken over whole.
LEMMA AppendedWhole ==
  ASSUME NEW old, NEW new, Cardinality(old \cup new) <= MaxFreezable
  PROVE  Appended(old, new) = {old \cup new}
BY DEF Appended

\* A list of legal length fits behind the hard-coded names.
LEMMA MergedFits ==
  ASSUME NEW list \in Lists
  PROVE  Cardinality(Hardcoded \cup list) <= MaxFreezable
<1>1. IsFiniteSet(Hardcoded) /\ IsFiniteSet(list) /\ IsFiniteSet(Hardcoded \cap list)
  BY ServiceAssumption, FS_Subset DEF Lists
<1>2. Cardinality(Hardcoded \cup list)
        = Cardinality(Hardcoded) + Cardinality(list) - Cardinality(Hardcoded \cap list)
  BY <1>1, FS_Union
<1>3. /\ Cardinality(Hardcoded) \in Nat
      /\ Cardinality(list) \in Nat
      /\ Cardinality(Hardcoded \cap list) \in Nat
  BY <1>1, FS_CardinalityType
<1>4. Cardinality(list) <= MaxEntries
  BY DEF Lists
<1> QED
  BY <1>2, <1>3, <1>4, ServiceAssumption

\* The empty list, which a restart leaves, is a legal one.
LEMMA EmptyList == {} \in Lists
BY FS_EmptySet, ServiceAssumption DEF Lists

LEMMA MergedCurrent ==
  ASSUME NEW list \in Lists
  PROVE  Appended(Hardcoded, list) = {Hardcoded \cup list}
BY MergedFits, AppendedWhole

-----------------------------------------------------------------------------
\* The effect of a freeze that finds the array empty.
LEMMA FreezeTakesAll ==
  ASSUME ServiceTypeOK, NEW idle \in SUBSET active, NEW opened \in BOOLEAN,
         NEW accepted \in SUBSET (idle \cup blacklist),
         FreezeServices(idle, opened, accepted)
  PROVE  /\ accepted \subseteq Services
         /\ frozen_services' = accepted
         /\ Cardinality(accepted) <= MaxFreezable
<1>1. idle \cup blacklist \subseteq Services
  BY DEF ServiceTypeOK, Lists
<1>2. PICK freezable \in Appended(idle, blacklist) : accepted \subseteq freezable
  <2>1. PICK freezable \in Appended(idle, blacklist) :
          accepted \subseteq (IF opened THEN freezable ELSE {})
    BY DEF FreezeServices
  <2> QED
    BY <2>1
<1>3. freezable \subseteq idle \cup blacklist /\ Cardinality(freezable) <= MaxFreezable
  BY AppendedFits
<1>4. IsFiniteSet(freezable)
  BY <1>1, <1>3, FS_Subset, ServiceAssumption
<1>5. IsFiniteSet(accepted) /\ Cardinality(accepted) <= Cardinality(freezable)
  BY <1>2, <1>4, FS_Subset
<1>6. Cardinality(accepted) <= MaxFreezable
  BY <1>3, <1>4, <1>5, FS_CardinalityType, ServiceAssumption
<1>7. frozen_services' \in Appended({}, accepted)
  BY DEF FreezeServices
<1>8. Appended({}, accepted) = {{} \cup accepted}
  <2>1. {} \cup accepted = accepted
    OBVIOUS
  <2> QED
    BY <1>6, <2>1, AppendedWhole
<1> QED
  BY <1>1, <1>6, <1>7, <1>8

-----------------------------------------------------------------------------
(***************************************************************************)
(* The inductive invariant: the types, and the merged list in step with    *)
(* the list received last.                                                 *)
(***************************************************************************)
ServiceIInv == ServiceTypeOK /\ MergedWhitelistIsCurrent

LEMMA ServiceIInvStep == ServiceIInv /\ [ServiceNext]_serviceVars => ServiceIInv'
<1> SUFFICES ASSUME ServiceIInv, [ServiceNext]_serviceVars
             PROVE  ServiceIInv'
  OBVIOUS
<1> USE DEF ServiceIInv, ServiceTypeOK, MergedWhitelistIsCurrent
<1>1. ASSUME NEW list \in Lists, SetWhitelist(list)
      PROVE  ServiceIInv'
  <2>1. merged_whitelist' = Hardcoded \cup list
    BY <1>1, MergedCurrent DEF SetWhitelist
  <2>2. Hardcoded \cup list \subseteq Services
    BY ServiceAssumption DEF Lists
  <2> QED
    BY <1>1, <2>1, <2>2 DEF SetWhitelist
<1>2. ASSUME NEW list \in Lists, SetBlacklist(list)
      PROVE  ServiceIInv'
  BY <1>2 DEF SetBlacklist
<1>3. CASE Freeze
  <2>1. CASE FreezeServicesAgain
    BY <2>1 DEF FreezeServicesAgain, serviceVars
  <2>2. ASSUME NEW idle \in SUBSET active, NEW opened \in BOOLEAN,
               NEW accepted \in SUBSET (idle \cup blacklist),
               FreezeServices(idle, opened, accepted)
        PROVE  ServiceIInv'
    BY <2>2, FreezeTakesAll DEF FreezeServices
  <2> QED
    BY <1>3, <2>1, <2>2 DEF Freeze
<1>4. ASSUME NEW opened \in BOOLEAN, NEW started \in SUBSET frozen_services,
             UnfreezeServices(opened, started)
      PROVE  ServiceIInv'
  <2>1. CASE opened
    <3>1. Cardinality({}) <= MaxFreezable
      BY FS_EmptySet, ServiceAssumption
    <3> QED
      BY <1>4, <2>1, <3>1 DEF UnfreezeServices
  <2>2. CASE ~opened
    BY <1>4, <2>2 DEF UnfreezeServices
  <2> QED
    BY <2>1, <2>2
<1>5. CASE LoseServiceMemory
  <2>1. merged_whitelist' = Hardcoded
    <3>1. Appended(Hardcoded, {}) = {Hardcoded \cup {}}
      BY EmptyList, MergedCurrent
    <3>2. merged_whitelist' \in Appended(Hardcoded, {})
      BY <1>5 DEF LoseServiceMemory
    <3> QED
      BY <3>1, <3>2
  <2>2. Cardinality({}) <= MaxFreezable
    BY FS_EmptySet, ServiceAssumption
  <2> QED
    BY <1>5, <2>1, <2>2, EmptyList, ServiceAssumption DEF LoseServiceMemory
<1>6. ASSUME NEW s \in Services, AdminStart(s) \/ AdminStop(s)
      PROVE  ServiceIInv'
  BY <1>6 DEF AdminStart, AdminStop
<1>7. CASE UNCHANGED serviceVars
  BY <1>7 DEF serviceVars
<1> QED
  BY <1>1, <1>2, <1>3, <1>4, <1>5, <1>6, <1>7 DEF ServiceNext, Unfreeze

LEMMA ServiceInvariance == ServiceSpec => []ServiceIInv
<1>1. ServiceInit => ServiceIInv
  BY EmptyList, FS_EmptySet, ServiceAssumption
  DEF ServiceInit, ServiceIInv, ServiceTypeOK, MergedWhitelistIsCurrent
<1> QED
  BY <1>1, ServiceIInvStep, PTL DEF ServiceSpec

(***************************************************************************)
(* At all times the array of frozen units is within its bounds, and a unit *)
(* that the daemon owes does not run.                                      *)
(***************************************************************************)
THEOREM ServiceTypes == ServiceSpec => []ServiceTypeOK
BY ServiceInvariance, PTL DEF ServiceIInv

(***************************************************************************)
(* At all times the scan consults the hard-coded names and all names of    *)
(* the whitelist that was received last.                                   *)
(***************************************************************************)
THEOREM ServiceWhitelistCurrent == ServiceSpec => []MergedWhitelistIsCurrent
BY ServiceInvariance, PTL DEF ServiceIInv

-----------------------------------------------------------------------------
\* A thaw forgets only the units that systemd refuses to start.
LEMMA ThawForgetsRefused ==
  ASSUME ServiceTypeOK, NEW opened \in BOOLEAN, NEW started \in SUBSET frozen_services,
         UnfreezeServices(opened, started)
  PROVE  Forgotten' \subseteq Forgotten \/ RefusedStart
<1>1. CASE ~opened
  BY <1>1 DEF UnfreezeServices, Forgotten
<1>2. CASE opened /\ owed_services \cap frozen_services \subseteq started
  BY <1>2 DEF UnfreezeServices, Forgotten
<1>3. CASE opened /\ ~(owed_services \cap frozen_services \subseteq started)
  BY <1>3 DEF RefusedStart, UnfreezeServices
<1> QED
  BY <1>1, <1>2, <1>3

(***************************************************************************)
(* In every run, a unit that the daemon stopped stays on its list until it *)
(* runs again, unless systemd refuses to start it or the daemon dies.      *)
(***************************************************************************)
THEOREM ServiceForgottenOnlyByLoss == ServiceSpec => ForgottenOnlyByLoss
<1>1. ServiceIInv /\ [ServiceNext]_serviceVars =>
        [Forgotten' \subseteq Forgotten \/ RefusedStart \/ LoseServiceMemory]_serviceVars
  <2> SUFFICES ASSUME ServiceTypeOK, ServiceNext
               PROVE  Forgotten' \subseteq Forgotten \/ RefusedStart \/ LoseServiceMemory
    BY DEF ServiceIInv
  <2>1. ASSUME NEW list \in Lists, SetWhitelist(list) \/ SetBlacklist(list)
        PROVE  Forgotten' = Forgotten
    BY <2>1 DEF SetWhitelist, SetBlacklist, Forgotten
  <2>2. CASE Freeze
    <3>1. CASE FreezeServicesAgain
      BY <3>1 DEF FreezeServicesAgain, serviceVars, Forgotten
    <3>2. ASSUME NEW idle \in SUBSET active, NEW opened \in BOOLEAN,
                 NEW accepted \in SUBSET (idle \cup blacklist),
                 FreezeServices(idle, opened, accepted)
          PROVE  Forgotten' \subseteq Forgotten
      <4>1. frozen_services' = accepted
        BY <3>2, FreezeTakesAll
      <4>2. frozen_services = {} /\ owed_services' = owed_services \cup (active \cap accepted)
        BY <3>2 DEF FreezeServices
      <4> QED
        BY <4>1, <4>2 DEF Forgotten
    <3> QED
      BY <2>2, <3>1, <3>2 DEF Freeze
  <2>3. CASE Unfreeze
    BY <2>3, ThawForgetsRefused DEF Unfreeze
  <2>4. ASSUME NEW s \in Services, AdminStart(s) \/ AdminStop(s)
        PROVE  Forgotten' \subseteq Forgotten
    BY <2>4 DEF AdminStart, AdminStop, Forgotten
  <2> QED
    BY <2>1, <2>2, <2>3, <2>4 DEF ServiceNext
<1> QED
  BY <1>1, ServiceInvariance, PTL DEF ServiceSpec, ForgottenOnlyByLoss

-----------------------------------------------------------------------------
\* No step of the daemon, of the hook or of an administrator breaks the types.
LEMMA CoresStep == CoreTypeOK /\ [CoreNext]_coreVars => CoreTypeOK'
<1> SUFFICES ASSUME CoreTypeOK, [CoreNext]_coreVars
             PROVE  CoreTypeOK'
  OBVIOUS
<1> USE DEF CoreTypeOK
<1>1. CASE DisableCores
  BY <1>1 DEF DisableCores
<1>2. CASE ReenableCores
  <2>1. Restorable \subseteq Cores
    BY DEF Restorable
  <2> QED
    BY <1>2, <2>1 DEF ReenableCores
<1>3. CASE LoseCoreMemory
  BY <1>3 DEF LoseCoreMemory
<1>4. CASE HookOnline
  BY <1>4 DEF HookOnline
<1>5. ASSUME NEW c \in Cores, AdminUnplug(c) \/ AdminPlug(c)
      PROVE  CoreTypeOK'
  BY <1>5 DEF AdminUnplug, AdminPlug
<1>6. CASE UNCHANGED coreVars
  BY <1>6 DEF coreVars
<1> QED
  BY <1>1, <1>2, <1>3, <1>4, <1>5, <1>6 DEF CoreNext

(***************************************************************************)
(* At all times the cores that the daemon owes are offline cores of the    *)
(* machine, and its notes name cores of the machine.                       *)
(***************************************************************************)
THEOREM CoresTypes == CoreSpec => []CoreTypeOK
<1>1. CoreInit => CoreTypeOK
  BY DEF CoreInit, CoreTypeOK
<1> QED
  BY <1>1, CoresStep, PTL DEF CoreSpec

(***************************************************************************)
(* disable_cpu_cores while nothing is owed loses nothing: whatever it      *)
(* takes is what it has just noted.                                        *)
(***************************************************************************)
LEMMA FirstDisableLosesNothing ==
  CoreTypeOK /\ DisableCores /\ owed_cores = {} => Lost' = {}
<1> SUFFICES ASSUME CoreTypeOK, DisableCores, owed_cores = {}
             PROVE  Lost' = {}
  OBVIOUS
<1>1. owed_cores' = online /\ cpu_online_initial' = online /\ online \subseteq Cores
  BY DEF CoreTypeOK, DisableCores
<1>2. Restorable' = cpu_online_initial' \/ Restorable' = Cores
  BY DEF Restorable
<1> QED
  BY <1>1, <1>2 DEF Lost

\* A restart falls back on all cores, so it loses none either.
LEMMA RestartLosesNothing == CoreTypeOK /\ LoseCoreMemory => Lost' = {}
BY DEF CoreTypeOK, LoseCoreMemory, Lost, Restorable

\* Every step but a second disable leaves Lost alone or makes it smaller.
LEMMA LostStep ==
  CoreTypeOK /\ [CoreNext]_coreVars =>
    [Lost' \subseteq Lost \/ (DisableCores /\ owed_cores # {})]_coreVars
<1> SUFFICES ASSUME CoreTypeOK, CoreNext
             PROVE  Lost' \subseteq Lost \/ (DisableCores /\ owed_cores # {})
  OBVIOUS
<1>1. CASE DisableCores
  BY <1>1, FirstDisableLosesNothing
<1>2. CASE LoseCoreMemory
  BY <1>2, RestartLosesNothing
<1>3. ASSUME owed_cores' \subseteq owed_cores, UNCHANGED <<noted, cpu_online_initial>>
      PROVE  Lost' \subseteq Lost
  BY <1>3 DEF Lost, Restorable
<1>4. CASE ReenableCores
  BY <1>3, <1>4 DEF ReenableCores
<1>5. CASE HookOnline
  BY <1>3, <1>5 DEF HookOnline
<1>6. ASSUME NEW c \in Cores, AdminUnplug(c) \/ AdminPlug(c)
      PROVE  Lost' \subseteq Lost
  BY <1>3, <1>6 DEF AdminUnplug, AdminPlug
<1> QED
  BY <1>1, <1>2, <1>4, <1>5, <1>6 DEF CoreNext

(***************************************************************************)
(* In every run, only a second disable_cpu_cores while cores are owed can  *)
(* take a core out of reach of reenable_cpu_cores; a crash cannot.         *)
(***************************************************************************)
THEOREM CoresLostOnlyByDoubleDisable == CoreSpec => LostOnlyByDoubleDisable
BY CoresTypes, LostStep, PTL DEF CoreSpec, LostOnlyByDoubleDisable

-----------------------------------------------------------------------------
\* What is served was offered.
QueueOK == backlog \in Seq(Offered)

LEMMA QueueStep == QueueOK /\ [Next]_vars => QueueOK'
<1> SUFFICES ASSUME QueueOK, [Next]_vars
             PROVE  QueueOK'
  OBVIOUS
<1> USE DEF QueueOK
<1>1. ASSUME NEW c \in Offered, Connect(c)
      PROVE  QueueOK'
  BY <1>1 DEF Connect
<1>2. CASE Serve
  <2>1. backlog # <<>> /\ backlog' = Tail(backlog)
    BY <1>2 DEF Serve
  <2> QED
    BY <2>1
<1>3. CASE Signal
  BY <1>3 DEF Signal
<1>4. CASE LeaveLoop \/ PollError
  <2>1. backlog' = <<>>
    BY <1>4 DEF LeaveLoop, PollError, ShutDown
  <2> QED
    BY <2>1
<1>5. CASE Crash
  <2>1. backlog' = <<>>
    BY <1>5 DEF Crash
  <2> QED
    BY <2>1
<1>6. CASE Start
  <2>1. backlog' = backlog
    BY <1>6 DEF Start
  <2> QED
    BY <2>1
<1>7. CASE Environment
  BY <1>7 DEF Environment, loopVars
<1>8. CASE UNCHANGED vars
  BY <1>8 DEF vars, loopVars
<1> QED
  BY <1>1, <1>2, <1>3, <1>4, <1>5, <1>6, <1>7, <1>8 DEF Next

LEMMA Queue == Spec => []QueueOK
<1>1. Init => QueueOK
  BY DEF Init, QueueOK
<1> QED
  BY <1>1, QueueStep, PTL DEF Spec

\* The arguments of the command that is served next.
LEMMA ServedArguments ==
  ASSUME QueueOK, backlog # <<>>
  PROVE  LET name == Head(backlog)[1] arg == Head(backlog)[2]
         IN /\ name \in Switches => arg \in BOOLEAN
            /\ name \in {"set_procs_whitelist", "set_procs_blacklist"} => arg \subseteq Procs
            /\ name \in {"set_whitelist", "set_blacklist"} => arg \in Lists
<1>1. Head(backlog) \in Offered
  BY DEF QueueOK
<1> QED
  BY <1>1, OfferedAssumption

-----------------------------------------------------------------------------
\* A step of the daemon is, for the process freezer, one of its own or none.
LEMMA ProcSimulation == QueueOK /\ [Next]_vars => [ProcNext]_procVars
<1> SUFFICES ASSUME QueueOK, [Next]_vars
             PROVE  ProcNext \/ UNCHANGED procVars
  OBVIOUS
<1>1. CASE Serve
  <2> DEFINE name == Head(backlog)[1]
             arg == Head(backlog)[2]
  <2>1. HandleCommand(name, arg)
    BY <1>1 DEF Serve
  <2>2. CASE Freezing(name, arg)
    <3>1. CASE name = "freeze_processes" /\ \E opened \in BOOLEAN : FreezeProcesses(arg, opened)
      <4>1. arg \in BOOLEAN
        BY <1>1, <3>1, ServedArguments DEF Serve, Switches
      <4> QED
        BY <3>1, <4>1 DEF ProcNext
    <3>2. CASE /\ name \in {"set_procs_whitelist", "set_procs_blacklist"}
               /\ SetProcsWhitelist(arg) \/ SetProcsBlacklist(arg)
      <4>1. arg \in SUBSET Procs
        BY <1>1, <3>2, ServedArguments DEF Serve
      <4> QED
        BY <3>2, <4>1 DEF ProcNext, EditLists
    <3> QED
      BY <2>2, <3>1, <3>2 DEF Freezing
  <2>3. CASE \/ WriteHardware(name, arg) \/ Tune(name, arg) \/ ServiceFreezing(name, arg)
             \/ Cpu(name) \/ Control(name)
    BY <2>3 DEF WriteHardware, Tune, ServiceFreezing, Cpu, Control
  <2> QED
    BY <2>1, <2>2, <2>3 DEF HandleCommand
<1>2. CASE LeaveLoop \/ PollError
  <2>1. ShutDown
    BY <1>2 DEF LeaveLoop, PollError
  <2>2. UNCHANGED procVars \/ \E opened \in BOOLEAN : FreezeProcesses(FALSE, opened)
    BY <2>1 DEF ShutDown, RestoreDefaults
  <2> QED
    BY <2>2 DEF ProcNext
<1>3. CASE Start
  BY <1>3 DEF Start, ProcNext
<1>4. CASE Environment
  BY <1>4 DEF Environment, ProcNext
<1>5. CASE (\E c \in Offered : Connect(c)) \/ Signal \/ Crash \/ UNCHANGED vars
  BY <1>5 DEF Connect, Signal, Crash, vars
<1> QED
  BY <1>1, <1>2, <1>3, <1>4, <1>5 DEF Next

\* ... and for the service freezer.
LEMMA ServiceSimulation == QueueOK /\ [Next]_vars => [ServiceNext]_serviceVars
<1> SUFFICES ASSUME QueueOK, [Next]_vars
             PROVE  ServiceNext \/ UNCHANGED serviceVars
  OBVIOUS
<1>1. CASE Serve
  <2> DEFINE name == Head(backlog)[1]
             arg == Head(backlog)[2]
  <2>1. HandleCommand(name, arg)
    BY <1>1 DEF Serve
  <2>2. CASE ServiceFreezing(name, arg)
    <3>1. CASE Freeze \/ Unfreeze
      BY <3>1 DEF ServiceNext
    <3>2. CASE /\ name \in {"set_whitelist", "set_blacklist"}
               /\ SetWhitelist(arg) \/ SetBlacklist(arg)
      <4>1. arg \in Lists
        BY <1>1, <3>2, ServedArguments DEF Serve
      <4> QED
        BY <3>2, <4>1 DEF ServiceNext
    <3> QED
      BY <2>2, <3>1, <3>2 DEF ServiceFreezing
  <2>3. CASE \/ WriteHardware(name, arg) \/ Tune(name, arg) \/ Freezing(name, arg)
             \/ Cpu(name) \/ Control(name)
    BY <2>3 DEF WriteHardware, Tune, Freezing, Cpu, Control
  <2> QED
    BY <2>1, <2>2, <2>3 DEF HandleCommand
<1>2. CASE LeaveLoop \/ PollError
  <2>1. ShutDown
    BY <1>2 DEF LeaveLoop, PollError
  <2>2. UNCHANGED serviceVars \/ Unfreeze
    BY <2>1 DEF ShutDown, RestoreDefaults
  <2> QED
    BY <2>2 DEF ServiceNext
<1>3. CASE Start
  BY <1>3 DEF Start, ServiceNext
<1>4. CASE Environment
  BY <1>4 DEF Environment, ServiceNext
<1>5. CASE (\E c \in Offered : Connect(c)) \/ Signal \/ Crash \/ UNCHANGED vars
  BY <1>5 DEF Connect, Signal, Crash, vars
<1> QED
  BY <1>1, <1>2, <1>3, <1>4, <1>5 DEF Next

\* ... and for the cores, which the exit path leaves as they are.
LEMMA CoreSimulation == [Next]_vars => [CoreNext]_coreVars
<1> SUFFICES ASSUME [Next]_vars
             PROVE  CoreNext \/ UNCHANGED coreVars
  OBVIOUS
<1>1. CASE Serve
  <2> DEFINE name == Head(backlog)[1]
             arg == Head(backlog)[2]
  <2>1. HandleCommand(name, arg)
    BY <1>1 DEF Serve
  <2>2. CASE Cpu(name)
    BY <2>2 DEF Cpu, SetPerfProfile, CoreNext
  <2>3. CASE \/ WriteHardware(name, arg) \/ Tune(name, arg) \/ Freezing(name, arg)
             \/ ServiceFreezing(name, arg) \/ Control(name)
    BY <2>3 DEF WriteHardware, Tune, Freezing, ServiceFreezing, Control
  <2> QED
    BY <2>1, <2>2, <2>3 DEF HandleCommand
<1>2. CASE LeaveLoop \/ PollError
  BY <1>2 DEF LeaveLoop, PollError, ShutDown, RestoreDefaults
<1>3. CASE Start
  BY <1>3 DEF Start, CoreNext
<1>4. CASE Environment
  BY <1>4 DEF Environment, CoreNext
<1>5. CASE (\E c \in Offered : Connect(c)) \/ Signal \/ Crash \/ UNCHANGED vars
  BY <1>5 DEF Connect, Signal, Crash, vars
<1> QED
  BY <1>1, <1>2, <1>3, <1>4, <1>5 DEF Next

(***************************************************************************)
(* In every run of the daemon, whatever clients send and however often it  *)
(* dies, its processes, services and cores behave as the three modules on  *)
(* them say.                                                               *)
(***************************************************************************)
THEOREM DaemonImplementsComponents == Spec => ImplementsComponents
<1>1. Init => ProcInit /\ ServiceInit /\ CoreInit
  BY DEF Init
<1>2. QueueOK /\ [Next]_vars =>
        [ProcNext]_procVars /\ [ServiceNext]_serviceVars /\ [CoreNext]_coreVars
  BY ProcSimulation, ServiceSimulation, CoreSimulation
     DEF procVars, procVars, serviceVars, serviceVars, coreVars, coreVars
<1> QED
  BY <1>1, <1>2, Queue, PTL DEF Spec, ImplementsComponents, ProcSpec, ServiceSpec, CoreSpec

(***************************************************************************)
(* Whatever clients send and however the daemon ends and is started again, *)
(* a stopped process gets out of reach only by an edit of the lists, a     *)
(* waking scan that failed, or a restart.                                  *)
(***************************************************************************)
THEOREM DaemonStrandsOnlyByLoss == Spec => StrandedOnlyByLoss
BY DaemonImplementsComponents, ProcStrandedOnlyByLoss, PTL DEF ImplementsComponents

(***************************************************************************)
(* Whatever clients send and however the daemon ends and is started again, *)
(* it forgets a unit that it stopped only when systemd refuses to start it *)
(* or when the daemon itself starts again.                                 *)
(***************************************************************************)
THEOREM DaemonForgetsOnlyByLoss == Spec => ForgottenOnlyByLoss
BY DaemonImplementsComponents, ServiceForgottenOnlyByLoss, PTL DEF ImplementsComponents

(***************************************************************************)
(* Whatever clients send and however the daemon ends and is started again, *)
(* it loses a core that it took only by a second disable_cpu_cores.        *)
(***************************************************************************)
THEOREM DaemonCoresKept == Spec => LostOnlyByDoubleDisable
BY DaemonImplementsComponents, CoresLostOnlyByDoubleDisable, PTL DEF ImplementsComponents

-----------------------------------------------------------------------------
(***************************************************************************)
(* What the daemon itself keeps, apart from its three parts; and no device *)
(* is on that the machine does not have, on which ExitRestores rests.      *)
(***************************************************************************)
LoopOK ==
  /\ mode \in {"up", "exited", "crashed"}
  /\ keep_running \in BOOLEAN
  /\ reboot_or_poweroff \in BOOLEAN
  /\ Len(backlog) <= Backlog
  /\ mode # "up" => backlog = <<>>

HardwareOK ==
  /\ hw \in Hardware
  /\ tuning \in Tuning
  /\ hw.ethernet => HasEthernet
  /\ hw.webcam => HasWebcam

LEMMA LoopStep == QueueOK /\ LoopOK /\ [Next]_vars => LoopOK'
<1> SUFFICES ASSUME QueueOK, LoopOK, [Next]_vars
             PROVE  LoopOK'
  OBVIOUS
<1> USE DEF LoopOK
<1>1. ASSUME NEW c \in Offered, Connect(c)
      PROVE  LoopOK'
  BY <1>1, DaemonAssumption DEF Connect, QueueOK
<1>2. CASE Serve
  <2>1. keep_running' \in BOOLEAN /\ reboot_or_poweroff' \in BOOLEAN
    BY <1>2 DEF Serve, HandleCommand, WriteHardware, Tune, Freezing, ServiceFreezing, Cpu, Control
  <2>2. Len(backlog') <= Backlog /\ mode' = "up"
    BY <1>2, DaemonAssumption DEF Serve, QueueOK
  <2> QED
    BY <2>1, <2>2
<1>3. CASE Signal
  BY <1>3 DEF Signal
<1>4. CASE LeaveLoop \/ PollError
  BY <1>4, DaemonAssumption DEF LeaveLoop, PollError, ShutDown
<1>5. CASE Crash
  BY <1>5, DaemonAssumption DEF Crash
<1>6. CASE Start
  BY <1>6 DEF Start
<1>7. CASE Environment \/ UNCHANGED vars
  BY <1>7 DEF Environment, vars, loopVars
<1> QED
  BY <1>1, <1>2, <1>3, <1>4, <1>5, <1>6, <1>7 DEF Next

\* Every profile writes values of the kernel's ranges.
LEMMA ProfileTyped ==
  ASSUME HardwareOK, NEW profile \in Profiles, NEW ultra \in BOOLEAN,
         SetEnergyProfile(profile, ultra)
  PROVE  hw' \in Hardware /\ hw'.ethernet = hw.ethernet /\ hw'.webcam = hw.webcam
<1> DEFINE eco == profile \in {"low", "ultra_low"}
           freq == CASE ~eco -> 200 [] eco /\ ultra -> tuning.eco [] OTHER -> 2 * tuning.eco
           usb == eco \/ (profile = "balanced" /\ tuning.usb)
           pm == ~(profile = "performance" /\ ultra)
<1>1. freq \in 0..200
  <2>1. tuning.eco \in 20..80
    BY DEF HardwareOK, Tuning, EcoCaps
  <2> QED
    BY <2>1
<1>2. usb \in BOOLEAN /\ pm \in BOOLEAN
  BY Zenon
<1>3. hw' = [hw EXCEPT !.profile = profile, !.max_freq = freq, !.usb_autosuspend = usb,
                       !.runtime_pm = pm]
  BY Zenon DEF SetEnergyProfile
<1> HIDE DEF freq, usb, pm
<1> QED
  BY <1>1, <1>2, <1>3 DEF HardwareOK, Hardware

LEMMA HardwareStep == QueueOK /\ HardwareOK /\ [Next]_vars => HardwareOK'
<1> SUFFICES ASSUME QueueOK, HardwareOK, [Next]_vars
             PROVE  HardwareOK'
  OBVIOUS
<1>1. CASE Serve
  <2> DEFINE name == Head(backlog)[1]
             arg == Head(backlog)[2]
  <2>1. HandleCommand(name, arg)
    BY <1>1 DEF Serve
  <2>2. name \in Switches => arg \in BOOLEAN
    BY <1>1, ServedArguments DEF Serve
  <2> HIDE DEF name, arg
  <2>3. CASE WriteHardware(name, arg)
    <3>1. tuning' = tuning
      BY <2>3 DEF WriteHardware
    <3>2. CASE name = "set_normal_profile" /\ SetEnergyProfile("balanced", FALSE)
      BY <3>1, <3>2, ProfileTyped DEF HardwareOK, Profiles
    <3>3. CASE name = "set_low_profile" /\ SetLowProfile(arg)
      <4>1. arg \in BOOLEAN
        BY <2>2, <3>3 DEF Switches
      <4>2. (IF arg THEN "ultra_low" ELSE "low") \in Profiles
        BY DEF Profiles
      <4> QED
        BY <3>1, <3>3, <4>1, <4>2, ProfileTyped DEF HardwareOK, SetLowProfile
    <3>4. CASE name = "toggle_ethernet" /\ ManageInterface(arg)
      BY <2>2, <3>1, <3>4 DEF HardwareOK, Hardware, ManageInterface, Switches
    <3>5. CASE name = "set_webcam_power" /\ SetWebcamPower(arg)
      BY <2>2, <3>1, <3>5 DEF HardwareOK, Hardware, SetWebcamPower, Switches
    <3>6. CASE \/ name = "set_cpu_driver_opmode"
                    /\ hw' = [hw EXCEPT !.opmode = IF arg THEN "active" ELSE "passive"]
               \/ name = "set_charge_limit"
                    /\ hw' = IF arg \in ChargeLimits THEN [hw EXCEPT !.charge_limit = arg] ELSE hw
      BY <3>1, <3>6 DEF HardwareOK, Hardware
    <3>7. CASE \/ name = "set_rfkill_wifi" /\ hw' = [hw EXCEPT !.wifi = arg]
               \/ name = "set_rfkill_bluetooth" /\ hw' = [hw EXCEPT !.bluetooth = arg]
      BY <2>2, <3>1, <3>7 DEF HardwareOK, Hardware, Switches
    <3> QED
      BY <2>3, <3>2, <3>3, <3>4, <3>5, <3>6, <3>7 DEF WriteHardware
  <2>4. CASE Tune(name, arg)
    <3>1. arg \in EcoCaps \/ tuning' = tuning \/ arg \in BOOLEAN
      BY <2>2, <2>4 DEF Tune, Switches
    <3>2. tuning' \in Tuning
      BY <2>2, <2>4 DEF Tune, Tuning, HardwareOK, Switches
    <3> QED
      BY <2>4, <3>2 DEF Tune, HardwareOK
  <2>5. CASE Cpu(name)
    <3>1. CASE SetPerfProfile
      <4>1. tuning.ultra \in BOOLEAN /\ "performance" \in Profiles
        BY DEF HardwareOK, Tuning, Profiles
      <4> QED
        BY <2>5, <3>1, <4>1, ProfileTyped DEF SetPerfProfile, Cpu, HardwareOK
    <3>2. CASE UNCHANGED hw
      BY <2>5, <3>2 DEF Cpu, HardwareOK
    <3> QED
      BY <2>5, <3>1, <3>2 DEF Cpu
  <2>6. CASE Freezing(name, arg) \/ ServiceFreezing(name, arg) \/ Control(name)
    BY <2>6 DEF Freezing, ServiceFreezing, Control, HardwareOK
  <2> QED
    BY <2>1, <2>3, <2>4, <2>5, <2>6 DEF HandleCommand
<1>2. CASE LeaveLoop \/ PollError
  <2>1. tuning' = tuning /\ (hw' = hw \/ hw' = RestoredHardware)
    BY <1>2 DEF LeaveLoop, PollError, ShutDown, RestoreDefaults
  <2> DEFINE e == hw.ethernet \/ HasEthernet
             w == hw.webcam \/ HasWebcam
  <2>2. /\ e \in BOOLEAN /\ (e => HasEthernet)
        /\ w \in BOOLEAN /\ (w => HasWebcam)
    BY Zenon DEF HardwareOK
  <2>3. RestoredHardware = [hw EXCEPT !.profile = "balanced", !.max_freq = 200, !.runtime_pm = TRUE,
                                      !.usb_autosuspend = tuning.usb, !.ethernet = e, !.webcam = w]
    BY Zenon DEF RestoredHardware
  <2>4. "balanced" \in Profiles /\ 200 \in 0..200 /\ TRUE \in BOOLEAN /\ tuning.usb \in BOOLEAN
    BY DEF HardwareOK, Tuning, Profiles
  <2> HIDE DEF e, w
  <2>5. /\ RestoredHardware \in Hardware
        /\ RestoredHardware.ethernet = e /\ RestoredHardware.webcam = w
    <3> DEFINE renamed == [hw EXCEPT !.profile = "balanced", !.max_freq = 200]
               balanced == [renamed EXCEPT !.runtime_pm = TRUE, !.usb_autosuspend = tuning.usb]
    <3>1. renamed \in Hardware
      BY <2>4 DEF HardwareOK, Hardware
    <3> HIDE DEF renamed
    <3>2. balanced \in Hardware
      BY <2>4, <3>1 DEF Hardware
    <3>3. RestoredHardware = [balanced EXCEPT !.ethernet = e, !.webcam = w]
      BY <2>3 DEF renamed
    <3> HIDE DEF balanced
    <3> QED
      BY <2>2, <3>2, <3>3 DEF Hardware
  <2> QED
    BY <2>1, <2>2, <2>5 DEF HardwareOK
<1>3. CASE Start
  BY <1>3 DEF Start, HardwareOK, Tuning, EcoCaps
<1>4. CASE (\E c \in Offered : Connect(c)) \/ Signal \/ Crash \/ Environment \/ UNCHANGED vars
  BY <1>4 DEF Connect, Signal, Crash, Environment, vars, HardwareOK
<1> QED
  BY <1>1, <1>2, <1>3, <1>4 DEF Next

LEMMA Settings == Spec => [](LoopOK /\ HardwareOK)
<1>1. Init => LoopOK
  <2>1. Init => /\ mode = "up" /\ keep_running \in BOOLEAN /\ reboot_or_poweroff \in BOOLEAN
                /\ backlog = <<>>
    BY Zenon DEF Init
  <2> QED
    BY <2>1, DaemonAssumption DEF LoopOK
<1>2. Init => HardwareOK
  BY DaemonAssumption DEF Init, HardwareOK, Hardware, Tuning, EcoCaps, Profiles
<1> QED
  BY <1>1, <1>2, Queue, LoopStep, HardwareStep, PTL DEF Spec

(***************************************************************************)
(* At all times every variable of the daemon has its type; in particular   *)
(* no value out of range gets to the kernel, whatever clients send.        *)
(***************************************************************************)
THEOREM DaemonTypes == Spec => []TypeOK
<1>1. Spec => [](ProcTypeOK /\ ServiceTypeOK /\ CoreTypeOK)
  BY DaemonImplementsComponents, ProcTypes, ServiceTypes, CoresTypes, PTL DEF ImplementsComponents
<1>2. QueueOK /\ LoopOK /\ HardwareOK /\ ProcTypeOK /\ ServiceTypeOK /\ CoreTypeOK => TypeOK
  BY DEF QueueOK, LoopOK, HardwareOK, TypeOK
<1> QED
  BY <1>1, <1>2, Queue, Settings, PTL

-----------------------------------------------------------------------------
\* What the exit path does to the processes ...
LEMMA ExitThaws ==
  ASSUME ProcIInv, NEW opened \in BOOLEAN, FreezeProcesses(FALSE, opened)
  PROVE  stopped' \subseteq Stranded \/ FailedThaw
<1>1. CASE frozen_procs /\ ~opened
  BY <1>1 DEF FailedThaw
<1>2. CASE ~frozen_procs
  BY <1>2 DEF FreezeProcesses, Stranded, ProcIInv, ProcTypeOK
<1>3. CASE frozen_procs /\ opened
  <2>1. CASE RegexCompiled
    BY <1>3, <2>1 DEF FreezeProcesses, Stranded, ProcIInv, ProcTypeOK
  <2>2. CASE ~RegexCompiled
    BY <1>3, <2>2 DEF FreezeProcesses, ProcIInv
  <2> QED
    BY <2>1, <2>2
<1> QED
  BY <1>1, <1>2, <1>3

\* ... and to the units, whose array is emptied whichever of them start.
LEMMA ExitStarts ==
  ASSUME Unfreeze
  PROVE  owed_services' \subseteq Forgotten \/ frozen_services' # {} \/ RefusedStart
<1>1. PICK opened \in BOOLEAN, started \in SUBSET frozen_services :
             UnfreezeServices(opened, started)
  BY DEF Unfreeze
<1>2. CASE ~opened
  BY <1>1, <1>2 DEF UnfreezeServices, Forgotten
<1>3. CASE opened /\ owed_services \cap frozen_services \subseteq started
  BY <1>1, <1>3 DEF UnfreezeServices, Forgotten
<1>4. CASE opened /\ ~(owed_services \cap frozen_services \subseteq started)
  BY <1>1, <1>4 DEF RefusedStart, UnfreezeServices
<1> QED
  BY <1>2, <1>3, <1>4

(***************************************************************************)
(* Whatever clients sent and however often the daemon died before, one     *)
(* that leaves its loop and does not power the machine off wakes and       *)
(* starts what it can, and hands back the network and the webcam.          *)
(***************************************************************************)
THEOREM DaemonExitRestores == Spec => ExitRestores
<1> DEFINE Restores ==
             mode = "up" /\ mode' = "exited" /\ ~reboot_or_poweroff =>
               /\ stopped' \subseteq Stranded \/ FailedThaw
               /\ owed_services' \subseteq Forgotten \/ frozen_services' # {} \/ RefusedStart
               /\ hw'.ethernet = HasEthernet /\ hw'.webcam = HasWebcam
<1>1. ProcIInv /\ HardwareOK /\ [Next]_vars => [Restores]_vars
  <2> SUFFICES ASSUME ProcIInv, HardwareOK, Next,
                      mode = "up", mode' = "exited", ~reboot_or_poweroff
               PROVE  /\ stopped' \subseteq Stranded \/ FailedThaw
                      /\ owed_services' \subseteq Forgotten \/ frozen_services' # {} \/ RefusedStart
                      /\ hw'.ethernet = HasEthernet /\ hw'.webcam = HasWebcam
    OBVIOUS
  <2>1. RestoreDefaults
    <3>1. ShutDown
      BY DEF Next, Connect, Serve, Signal, LeaveLoop, PollError, Crash, Start, Environment, loopVars
    <3> QED
      BY <3>1 DEF ShutDown
  <2>2. stopped' \subseteq Stranded \/ FailedThaw
    BY <2>1, ExitThaws DEF RestoreDefaults
  <2>3. owed_services' \subseteq Forgotten \/ frozen_services' # {} \/ RefusedStart
    BY <2>1, ExitStarts DEF RestoreDefaults
  <2>4. hw'.ethernet = HasEthernet /\ hw'.webcam = HasWebcam
    <3> DEFINE e == hw.ethernet \/ HasEthernet
               w == hw.webcam \/ HasWebcam
    <3>1. e = HasEthernet /\ w = HasWebcam
      BY Zenon, DaemonAssumption DEF HardwareOK
    <3>2. hw' = [hw EXCEPT !.profile = "balanced", !.max_freq = 200, !.runtime_pm = TRUE,
                           !.usb_autosuspend = tuning.usb, !.ethernet = e, !.webcam = w]
      BY <2>1, Zenon DEF RestoreDefaults, RestoredHardware
    <3> HIDE DEF e, w
    <3> QED
      BY <3>1, <3>2 DEF HardwareOK, Hardware
  <2> QED
    BY <2>2, <2>3, <2>4
<1>2. Spec => []ProcIInv
  BY DaemonImplementsComponents, ProcInvariance, PTL DEF ImplementsComponents
<1> QED
  BY <1>1, <1>2, Settings, PTL DEF Spec, ExitRestores
=============================================================================
