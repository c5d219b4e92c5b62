---------------------------- MODULE ServiceFreezer ----------------------------
(***************************************************************************)
(* Service freezing in the root daemon (src/src/yabatmand.c): systemd      *)
(* units are "frozen" by StopUnit and "unfrozen" by StartUnit.  Unlike the *)
(* process freezer, the daemon remembers what it stopped, in an array of   *)
(* MAX_FREEZABLE names, and forgets it all when it dies.                   *)
(*                                                                         *)
(* systemd is the environment: which units run, which of them look idle    *)
(* over the sampling second, and which calls on the bus succeed.           *)
(***************************************************************************)
EXTENDS Naturals, FiniteSets

CONSTANTS
  Services,    \* the .service units of the machine
  Hardcoded,   \* those of hardcoded_whitelist
  MaxEntries,  \* MAX_ENTRIES, the length of a list the GUI can send
  MaxFreezable \* MAX_FREEZABLE, the length of the daemon's own arrays

\* 36 hard-coded names and lists of at most 64 fill the 100 slots exactly.
ASSUME ServiceAssumption ==
  /\ IsFiniteSet(Services)
  /\ Hardcoded \subseteq Services
  /\ MaxEntries \in Nat
  /\ MaxFreezable \in Nat
  /\ Cardinality(Hardcoded) + MaxEntries <= MaxFreezable

VARIABLES
  active,           \* the units that run
  whitelist,        \* as received: never freeze ...
  blacklist,        \* ... and always freeze
  merged_whitelist, \* what the scan consults
  frozen_services,  \* what unfreeze_all_frozen_services will start again
  owed_services     \* history: units that ran until the daemon stopped them
                    \* and that nobody has started since

serviceVars == <<active, whitelist, blacklist, merged_whitelist, frozen_services, owed_services>>

Lists == {list \in SUBSET Services : Cardinality(list) <= MaxEntries}

ServiceTypeOK ==
  /\ active \subseteq Services
  /\ whitelist \in Lists
  /\ blacklist \in Lists
  /\ merged_whitelist \subseteq Services
  /\ frozen_services \subseteq Services
  /\ Cardinality(frozen_services) <= MaxFreezable
  /\ owed_services \subseteq Services \ active

\* A slip for the mutation runs: no test for a full array.
AppendedUnbounded(old, new) == {old \cup new}

(***************************************************************************)
(* `new' appended to an array that holds `old': the possible contents when *)
(* entries that find the array full are dropped.                           *)
(***************************************************************************)
Appended(old, new) ==
  IF Cardinality(old \cup new) <= MaxFreezable
    THEN {old \cup new}
    ELSE {all \in SUBSET (old \cup new) :
            old \subseteq all /\ Cardinality(all) = MaxFreezable}

-----------------------------------------------------------------------------
\* A slip for the mutation runs: set_whitelist stores the list and forgets merge_whitelists
StoreWhitelist(list) ==
  /\ whitelist' = list
  /\ UNCHANGED <<active, blacklist, merged_whitelist, frozen_services, owed_services>>

-----------------------------------------------------------------------------
\* merge_whitelists: the hard-coded names first, then the list while slots last.
SetWhitelist(list) ==
  /\ whitelist' = list
  /\ merged_whitelist' \in Appended(Hardcoded, list)
  /\ UNCHANGED <<active, blacklist, frozen_services, owed_services>>

SetBlacklist(list) ==
  /\ blacklist' = list
  /\ UNCHANGED <<active, whitelist, merged_whitelist, frozen_services, owed_services>>

(***************************************************************************)
(* scan_service_activity keeps the active, not whitelisted units that stay *)
(* below the thresholds, MAX_FREEZABLE at most (none when the bus or       *)
(* ListUnits fails); add_blacklist_to_freezables then adds the blacklist,  *)
(* whatever the state of those units and whether whitelisted or not.       *)
(***************************************************************************)
Scanned(idle) ==
  /\ idle \subseteq active \ merged_whitelist
  /\ Cardinality(idle) <= MaxFreezable

\* A slip for the mutation runs: freezing again while services are frozen.
FreezeServicesTwice(idle, opened, accepted) ==
  /\ Scanned(idle)
  /\ \E freezable \in Appended(idle, blacklist) :
       accepted \subseteq IF opened THEN freezable ELSE {}
  /\ frozen_services' \in Appended(frozen_services, accepted)
  /\ active' = active \ accepted
  /\ owed_services' = owed_services \cup (active \cap accepted)
  /\ UNCHANGED <<whitelist, blacklist, merged_whitelist>>

(***************************************************************************)
(* freeze_services_dbus does nothing while the array holds a name.         *)
(* Otherwise it scans, opens the bus (opened), and stops what it may;      *)
(* `accepted' are the units for which StopUnit answered no error.          *)
(***************************************************************************)
FreezeServices(idle, opened, accepted) ==
  /\ frozen_services = {}
  /\ Scanned(idle)
  /\ \E freezable \in Appended(idle, blacklist) :
       accepted \subseteq IF opened THEN freezable ELSE {}
  /\ frozen_services' \in Appended(frozen_services, accepted)
  /\ active' = active \ accepted
  /\ owed_services' = owed_services \cup (active \cap accepted)
  /\ UNCHANGED <<whitelist, blacklist, merged_whitelist>>

FreezeServicesAgain == frozen_services # {} /\ UNCHANGED serviceVars

(***************************************************************************)
(* unfreeze_all_frozen_services keeps the array when the bus does not      *)
(* open, and empties it whichever StartUnit calls (started) succeed.       *)
(***************************************************************************)
UnfreezeServices(opened, started) ==
  /\ frozen_services' = IF opened THEN {} ELSE frozen_services
  /\ active' = IF opened THEN active \cup started ELSE active
  /\ owed_services' = owed_services \ active'
  /\ UNCHANGED <<whitelist, blacklist, merged_whitelist>>

\* The daemon dies and is started again; main calls merge_whitelists.
LoseServiceMemory ==
  /\ whitelist' = {}
  /\ blacklist' = {}
  /\ merged_whitelist' \in Appended(Hardcoded, {})
  /\ frozen_services' = {}
  /\ UNCHANGED <<active, owed_services>>

\* Somebody else starts or stops a unit.
AdminStart(s) ==
  /\ s \notin active
  /\ active' = active \cup {s}
  /\ owed_services' = owed_services \ {s}
  /\ UNCHANGED <<whitelist, blacklist, merged_whitelist, frozen_services>>

AdminStop(s) ==
  /\ s \in active
  /\ active' = active \ {s}
  /\ UNCHANGED <<whitelist, blacklist, merged_whitelist, frozen_services, owed_services>>

-----------------------------------------------------------------------------
ServiceInit ==
  /\ active \in SUBSET Services
  /\ whitelist = {}
  /\ blacklist = {}
  /\ merged_whitelist = Hardcoded
  /\ frozen_services = {}
  /\ owed_services = {}

Freeze ==
  \/ FreezeServicesAgain
  \/ \E idle \in SUBSET active, opened \in BOOLEAN :
       \E accepted \in SUBSET (idle \cup blacklist) : FreezeServices(idle, opened, accepted)

Unfreeze == \E opened \in BOOLEAN, started \in SUBSET frozen_services :
              UnfreezeServices(opened, started)

\* StartUnit is refused for a unit the daemon owes.
RefusedStart == \E started \in SUBSET frozen_services :
                  /\ ~ (owed_services \cap frozen_services \subseteq started)
                  /\ UnfreezeServices(TRUE, started)

ServiceNext ==
  \/ \E list \in Lists : SetWhitelist(list) \/ SetBlacklist(list)
  \/ Freeze
  \/ Unfreeze
  \/ LoseServiceMemory
  \/ \E s \in Services : AdminStart(s) \/ AdminStop(s)

ServiceSpec == ServiceInit /\ [][ServiceNext]_serviceVars

-----------------------------------------------------------------------------
\* Units the daemon owes and no longer has on its list.
Forgotten == owed_services \ frozen_services

(***************************************************************************)
(* A unit that the daemon stopped stays on the daemon's list until it runs *)
(* again: the array cannot overflow, a second freeze cannot displace the   *)
(* first, and a bus that does not open loses nothing.  Only a StartUnit    *)
(* that systemd refuses and the death of the daemon lose a unit.           *)
(***************************************************************************)
ForgottenOnlyByLoss ==
  [][Forgotten' \subseteq Forgotten \/ RefusedStart \/ LoseServiceMemory]_serviceVars

(***************************************************************************)
(* The list that the scan consults always holds every hard-coded name and  *)
(* every name of the whitelist received last: the longest list fits, and   *)
(* no order of list commands and restarts leaves a stale copy.             *)
(***************************************************************************)
MergedWhitelistIsCurrent == merged_whitelist = Hardcoded \cup whitelist
=============================================================================
