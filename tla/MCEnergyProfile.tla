--------------------------- MODULE MCEnergyProfile ---------------------------
(***************************************************************************)
(* Machines of the makes that the daemon tells apart, with every file or   *)
(* with few; a mouse, a webcam with a microphone, and a disk.              *)
(***************************************************************************)
EXTENDS EnergyProfile

CONSTANTS mouse, webcam, disk

Intel ==
  [vendor |-> "intel", pstate |-> TRUE, gpu |-> "intel", gpu_boost |-> TRUE, files |-> Files,
   schedulers |-> Schedulers, governors |-> Governors, min_freq |-> 30]

\* No boost frequency to read, and few schedulers and files.
OldIntel ==
  [Intel EXCEPT !.gpu_boost = FALSE, !.schedulers = {"mq-deadline"},
                !.files = {"aspm", "boost", "epb"}]

\* A driver without modes, whose governors are modules that are not all there.
Amd ==
  [vendor |-> "amd", pstate |-> FALSE, gpu |-> "apu", gpu_boost |-> FALSE, files |-> Files,
   schedulers |-> {"none"}, governors |-> {"schedutil", "performance"}, min_freq |-> 45]

\* A driver with modes, of which the passive one lacks what the active one offers.
ModalAmd ==
  [Amd EXCEPT !.pstate = TRUE, !.gpu = "amd", !.governors = {"ondemand", "performance"}]

MCMachines == {Intel, OldIntel, Amd, ModalAmd,
               [Amd EXCEPT !.vendor = "unknown", !.gpu = "none", !.files = {}]}
MCDevices == {mouse, webcam, disk}
MCHuman == {mouse, webcam}
MCWebcam == {webcam}
=============================================================================
