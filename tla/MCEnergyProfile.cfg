CONSTANTS
  mouse = mouse
  webcam = webcam
  disk = disk
  Machines <- MCMachines
  Devices <- MCDevices
  Human <- MCHuman
  Webcam <- MCWebcam
  EcoCaps = {20, 80}
SPECIFICATION Spec
INVARIANT HistoryFree
INVARIANT GovernorFits
INVARIANT HumanDevicesAwake
