SPECIFICATION FairSpec
CONSTANTS
  usb = usb
  wifi = wifi
  Devices = {usb, wifi}
  NoDevice = NoDevice
  MaxCalls = 2
  MaxFaults = 1
INVARIANTS
  TypeOK
PROPERTIES
  ConnectedWorks
CHECK_DEADLOCK FALSE
