CONSTANTS
  ALT_MAX_FD = 6
  Devices <- MCDevices
  Console = "/dev/jtag_uart_0"
  TxSize = 2
  RxSize = 2
  MaxCount = 2
  Modes <- MCModes
  Tunable = {0}
  Alarms = {"a1", "a2"}
  Wrap = 5
  Delays = {0, 3}
  Periods = {0, 2}
SPECIFICATION MCSpec
INVARIANT OneOwner
