SPECIFICATION Spec
CONSTANTS
  MaxPayload = 12
  NumPanels = 2
  ByteBits = 1
  Sensors = 2
  LevelBits = 2
  DipBits = 1
  PanelCount = 2
  PanelColumns = 2
  OuterSide = 2
  Slots = 2
  MaxColors = 2
  MaxData = 4
  Pads <- MCPads
  Uses <- MCUses
  Firmware <- MCFirmware
  Factory <- MCFactory
  Changes = {"panel_0", "debounce_delay_ms", "step_color"}
  Readings <- MCReadings
  Gifs <- MCGifs
  MaxSets = 1
  MaxModes = 1
  MaxRequests = 1
  MaxReplugs = 1
  MaxStalls = 1
  MaxLosses = 1
  MaxLate = 1
  Slow = TRUE
INVARIANT WholePackets
INVARIANT OwnSettings
INVARIANT SpareBytesKept
INVARIANT ReadingExact
INVARIANT UploadWhole
CHECK_DEADLOCK FALSE
