---------------------------- MODULE Configuration ----------------------------
(***************************************************************************)
(* A pad's configuration (src/config.rs) and its older layout, of firmware *)
(* before version 5 (src/device.rs, OldSmxConfig): what travels between    *)
(* the two, and in which direction.                                        *)
(*                                                                         *)
(* A field is one element, whatever its bytes, and "panel_3" stands for    *)
(* the two load cell thresholds of panel 3.  The SDK's SmxConfig is a      *)
(* function of the names of its fields.  Sizes are counted in elements.    *)
(***************************************************************************)
EXTENDS Protocol

\* The fields of SmxConfig, in the order in which firmware 5 stores them, except
\* that "fsr" has what stands after the load cells of each panel.
Layout == <<
  "master_version", "config_version", "flags", "debounce_nodelay_ms",
  "debounce_delay_ms", "panel_debounce_us", "auto_calibration_max_deviation",
  "bad_sensor_minimum_delay_seconds", "auto_calibration_averages_per_update",
  "auto_calibration_samples_per_average", "auto_calibration_max_tare",
  "enabled_sensors", "auto_lights_timeout", "step_color",
  "platform_strip_color", "auto_light_panel_mask", "panel_rotation", "panel_0",
  "panel_1", "panel_2", "panel_3", "panel_4", "panel_5", "panel_6", "panel_7",
  "panel_8", "fsr", "pre_details_delay_ms", "padding", "padding2" >>

\* OldSmxConfig; master_debounce_ms is called what it becomes.  The padding is
\* in two parts because there are pads whose configuration ends after 128
\* bytes.
OldLayout == <<
  "unused1", "debounce_nodelay_ms", "panel_7", "panel_4", "panel_2",
  "panel_debounce_us", "auto_calibration_period_ms",
  "auto_calibration_max_deviation", "bad_sensor_minimum_delay_seconds",
  "auto_calibration_averages_per_update", "unused7", "panel_1",
  "enabled_sensors", "auto_lights_timeout", "step_color", "panel_rotation",
  "auto_calibration_samples_per_average", "master_version", "config_version",
  "unused9", "panel_0", "panel_3", "panel_5", "panel_6", "panel_8",
  "debounce_delay_ms", "padding_to_128", "padding_to_250" >>

ShortSize == Len(OldLayout) - 1   \* 128 bytes

Fields    == ToSet(Layout)
OldFields == ToSet(OldLayout)
Spare     == OldFields \ Fields   \* the bytes the SDK has no use for

\* The field's place in a layout, and its value in a configuration of that
\* layout.
Place(layout, field)     == CHOOSE i \in DOMAIN layout : layout[i] = field
At(layout, bytes, field) == bytes[Place(layout, field)]

Zeroed == [f \in Fields |-> 0]
NoVersion == 255   \* config_version of a pad that has none

LaterPanels == {"panel_0", "panel_3", "panel_5", "panel_6", "panel_8"}
Versions    == {"master_version", "config_version"}

\* The fields an old configuration has, by its version: convert_to_new_config
\* returns early.  (The mutant returns one version too early.)
Unversioned ==
  (OldFields \cap Fields) \ (LaterPanels \cup Versions \cup {"debounce_delay_ms"})

CarriedLater(version) ==
  Unversioned
    \cup (IF version = NoVersion THEN {} ELSE Versions)
    \cup (IF version \in 3..(NoVersion - 1) THEN LaterPanels ELSE {})
    \cup (IF version \in 4..(NoVersion - 1) THEN {"debounce_delay_ms"} ELSE {})
Carried(version) ==
  Unversioned
    \cup (IF version = NoVersion THEN {} ELSE Versions)
    \cup (IF version \in 2..(NoVersion - 1) THEN LaterPanels ELSE {})
    \cup (IF version \in 3..(NoVersion - 1) THEN {"debounce_delay_ms"} ELSE {})

\* handle_config_packet pads a short one with zeros before it converts it.
ConvertToNew(bytes, config) ==
  LET old     == Resized(bytes, Len(OldLayout), 0)
      carried == Carried(At(OldLayout, old, "config_version"))
  IN  [f \in Fields |->
        IF f \in carried THEN At(OldLayout, old, f) ELSE config[f]]

\* All fields are written, over what was last read, and as much is sent as the
\* pad has, but 128 bytes at least.  (The mutant writes over zeros.)
ConvertToOldFresh(config, raw) ==
  [i \in 1..Max({Len(raw), ShortSize}) |->
    IF OldLayout[i] \in Fields THEN config[OldLayout[i]] ELSE 0]
ConvertToOld(config, raw) ==
  LET old == Resized(raw, Max({Len(raw), ShortSize}), 255)
  IN  [i \in DOMAIN old |->
        IF OldLayout[i] \in Fields THEN config[OldLayout[i]] ELSE old[i]]

\* A configuration of firmware 5 is copied as it stands, both ways, as much of
\* it as comes.
CopyToNew(bytes, config) ==
  [f \in Fields |->
    IF Place(Layout, f) <= Len(bytes) THEN At(Layout, bytes, f) ELSE config[f]]

AsBytes(config) == [i \in DOMAIN Layout |-> config[Layout[i]]]

=============================================================================
