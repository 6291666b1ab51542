CONSTANTS
    None = None
    Gone = Gone
    Zones = {"z1", "z2"}
    JobDurations <- Durations
    MAX_RUN_DURATION = 86400
    Overrides <- OverrideChoices
    ZoneAllow <- AllowLists
    ZoneDeny <- DenyLists
SPECIFICATION Spec
INVARIANT OverridesKeepComputedFields
