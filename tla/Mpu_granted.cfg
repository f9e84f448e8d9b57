\* The boot loader's own profiles.
SPECIFICATION MpuSpec
CONSTANTS
    RtosConfigs = {}
    ExtraRegions = {}
INVARIANT
    GrantedAsAsked
