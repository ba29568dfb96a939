SPECIFICATION Spec
CONSTANTS
    Configs <- MCConfigs
    Images <- MCImages
    Requests <- MCRequests
    Disks <- MCDisks
    Readings <- MCReadings
    Detections <- MCDetections
    Matches <- MCMatches
    Captions <- MCCaptions
INVARIANTS
    TypeOK
    StatusMatchesWhatRan
    CompletedMeansNothingFailed
    FailedSawNothing
    TagsRestOnEvidence
    EnoughTags
    NoShareDecides
PROPERTIES
    NeverMissingOncePromised
