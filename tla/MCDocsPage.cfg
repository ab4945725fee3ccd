SPECIFICATION Spec
CONSTANTS
    Hosts = {"localhost", "192.0.2.1"}
    MaxAge = 2
    MaxRelease = 2
    BundleQuery <- Versions
    Rank <- RankInWalk
    Waiting = Waiting
    Lost = Lost
INVARIANT TypeOK
INVARIANT OwnPartsAreCurrent
INVARIANT OneReleaseAfterMaxAge
INVARIANT BreaksOnlyWhenLost
INVARIANT VersionProtectsBundle
