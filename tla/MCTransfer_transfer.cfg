CONSTANTS
    MaxBuild = 3
    Length <- Lengths
    MaxRetries = 2
    MaxFailures = 3
SPECIFICATION FairSpec
INVARIANTS TypeOK PublishedIsOneBuild DateOfContent
PROPERTIES ServedBytesKept CopyMirrors Converges
