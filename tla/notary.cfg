SPECIFICATION NotarySpec
CONSTANT Anchors <- MCAnchors
CONSTANT BlockShapes <- MCBlockShapes
CONSTANT MaxLeaves = 3
CONSTANT MaxFaults = 2
INVARIANT ValidMeansAnchored HonestCertificateValid AuditPathExact
CHECK_DEADLOCK FALSE
