SPECIFICATION Spec
CONSTANTS
 Keys = {k1, k2}
 NoKey = NoKey
 NoOffer = NoOffer
 KeyIds = {0, 1}
 Deployments = {0, 1}
 MaxReports = 1

INVARIANT TypeOK
INVARIANT SignedOnly
INVARIANT OneOutcome
INVARIANT EventsNameTheirs
PROPERTY RotationVerifies
PROPERTY OneSession
