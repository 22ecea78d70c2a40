SPECIFICATION Spec
CONSTANTS
    k1 = k1  k2 = k2
    c1 = c1  c2 = c2  c3 = c3
    p1 = p1  p2 = p2
    alice = alice  bob = bob
    m1 = m1  m2 = m2  m3 = m3
    NoPolicy = NoPolicy
    NoTrustDomain = NoTrustDomain
    ILL_FORMED = ILL_FORMED
    Calls <- MCCalls2
    Certificates <- MCCertificates
    NotAfter <- MCNotAfter
    TrustDomain <- MCTrustDomain
    ServiceHosts <- MCServiceHosts
    Audiences <- MCAudiences
    PublicKeys <- MCPublicKeys
    Publishers <- MCPublishers
    Identities <- MCIdentities
    Materials <- MCMaterials
    Requests <- Requests2
    PolicyFiles <- MCPolicyFiles
    MAX_APPROVED_PUBLISHERS = 1
    MaxChanges = 1
    MaxFaults = 1
CHECK_DEADLOCK FALSE
INVARIANTS
    InvalidArgumentMeansInvalidRequest
