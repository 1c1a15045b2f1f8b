SPECIFICATION Spec
CONSTANTS
    MaxClientId = 3
    ServerStart = 10
    MaxServerId = 10
    HandshakeId = 20
    ClientInterfaces = {"surface"}
    ServerInterfaces = {"data_offer"}
    QueueBound = 2
INVARIANTS
    TypeOK
    NeverPanics
    InterfacesAgree
PROPERTIES
    IdsComeBack
