SPECIFICATION MCSpec
CONSTANTS
    n1 = n1
    f1 = f1
    f2 = f2
    t1 = t1
    t2 = t2
    Conns = {n1, n2, n3}
    Callbacks = {f1, f2}
    NoConn = NoConn
    Tasks = {t1, t2}
    Chans = {h1, h2}
    Requests <- MCRequests
    None = None
    Default = Default
    x = x
    m1 = m1
    m2 = m2
CHECK_DEADLOCK FALSE
INVARIANTS
    ConexaoTypeOK
    OneOpenConnection
    ReconnectsInOrder
    TypeOK
    EntregaFiel
    ChannelInOrder
PROPERTIES
    MonitorReturns
    NoticedLossIsRepaired
    PublisherReturns
    ImplementsPublicacao
