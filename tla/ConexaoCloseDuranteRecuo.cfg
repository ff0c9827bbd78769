SPECIFICATION ConexaoFairSpec
CONSTANTS
    Conns = {n1, n2, n3}
    Callbacks = {f1}
    NoConn = NoConn
PROPERTIES
    CloseEncerraMonitoramento
