CONSTANTS
    send = send
    main = main
    None = None
    Apps <- MCApps
    Prio <- MCPrio
    Cyclic <- MCCyclic
    Period <- MCPeriod
    Clock = 1
    OSQSize = 3
    NINPKT = 1
    ETH_RXBUFNB = 2
SPECIFICATION TSpec
PROPERTIES TimersNotEarly
