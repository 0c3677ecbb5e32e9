CONSTANTS
    send = send
    main = main
    None = None
    Apps <- MCApps
    Prio <- MCPrio
    Cyclic <- MCCyclic
    Period <- MCPeriod1
    Clock = 2
    OSQSize = 3
    NINPKT = 1
    ETH_RXBUFNB = 1
SPECIFICATION FairSpec
PROPERTIES CallsAnswered TimersFire
