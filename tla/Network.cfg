CONSTANTS
    send = send
    main = main
    None = None
    Apps <- MCApps
    Prio <- MCPrio
    Cyclic <- MCCyclic
    Period <- MCPeriod
    Clock = 1
    OSQSize = 4
    NINPKT = 2
    ETH_RXBUFNB = 2
SPECIFICATION Spec
INVARIANTS PostAtOnce PoolKept TimersKept RingDrained
PROPERTIES MailIsQueue NeverPostponed
