CONSTANTS
    WaitSecs <- MCWaitSecs
SPECIFICATION Spec
PROPERTY ExecutorEventuallyRegisters
PROPERTY CacheRpcServedOverBufnet
CHECK_DEADLOCK FALSE
