CONSTANT HelloLimit = 5
SPECIFICATION FairSpec
INVARIANTS ReceiveChainAlive  RefusedAfterAllHellos
PROPERTY ConnectCompletes
CHECK_DEADLOCK FALSE
