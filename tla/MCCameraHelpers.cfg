SPECIFICATION FairSpec
CONSTANTS
    Listener <- MCListener
    Talker <- MCTalker
    Poller <- MCPoller
    Mode <- MCMode
    Count = 2
    AtOnce = 2
    MaxFaults = 2
INVARIANTS HelpersInv TalkReleased
PROPERTIES SeenLeaseKept ListenerRecovers
CHECK_DEADLOCK FALSE
