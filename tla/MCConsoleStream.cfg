\* Pages of two and a channel of one, so that a log of four needs several pages and a
\* send that waits.
CONSTANTS
    PageSize = 2
    ChannelSize = 1
    MaxEntries = 4
    MaxDrops = 2
    MaxFailures = 1
SPECIFICATION ConsoleSpec
INVARIANTS
    SeenIsThePublicLog
    ParkedIsUpToDate
PROPERTY
    EventsArrive
