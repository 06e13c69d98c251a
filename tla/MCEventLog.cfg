\* Two writers, two streams, two command keys and batches that share an event.
CONSTANTS
    Streams = {s1, s2}
    Commands = {c1, c2}
    Hashes = {h1, h2}
    e1 = e1
    e2 = e2
    e3 = e3
    EventIDs = {e1, e2, e3}
    Writers = {w1, w2}
    Batches <- MCBatches
    MaxEvents = 3
    None = None
SPECIFICATION Spec
SYMMETRY WriterSymmetry
INVARIANTS
    StreamsAreGapless
    CommandsAreAtomic
    AnswersAreStored
    MutationsFollowCommands
