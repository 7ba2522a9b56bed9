\* Four windows, any channel group missing, any call failing; any three of five
\* media, one of each kind the walk tells apart, and a transfer on the way;
\* lists of up to three messages, sizes on both sides of the static buffer's.
SPECIFICATION MCSpec
CONSTANTS
    Groups = 3
    MaxSamples = 21
    Media <- MCMedia
    NoName = ""
    MaxPlugged = 3
    MaxWork = 1
    Messages <- MCMessages
    MaxMessages = 3
    Garbage <- MCGarbage
    Slack = 5
    StaticSize = 9
    Header = 2
    Header2 = 4
INVARIANTS
    Ownership
    LeakIsOnce
    NothingHeld
    SampleIsOfTheRegistry
    SampleIsOfTheCall
PROPERTY ReadingEnds
\* A reading of the interfaces ends.
CHECK_DEADLOCK FALSE
