\* Two messages and two uploads, all deletions; the job is fair, the rest free.
SPECIFICATION FairSpec
CONSTANTS
    m1 = m1
    m2 = m2
    k1 = k1
    k2 = k2
    Messages = {m1, m2}
    Keys = {k1, k2}
    Plans <- SharedOrNot
INVARIANTS
    TypeOK
    SharedOnlyByOverlap
    AttachmentHasFile
PROPERTIES
    NoRowUnread
    OldMessagesGo
CHECK_DEADLOCK FALSE
