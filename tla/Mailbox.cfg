SPECIFICATION MailboxSpec
CONSTANTS
    t1 = t1
    t2 = t2
    Senders = {t1, t2}
    MaxSends = 4
INVARIANTS
    OwnReplyUntilFailure
