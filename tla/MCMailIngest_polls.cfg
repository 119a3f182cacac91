\* Two mails, two pollers that overlap, the webhook and one accident.
CONSTANTS
    l1 = l1
    l2 = l2
    p1 = p1
    p2 = p2
    Unknown = Unknown
    NoLot = NoLot
    Lots = {l1, l2}
    Pollers = {p1, p2}
    Mails <- SomeMails
    MaxMails = 2
    MaxOffers = 1
    MaxAccidents = 1

SPECIFICATION IngestSpec
CHECK_DEADLOCK FALSE

INVARIANT RowsBounded
INVARIANT RoutedAsNamed
PROPERTY MailSettles
