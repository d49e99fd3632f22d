SPECIFICATION Spec
CONSTANTS
    j1 = j1
    j2 = j2
    t3 = t3
    Alert = {a1}
    Job = {j1}
    Task = {t1, t2}
    JobOf <- MCJobOf
    Criteria <- MCCriteria
    FromCrawl = {t1}
    Frequency = {"IMMEDIATE", "DAILY"}
    Attempts = 2
    MaxStalled = 1
    Keep = 20
    TaskSlots = 2
    EmailSlots = 2
    Days = 2
    Week = 2
    MaxFaults = 1
    MaxEdits = 1
INVARIANTS
    TypeOK
    NotifiedMeansSent
    SentOncePerOffer
    OfferedOnce
    CountedAtMostOnce
    CarriedUntilFault
    OneDigestPerPeriod
PROPERTIES
    KeepsLedger
CHECK_DEADLOCK FALSE
