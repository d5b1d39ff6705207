SPECIFICATION FairSpec
CONSTANTS
    a = a
    m = m
    w1 = w1
    w2 = w2
    g = g
    Pods = {p1, p2}
    N = 3
    Bases = {a}
    Mails = {m}
    Passwords = {w1, w2}
    Subjects = {g}
    Inputs <- MCInputs
    MaxFaults = 1
INVARIANTS RegistrationsKept OneAccountPerIdentity EventsMatchAccounts TokensFit
PROPERTIES RequestsEnd RefinesDirectory
CHECK_DEADLOCK FALSE
