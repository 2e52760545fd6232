SPECIFICATION Spec
CONSTANTS
    s1 = s1
    a1 = a1
    c1 = c1
    c2 = c2
    None = None
    Sessions <- MCSessions
    Admins <- MCAdmins
    Calls <- MCCalls
    MaxMint <- MCMaxMint
SYMMETRY MCSymmetry
INVARIANTS TypeOK OneSessionPerRealm StrandedOnlyByRace
PROPERTIES ImplementsContract ActsForItsPage CsrfRefusalsHaveReasons
