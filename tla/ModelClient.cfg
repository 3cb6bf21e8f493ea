SPECIFICATION Spec
CONSTANTS
    groq = groq
    groqFallback = groqFallback
    a1 = a1
    a2 = a2
    s1 = s1
    s2 = s2
    Agents = {a1, a2}
    Providers = {groq, groqFallback}
    Listed <- MCListed
    Work <- MCWork
    Slots = 1
    Interval = 1
    Cooldown = 1
    Retries = 1
    Threshold = 0
    RetryAfters = {1}
INVARIANTS
    RunsComplete
PROPERTIES
    SpacingKept
    RequestsEnd
