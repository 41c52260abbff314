SPECIFICATION Spec
CONSTANTS
    a1 = a1
    e1 = e1
    e2 = e2
    i1 = i1
    m1 = m1
    Agents = {a1}
    Tokens <- MCTokens
    AgentOf <- MCAgentOf
    Subjects <- MCSubjects
    Calls = {r1, r2}
    None = None
    Members = {m1}
    Enrolments = {e1, e2}
    MemberOf <- MCMemberOf
    FingerOf <- MCFingerOf
    MaxConsents = 2
INVARIANTS
    TokenServesOnce
    NoConsentNoCredential
    ClosedEnrolmentKillsToken
PROPERTIES
    RevokedAgentConsumesNothing
    OnlyOvertakenCallsOverwrite
SYMMETRY Symmetry
CHECK_DEADLOCK FALSE
