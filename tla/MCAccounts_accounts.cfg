SPECIFICATION Spec
CONSTANTS
    People <- MCPeople
    Browsers = {1, 2}
    Visitors = {"ana", "bia", "caio"}
    LoginLimit = 2
    MfaLimit = 2
    MaxChallenges = 4
    MaxSessions = 4
    Scenarios <- MCScenarios
    Roles = {"ADMIN"}
    MaxInvites = 2
    Admins = {"root"}
    FirstUsers <- MCFirstUsers
    FirstMembers <- MCFirstMembers
    FirstInvites <- MCFirstInvites
INVARIANTS TypeOK InviteMakesOneMember EnabledAfterConfirmed
PROPERTIES KilledSessionStaysDead LastOwnerEndsInRace
CHECK_DEADLOCK FALSE
