\* Two organisations, a team, members and roles; creations fail and crash.
CONSTANTS
    t1 = t1
    t2 = t2
    alice = alice
    bob = bob
    Thread = {t1, t2}
    Principal = {alice, bob}
    Root = Root
    Org = {o1, o2}
    Team = {m1}
    Resource = {x}
    Action = {"org.manage"}
    CustomRole = {"custom"}
    Op = {"CreateOrganization", "CreateTeam", "AddMember", "AddTeamMember", "CreateRole", "AssignRole", "RegisterOwnership", "Check"}
    MaxRequests = 5
    None = None
CHECK_DEADLOCK FALSE
SYMMETRY Symmetry
SPECIFICATION Spec
INVARIANTS AssignedWithinOrg CompleteOrGone CheckLinearizes
PROPERTIES OnlyMembersWrite ImplementsAuthority
