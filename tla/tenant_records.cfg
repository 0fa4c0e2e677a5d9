SPECIFICATION Spec
CONSTANTS
    Requests = {r1, r2}
    Users = {ua, ub, uc}
    Founder = ua
    Rival = ub
    Slugs = {"new", "second"}
    Sids = {s1}
    None = None
CHECK_DEADLOCK FALSE
INVARIANTS
    TenantsAreApart
    OrganizationsAreWhole
    AnswersAreTrue
PROPERTIES
    OnlyWhatWasNamed
