CONSTANTS
    rule = rule  said = said  confirmed = confirmed
    all = all  shop = shop  t = t
    Memory = {rule, said, confirmed}
    Target = {t}
    Place = {all, shop}
    Everywhere = all
    ScopeOrder <- Scopes
    FullScore = 2
    NoRow = noRow
    NoTarget = noTarget
    NoScore = noScore
    NoConflict = noConflict
    NoPreference = noPreference
    Row <- Rows
    Behavior <- Scores
    Budget <- Budgets
    NoBudget = noBudget
    PageSize = 2
    MaxCommits = 2
    RefreshIn = {"idle"}
SPECIFICATION Spec
INVARIANTS TypeOK ValidatorsAccept HardConstraintsKept ShownWasInForce BudgetFilled
PROPERTIES UserPrevails
