CONSTANTS
    git = git
    zip = zip
    setup = setup
    Checkout = {git, zip}
    Script = {setup}
    Repository = {git}
    Floating = {git}
    Tagged = {git}
    FileIn <- FileInRepository
    NoDependency = NoDependency
    Absent = Absent
    Partial = Partial
    None = None
    Never = Never
    Listings <- SomeListings
    Undeletable = {{}, {git}, {zip}}
    Faults = {{"push", "revert", "delete"}, {"offline", "fetch", "script", "late", "delete"},
              {"fetch", "script", "kill"}, {"annotated", "push", "revert", "delete"},
              {"annotated", "offline", "fetch", "script", "late"}}
    MaxVersion = 2
    MaxHead = 2
SPECIFICATION Spec
INVARIANTS DependenciesTypeOK CheckoutsMatch ScriptsFollow RecordAgrees
PROPERTY GoodCheckoutsAreKept
