\* Two owners who remove each other, or a claim beside a change.
SPECIFICATION ControlSpec
CONSTANTS
    Editors = {e1}
    People = {p1, p2}
    FirstOwners = {p1, p2}
    MaxEdits = 0
    MaxChanges = 2
INVARIANT OwnerAlwaysRemains
CHECK_DEADLOCK FALSE
