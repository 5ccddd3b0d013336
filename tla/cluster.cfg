CONSTANTS
    Nodes = {n1, n2, n3}
    SessionIds = {s1}
    Duplicates = FALSE
    Limits <- Scenarios
    n1 = n1  n2 = n2  n3 = n3  s1 = s1
SPECIFICATION Spec
SYMMETRY Symm
INVARIANTS ElectionSafety LogOrdered TableFollowsLog
PROPERTIES TermsNeverGoBack
CHECK_DEADLOCK FALSE
