SPECIFICATION Spec
CONSTANTS
    h1 = h1  h2 = h2
    r1 = r1  r2 = r2  r3 = r3
    Host = {h1, h2}
    Request = {r1, r2, r3}
    HostOf <- MCHostOf
    NoTurn = NoTurn
    ReviewTurn = ReviewTurn
    Pauses = 2
INVARIANTS TypeOK TurnsFollowPhases PausedCanBeAsked
PROPERTIES OwnerDecides AnswersAreTimely
