SPECIFICATION Spec
CONSTANTS
    Users = {"author", "owner", "guest"}
    Owners = {"author", "owner"}
    Author = "author"
    c1 = c1
    c2 = c2
    Commits = {c1, c2}
    MaxReviews = 3
SYMMETRY CommitSymmetry
INVARIANTS
    PassNamesItsCommit
PROPERTIES
    ObjectionsStand
