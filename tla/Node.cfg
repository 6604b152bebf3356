SPECIFICATION NodeSpec
CONSTANTS
    Caller = {c1, c2, c3}
    User = {u1, u2, u3}
    Mail = {m1, m2, m3}
    Handler = {h1, h2}
    Count = {"threats", "rules"}
    Fetch = {x1, x2}
    StatsTtl = 2
    QueryTime = 1
    MaxNow = 4
    MaxChanges = 2
INVARIANTS SettingFollows FiguresAreRecent
PROPERTIES RootStays ChangesAreAsked InvalidatedIsGone
CHECK_DEADLOCK FALSE
