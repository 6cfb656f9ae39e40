\* A chapter exam is moved while it is cancelled or its result recorded
SPECIFICATION SpecRecords
CONSTANTS
    root = root  second = second  other = other  grantOne = grantOne  grantTwo = grantTwo
    child1 = child1  child2 = child2  lesson = lesson  extra = extra  chapter = chapter
    Handlers = {h1, h2}
    Users = {root, second, other}
    Superusers = {root, second}
    StaffRoles = {"ADMIN", "TUTOR", "MENTOR"}
    Admin = "ADMIN"
    Allowed <- AllowedFor
    Mentoring = {}
    Booked = {}
    MaxFailures = 2
    Lockout = 1
    Posted <- PostedForms
    Nobody = Nobody
    MaxClock = 3
    AccountsAtStart <- TeamsAtStart
    Tasks = {t1, t2}
    Parents = {e1, e2}
    Children = {child1, child2}
    Invitations = {1, 2}
    Cells <- CellSet
    Blank = Blank
    Words = Words
    None = None
    EnrolmentAtStart <- SheetsAtStart
    Servers = {s1, s2}
    Classes = {lesson}
    Extras = {extra}
    Exams = {chapter}
    LastPart = 2
    Nothing = Nothing
    SchoolworkAtStart <- WorksAtStart
    Pages = {p1, p2}
    Authors = {a1, a2}
    Texts = {x, y}
    Unwritten = Unwritten
    NoOne = NoOne
    MaxVersions = 4
INVARIANTS ExamStaysOver
CHECK_DEADLOCK FALSE
