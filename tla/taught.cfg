\* A Diagnostic and its invitations, or a Demo and its Re-Demo
SPECIFICATION Spec
CONSTANTS
    w1 = w1  w2 = w2  l1 = l1  l2 = l2  t1 = t1  t2 = t2  k1 = k1
    pastExam = pastExam  pastDemo = pastDemo  missed = missed  exam = exam  demo = demo  later = later
    None = None
    Workers = {w1, w2}
    Bookings = {1, 2, 3}
    Invites = {1, 2}
    Classes = {}
    Leads = {l1}
    Slots = {pastExam, pastDemo, missed, demo, later}
    Tutors = {t1, t2}
    Links = {}
    SlotType <- Types
    SlotStart <- Starts
    Capacity <- OneSeat
    Phone <- Siblings
    DailyLimit = 5
    SlotLength = 2
    StartEarly = 1
    DayLength = 4
    Moments = {4}
    Ops <- AfterOps
    AtStart <- TaughtRow
INVARIANTS InviteUsedOnce OneRedemoPerRequest
SYMMETRY WorkerSymmetry
CHECK_DEADLOCK FALSE
