\* Two children are booked and moved into the same slots while they are closed and opened
SPECIFICATION Spec
CONSTANTS
    w1 = w1  w2 = w2  l1 = l1  l2 = l2  t1 = t1  t2 = t2  k1 = k1
    pastExam = pastExam  pastDemo = pastDemo  missed = missed  exam = exam  demo = demo  later = later
    None = None
    Workers = {w1, w2}
    Bookings = {1, 2, 3, 4}
    Invites = {}
    Classes = {}
    Leads = {l1, l2}
    Slots = {missed, exam, demo, later}
    Tutors = {}
    Links = {}
    SlotType <- Types
    SlotStart <- Starts
    Capacity <- OneSeat
    Phone <- Siblings
    DailyLimit = 5
    SlotLength = 2
    StartEarly = 1
    DayLength = 4
    Moments = {4}
    Ops <- ChildOps
    AtStart <- MissedRow
INVARIANTS OneHolderPerSeat LeadInOnePlace NoCircularWait
SYMMETRY LeadSymmetry
CHECK_DEADLOCK FALSE
