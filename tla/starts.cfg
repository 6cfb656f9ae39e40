\* A booking is started, moved, confirmed, cancelled and reported on, its link changed
SPECIFICATION Spec
CONSTANTS
    w1 = w1  w2 = w2  l1 = l1  l2 = l2  t1 = t1  t2 = t2  k1 = k1
    pastExam = pastExam  pastDemo = pastDemo  missed = missed  exam = exam  demo = demo  later = later
    None = None
    Workers = {w1, w2}
    Bookings = {1, 2, 3}
    Invites = {}
    Classes = {1}
    Leads = {l1}
    Slots = {demo, later}
    Tutors = {t1}
    Links = {k1}
    SlotType <- Types
    SlotStart <- Starts
    Capacity <- OneSeat
    Phone <- Siblings
    DailyLimit = 5
    SlotLength = 2
    StartEarly = 1
    DayLength = 4
    Moments = {8, 11}
    Ops <- StartOps
    AtStart <- AssignedRow
INVARIANTS TypeOK MovedIsReplaced
PROPERTIES ImplementsAppointments
SYMMETRY WorkerSymmetry
CHECK_DEADLOCK FALSE
