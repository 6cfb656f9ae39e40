\* Classes, students and staff; or a lead's messages; by two transactions at a time
SPECIFICATION SpecLocks
CONSTANTS
    w1 = w1  w2 = w2  m1 = m1  m2 = m2  t1 = t1  t2 = t2
    movedDemo = movedDemo  newDemo = newDemo  diagnostic = diagnostic
    ackEarlier = ackEarlier  ackLater = ackLater  askLater = askLater  ackOther = ackOther
    None = None
    Workers = {w1, w2}
    Students = {1, 2}
    Mentors = {m1, m2}
    Tutors = {t1, t2}
    Classes = {1, 2, 3}
    Windows <- Times
    Requests <- Asked
    Changes <- Changed
    Handovers <- HandedTo
    Quota <- Quotas
    Exams <- LateExam
    Now = 1
    AtStart <- Situations
    Writers = {w1, w2}
    Messages = {ackEarlier, ackLater, askLater, ackOther}
    LeadBookings = {movedDemo, newDemo, diagnostic}
    About <- EachAbout
    Acknowledgements = {ackEarlier, ackLater, ackOther}
    Demos = {movedDemo, newDemo}
    Chain <- Moved
    Nil = Nil
    MessagesAtStart <- LeadSituations
INVARIANTS StudentInOnePlace TutorInOnePlace StudentsHaveActiveStaff  RowByRow CirclesOnlyBySettling
SYMMETRY WorkerSymmetry
CHECK_DEADLOCK FALSE
