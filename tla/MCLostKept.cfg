SPECIFICATION SpiritSpec
CONSTANTS
    Recalls = {r1, r2}
    StudyAfter = 1
    LostAfter = 4
    MaxLag = 0
    MaxJobs = 2
    MaxVisits = 2
PROPERTY LostEndsByRecall
