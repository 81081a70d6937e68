SPECIFICATION FairSpec
CONSTANTS
    Calls = {a, b}
    Student = student
    Admin = admin
    Names = {student, ann, admin}
    Passwords = {p, q}
    StudentPassword = p
    AdminPassword = q
    Salts = {default, other}
    DefaultSalt = default
    Seeder = Seeder
    Nobody = Nobody
    NoRow = NoRow
    Environments <- OneOfEach
    MaxFaults = 2
INVARIANTS
    TypeOK
    ServesSeeded
    AnswersAreTrue
PROPERTIES
    KeepsAccounts
    ComesBack
CHECK_DEADLOCK FALSE
