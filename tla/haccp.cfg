SPECIFICATION MCSpec
CONSTANTS
    Fridge = Fridge
    Oven = Oven
    Floor = Floor
    Milk = Milk
    Boss = Boss
    Cook = Cook
    k1 = k1
    k2 = k2
    k3 = k3
    k4 = k4
    o1 = o1
    Equipment = {Fridge, Oven}
    Task = {Floor}
    Ingredient = {Milk}
    WeeklyTask = {Floor}
    AdminTask = {Floor}
    CheckedAt <- AtBoth
    Admin = {Boss}
    Staff = {Cook}
    Key = {k1, k2, k3, k4}
    Order = {o1}
    MaxDay = 3
    Cycle = 2
    Anchor = 1
    MaxRev = 2
    MaxSnap = 1
    Mixes = {"Proofs", "Weeks", "Forgot", "Retries", "Orders"}
INVARIANTS
    CompleteIsProven
    OneDayAtATime
    AnswersStillTrue
PROPERTY
    OrdersWhileOpen
CHECK_DEADLOCK FALSE
