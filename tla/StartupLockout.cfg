SPECIFICATION Spec
CONSTANTS
    None = None
    Databases = {"panel.db", "pg"}
    Default = "panel.db"
    Postgres = {"pg"}
    Posts = {1, 2}
    Kinds <- MCKinds
    MaxStops = 2
INVARIANT SomebodyCanLogIn
CHECK_DEADLOCK FALSE
