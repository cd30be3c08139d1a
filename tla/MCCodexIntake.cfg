CONSTANTS
    Id = Id
    None = None
    Remote = Remote
    openai = openai
    p1 = p1
    p2 = p2
    d1 = d1
    d2 = d2
    u1 = u1
    Providers = {openai}
    Ports = {p1, p2}
    Dirs = {d1, d2}
    UserHooks = {u1}
    Events = {"SessionStart"}
    StartConfigs <- SomeHomes
    StartAuths <- SomeAuths
    StartProxies <- FirstUp
    MaxEdits = 1
    Sessions = {"s1"}
    SecondTicks = 2
    FallBackAt = 99
    FallBack = 2
    Window = 1
    MaxClock = 4
    MaxPrompts = 2

SPECIFICATION Spec
CHECK_DEADLOCK FALSE

INVARIANTS
    UsersHooksKept
    CommandsSettle
    VerdictsAreSound
    OverrideIsNoticed
