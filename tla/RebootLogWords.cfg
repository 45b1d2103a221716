SPECIFICATION LogSpec
CONSTANTS
    PowerOn = poweron
    Reasons = {poweron, task_wdt, brownout}
    NoReason = NoReason
    MaxBoots = 4
INVARIANT ReasonOnEveryBoot
