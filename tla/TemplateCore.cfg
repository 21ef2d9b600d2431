SPECIFICATION FhSpec
INVARIANT TemplateDumpsCore
CHECK_DEADLOCK FALSE
