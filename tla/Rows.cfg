\* The rows of the tables of MCRowProduction.
CONSTANTS
    Templates <- MCTemplates
    Bits = 4
    Half = 2
    Byte = 8
SPECIFICATION Spec
INVARIANTS FieldsOfRow SeedKept
CHECK_DEADLOCK FALSE
