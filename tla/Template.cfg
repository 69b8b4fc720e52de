\* The parsing of the templates of MCTemplateParser, twice over.
CONSTANTS
    Templates <- MCTemplates
    Requests = 2
    Word = 16
    Whole = 10
    Memory = 14
    Junk = {0, 3}
SPECIFICATION Spec
INVARIANTS ReadyWhenAsked RowsOfTotal SeedIsCopied ParametersTwice LibraryHeldByRefused
CHECK_DEADLOCK FALSE
