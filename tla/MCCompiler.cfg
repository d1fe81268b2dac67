SPECIFICATION CompilerSpec
CONSTANTS
    Vocabulary <- MCVocabulary
    Sigs <- MCSigs
    Word = "w"
    Cycle = {}
    Variants <- MCVariants
    MaxBody <- MCMaxBody
PROPERTY TypesSound
INVARIANTS AnalysesExact LintsHonest CodeAgrees FunctionsWellFormed DecisionsSound
CHECK_DEADLOCK FALSE
