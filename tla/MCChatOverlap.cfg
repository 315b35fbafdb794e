SPECIFICATION FairSpec
CONSTANTS
    onion = onion
    tomato = tomato
    rice = rice
    paste = paste
    NumTurns = 3
    Ingredients <- MCIngredients
    Menu <- OneDish
    Homemade <- OneName
    ReadyMade = paste
    Stocked <- MCStocked
    Posts <- RacePosts
    Endpoints = {"post"}
    Overlap = TRUE
    Faulty = {}
INVARIANTS
    NothingBoughtUnasked
    PausesAreShown
PROPERTIES
    AnswersLeadToACart
CHECK_DEADLOCK FALSE
