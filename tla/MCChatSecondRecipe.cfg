SPECIFICATION Spec
CONSTANTS
    onion = onion
    tomato = tomato
    rice = rice
    paste = paste
    NumTurns = 4
    Ingredients <- MCIngredients
    Menu <- MCMenu
    Homemade <- MCHomemade
    ReadyMade = paste
    Stocked <- MCStocked
    Posts <- CorePosts
    Endpoints = {"stream"}
    Overlap = FALSE
    Faulty = {}
INVARIANTS
    BuysOnlyThisRecipe
CHECK_DEADLOCK FALSE
