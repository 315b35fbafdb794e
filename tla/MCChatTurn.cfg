SPECIFICATION Spec
CONSTANTS
    onion = onion
    tomato = tomato
    rice = rice
    paste = paste
    NumTurns = 4
    Ingredients <- MCIngredients
    Menu <- MCMenu
    Homemade <- MCHomemade
    ReadyMade = paste
    Stocked <- MCStocked
    Posts <- AllPosts
    Endpoints = {"stream"}
    Overlap = FALSE
    Faulty = {2}
INVARIANTS
    TypeOK
    TicksComeFromThePantry
    RoutedOnOwnSignals
    LastCardCanBeAnswered
    CartCardIsOfThisTurn
    RecipeCardFollowsItsCart
PROPERTIES
    ImplementsDialogue
CONSTRAINT
    OneAside
CHECK_DEADLOCK FALSE
