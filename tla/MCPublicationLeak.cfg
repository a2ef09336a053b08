SPECIFICATION SpecWorkspaces
CONSTANTS
    Systems = {w1, w2}  Names = {x1, x2}  Definitions = {"plain", "reshaped"}  Neutral = "plain"
    Structure <- DefinitionStructure  CategoriesOf <- DefinitionCategories  FallbackOf <- DefinitionFallback
    SavedJournees = {sj1}  MaxVersion = 2  MaxOpen = 2
PROPERTY PublicationStaysInside
CHECK_DEADLOCK FALSE
