\* A root, three more containers, two methods, two names and an alias; patterns of up to three
\* tokens and names of up to three characters: a, b, a dash, a star, a question mark, an exclamation
\* mark and an opening bracket.
CONSTANTS
    Containers = {root, c1, c2, c3}
    Methods = {m1, m2}
    Root = root
    Names = {a, b}
    MaxAliases = 1
    Parts = {"tree", "patterns"}
    MaxTokens = 3
    MaxName = 3
    Kinds = {"literal", "escape", "any", "one", "set", "others", "range", "list"}
    NameCharacters = {97, 98, 45, 42, 63, 33, 91}
SYMMETRY NodeSymmetry
SPECIFICATION MCSpec
\* The tree may have been destroyed, and nothing is followed further that went wrong; a pattern and
\* a name of the largest size are not continued.
CHECK_DEADLOCK FALSE
INVARIANTS
    TreeIsSound
    MessagesReachMethods
    PatternsMatchNames
