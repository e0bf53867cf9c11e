CONSTANTS
    NoDisplay = NoDisplay
    Chars <- MCChars
    LowerCase <- MCLowerCase
    Plugins <- MCPlugins
    Lists <- MCLists
    Searches <- MCSearches
SPECIFICATION Spec
INVARIANT SearchFindsLabels
