\* Small instances of five independent parts of the library.
SPECIFICATION Spec
CONSTANTS
    Leaf = {"a", "b", "c"}
    Calls <- MCCalls
    Children <- MCChildren
    Loop = {"l"}
    Private = {"p"}
    Impl = {"simple", "curl"}
    Option = {"o"}
    MaxClients = 3
    Spelling = {"Foo", "foo", "Bar"}
    Header = {"Foo", "Bar"}
    Normal <- MCNormal
    Text <- MCText
    Part = {"x", " x", "x "}
    LStripped <- MCLStripped
    RStripped <- MCRStripped
    MaxValues = 4
    Std = {"stdin", "stdout", "stderr"}
    MaxPipeFd = 7
    Code = {"en", "en_US", "fr"}
    Language <- MCLanguage
    Initial = "en_US"
INVARIANTS CachedAreOpen HeadersAgree PipesAreExact LookupsAgree
PROPERTIES MultiAnswers
CHECK_DEADLOCK FALSE
