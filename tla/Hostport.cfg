CONSTANTS
    Inputs <- AllInputs
    DefaultPort = 33
    Addresses <- Known
    Answers <- TwoAnswers
    Configurations <- AllConfigurations
    Ports = {0, 1, 80, 65535}
SPECIFICATION Spec
INVARIANTS ParsesGrammar PrintedIsParsed
