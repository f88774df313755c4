\* Two machines of the demo chain or of the example chain, one authority, slots of four ticks: validators and full nodes.
CONSTANTS
    Nodes = {n1, n2}
    FirstHolder = n1
    Services = {"demo", "dev"}
    Chain = "dev"
    Configs <- MCConfigs
    SLOT_DURATION = 4
SPECIFICATION FairSpec
INVARIANTS TypeOK OneSignerPerKey 
PROPERTIES NoCrippledNode
