SPECIFICATION Spec
CONSTANTS
    text1 = text1
    text2 = text2
    plugin = plugin
    plugin2 = plugin2
    NoPlugin = NoPlugin
    Absent = Absent
    Torn = Torn
    Items <- MCItems
    Names <- MCNames
    Plugins = {plugin, plugin2}
    Texts = {text1, text2}
    KindOf <- MCKindOf
    NameOf <- MCNameOf
    PluginOf <- MCPluginOf
    RankOf <- MCRankOf
    Stem <- MCStem
    AgentStem <- MCAgentStem
    SafePlugin <- MCSafePlugin
    Render <- MCRender
    CursorEvents = {"foo"}
    ClaudeDoc = "CLAUDE"
    ParamSets <- MCParamSets
    InitialSources <- MCSources
    InitialRich = {{}, {plugin}}
    MaxSyncs = 2
    MaxEdits = 1
    MaxFaults = 1
INVARIANTS
    TypeOK
    
    CompanionsFollowTheirSkill
PROPERTIES
    ResyncChangesNothing
    SkipExistingKeepsTarget
CHECK_DEADLOCK FALSE
