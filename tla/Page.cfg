SPECIFICATION PageSpec
CONSTANTS
    dark = dark
    osm = osm
    esri = esri
    ion = ion
    none = none
    Types = {dark, osm, esri, ion}
    Dark = dark
    Remote = {esri, ion}
    NoType = none
    MaxLoads = 2
    plugin = plugin
    iptables = iptables
    here = here
    there = there
    Modes = {plugin, iptables}
    Kernel = iptables
    Places = {here, there}
    china = china
    cleared = cleared
    Countries = {china, cleared}
    Cleared = cleared
    Home = china
    NoForm = NoForm
    MaxCalls = 2
    f1 = f1
    f2 = f2
    t1 = t1
    t2 = t2
    Files = {f1, f2}
    blank = blank
    Texts = {t1, t2, blank}
    Blank = blank
    CutTo <- Leftovers
    TemplateOf <- Templates
    Nothing = Nothing
    MaxScriptCalls = 2
    Visits = {{}, {"settings"}, {"lua"}}
INVARIANTS
    LayersFollowTheChoice
    ConsoleShowsWhatIsSaved
    CleanMeansSaved
CHECK_DEADLOCK FALSE
