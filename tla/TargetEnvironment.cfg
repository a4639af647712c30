SPECIFICATION Spec
CONSTANTS
    Endless = Endless
    Nil = Nil
    Operate <- MCOperate
    Applications <- MCApplications
    Directories <- MCDirectories
    Bundles <- MCBundles
    RealPath <- MCRealPath
    UserLink = Nil
    SecondLink = Nil
    ConfigurationFiles <- MCConfigurationFiles
    Tools <- MCTools
    Projects <- MCProjects
    User <- MCUser
    Variables <- MCVariables
    SearchPaths <- MCSearchPaths
    BuildSystems <- MCBuildSystems
    ProductTypes <- MCProductTypes
    PackageTypes <- MCPackageTypes
    Architectures <- MCArchitectures
    ArchitectureOrder <- MCArchitectureOrder
    ScriptTools = {"clang", "ld", "ibtool"}
    MaxChanges = 3
    LineLength = 4
INVARIANTS SwitchTakesEffect AskedToolsAreUsed EndlessOnlyForCircle LinesSurvive
ACTION_CONSTRAINT Explored
CHECK_DEADLOCK FALSE
