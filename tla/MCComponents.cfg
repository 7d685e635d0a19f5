SPECIFICATION FairSpec
CONSTANTS
  Order <- MCOrder
  Ver = {1, 2}
  Minecraft = "minecraft"
  Loaders = {"loader"}
  Mappings = "mappings"
  Builtin <- MCBuiltin
  Metadata <- MCMetadata
  EditsWhileLoading = FALSE
  MaxEdits = 3
INVARIANTS TypeOK ResolvedIsLaunchable
PROPERTIES InjectedBefore ResolveEnds
