\* Pages of two entries and trees cut off after eight.
CONSTANTS
  Order <- MCOrder
  PageSize = 2
  TreeLimit = 8
  TplNames = {"web.tpl"}
  Names <- MCNames
  Ext <- MCExt
  KFiles <- MCKFiles
  KFile = "kustomization.yaml"
  Entries <- MCEntries
  Worlds <- MCWorlds
  Heads <- MCHeads
  Listings <- MCListings
  Conventional <- MCConventional
  YamlNames <- MCYamlNames
SPECIFICATION Spec
INVARIANTS TypeOK NoPartLost RightArtifact LeadsWhereAsked PinnedOrNewest BuilderFinds WalkedOnce
PROPERTIES Ends
CHECK_DEADLOCK FALSE
