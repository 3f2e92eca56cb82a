CONSTANTS
  Paths = {"w", "./w", "s"}
  KeyOf <- MCKeyOf
  Manifests <- MCManifests
  FileSizes = {0, 4, 6}
  Bases = {32, 64, 128}
  MaxAlignmentExponent = 7
  SizeModulus = 16
  KiB = 3
  Meminfos <- MCMeminfos
  Runtimes <- MCRuntimes
  Bootstraps <- MCBootstraps
  EnvValues = {"", "off", "maybe"}
SPECIFICATION EnvSpec
INVARIANTS PlacementsDisjoint FilesAccounted ArenaHoldsManifest AddressesAligned BudgetIsExact
PROPERTY CopyNeverRefused
