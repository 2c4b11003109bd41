SPECIFICATION MCSpec
CONSTANTS
  None = None
  Images = {i1, i2}  Layers = 2  Hosts = {registry, auth1, cdn}  Registry = registry  MaxHops = 2  Budget = 2
  Entries <- LayerEntries  Removed <- RemovedPaths  Opaque <- OpaquePaths
  MaxLayers = 2  MaxLength = 3  MaxNodes = 6  MaxLinks = 3  MaxParts = 2  Up = Up
  HostVms = {v1, v2}  HostNetworks = {n1, n2}  Subnets <- MCSubnets  HostAddresses = {9}  Uids = {1, 2}
  Tabs = {t1, t2}  Drafts <- ConfigDrafts  HostFiles <- ConfigFiles  Override <- NoTtl  Redacted = Redacted
  Assets = {oci, img}  OciAssets = {oci}  DiskDefinitions <- MCDiskDefinitions  MaxRuns = 2  MaxStrays = 1  Torn = Torn
  FileNames = {f1, f2}  Bundles = {b1}  Machines = {m1, m2}  Networks <- MCNetworks
  NetworkNames = {"a", "b", "c"}  VmAddresses = {"x", "y"}  Bodies = {y1, y2}  Policies = {s1, s2}  MaxMoment = 1  MaxChanges = 4  Jailed = TRUE  Foreign = Foreign
  Values = {1, 2}  MaxWrites = 2  MaxEdits = 2  Broken = Broken
  s1 = s1  s2 = s2  oci = oci  img = img  n1 = n1  n2 = n2  f1 = f1  m1 = m1  y1 = y1
INVARIANTS TypeOK ImagesHold GuestsHold EditsHold
CHECK_DEADLOCK FALSE
