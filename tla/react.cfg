SPECIFICATION ReactSpec
CONSTANTS
  MaxRecorders = 2
  MaxScans = 2
  MaxInstances = 2
  MaxDiscards = 1
  Files = {f1, f2}
  Analyzers = {local, remote}
  Remote = {remote}
  None = None
  MaxWrites = 2
  MaxRequests = 2
  MaxDisclosures = 2
  MaxWork = 5
  MaxConsumers = 2
  PhotoStores = {"trips", "other"}
  PhotoKeys = {1, 2}
  MaxRenders = 2
  MaxUrls = 3
  MaxDrafts = 3
  MaxSaves = 4
  Contexts = {"trips", "other"}
  MaxContexts = 2
  MaxChanges = 1
  MaxLists = 4
SYMMETRY FileSymmetry
INVARIANTS
  WorkIsFollowed
  PhotosAreCurrent
  OneTripPerDraft
  ListIsFresh
PROPERTIES
  HookFollowsItsRecorder
  CandidateKept
  LeavesAsAgreed
CHECK_DEADLOCK FALSE
