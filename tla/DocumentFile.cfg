CONSTANTS
  Paths = {"psd", "psb", "capital"}
  Extension <- MCExtension
  Created <- MCCreated
  Sides = {30000, 30001}
  Resolutions = {65536}
  Profiles <- MCProfiles
  Others <- MCOthers
  MaxFiles = 1
SPECIFICATION Spec
INVARIANT OpensWhatWasSaved
INVARIANT ReadersAgree
