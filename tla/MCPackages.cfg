CONSTANTS
  None = None
  Empty = Empty
  Broken = Broken
  Modules <- MCModules
  Versions = {1, 2}
  Codes = {"c", "d"}
  Requests = {r1, r2}
  Uploads <- MCUploads
  Redirects <- MCRedirects
  Featured <- MCFeatured
  Published <- MCPublished
  MaxPublish = 2
  MaxTime = 1
  Private = {}
  Installs <- MCInstalls
  Interval = 0
  MaxStarts = 2
SPECIFICATION PartsSpec
INVARIANTS AnswersStayGood FilesAreReleased UpdatedIsNotOutdated
PROPERTY ReleasesImmutable
SYMMETRY Symmetry
CHECK_DEADLOCK FALSE
