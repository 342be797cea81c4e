SPECIFICATION Spec
CONSTANTS
  dashes = dashes
  heap = heap
  v1 = v1
  v2 = v2
  url = url
  Workers = {w1, w2}
  Slugs <- MCSlugs
  Titles <- MCTitles
  Texts <- MCTexts
  Blank <- MCBlank
  Slugify <- MCSlugify
  Links <- MCLinks
  Top = Top
  Teams = {t1}
  Orders = {1, 2}
  Requests <- MCRequests
  MayFail = TRUE
  None = None
SYMMETRY Symmetry
INVARIANT TypeOK
INVARIANT BytesKept
INVARIANT ExportRestores
PROPERTY OverwritesKeepBuyers
PROPERTY ReportMatchesDeed
