SPECIFICATION PagesSpec
CONSTANTS
    e1 = e1
    h1 = h1
    r1 = r1
    maker = maker
    viewer = viewer
    Engines = {e1}
    Helpers = {h1}
    Readers = {r1}
    Proc <- OneOfEach
    MaxTime = 6
    MaxWrites = 3
    PageFacts <- Facts
    PageFindings <- FewRows
    PageTtl = 1
    PageRetention = 0
    PageTries = 1
    PageTime = 2
    PageCrashes = 1
INVARIANTS LastGoodIsGood ToolsBelongToRows
PROPERTIES ReadersCatchUp FreshAnalysisStays PolledSettles
CHECK_DEADLOCK FALSE
