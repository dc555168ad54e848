CONSTANTS
    Hole = Hole
    Soon = 1
    Lag = 2
    MaxTime = 8
    Ticks <- MCTicks
    Delays = {0, 2}
    Durations = {2}
    MaxRedraws = 3
    LastRedraw = 2
    Scales <- MCScales
    Pages <- MCPages
    Size = 2
    Mouse <- MCMouse
    Nothing = Nothing
    Elements = {1, 2}
    Elsewhere = Elsewhere
    Places = {0, 1, 2, 4}
    Nobody = Nobody
    Areas = {1, 2}
    MaxLevel = 1
    High = 8
    Spots = {0, 4, 8}
    Fingers = {1, 2}
    Missing = Missing
    Names = {"a", "b"}
    MaxOns = 4
    MaxDepth = 2
    Words = {"a", "b", "c"}
    Style <- MCStyle
    TextsOf <- MCTexts
    Bits = 4
    Width = 10
    Height = 5
    CanvasCells = 3
    CanvasHeight = 6
    Positions <- MCPositions
    MaxStarts = 2
    Absent = Absent
    None = None
    DomainValues = {"u", "v", "w"}
    Domains <- MCDomains
    Colours <- MCColours
    Length = 420
    Pixels = {7}
    MaxScales = 2
    MaxCalls = 3
    NotANumber = NotANumber
    Arrays <- MCArrays
    Values = {0, 1, 2, 3, 4}
    Half = 8
SPECIFICATION MCSpec
CHECK_DEADLOCK FALSE
INVARIANTS
    AxisSettles
    AnimationEnds
    ExtentInRange
    AnchorIsEdge
    ClickAfterDragIsCancelled
    PointsStay
    EveryListenerCalledOnce
    EventIsOwn
    WordsAreDisjoint
    CloudGoesOn
    ValuesAreToldApart
    Partitions
