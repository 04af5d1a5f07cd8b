CONSTANTS
    Clips <- MCClips
    Picture <- MCPicture
    Plain <- MCPlain
    Paste = {1, 2}
    Suppress = 2
    KeyDelay = 1
    MaxQueue = 2
    Hider = {h1}
    Debounce = 1
    CloseGuard = 2
    AutoHide = 1
    MaxTasks = 2
    Actions <- MCActions
    Slot = {0, 1, 2, 3}
    Key = {"k1", "k2"}
    Odd = "odd"
    DefaultKeys <- MCDefaultKeys
    MaxOwner = 2
    MaxSignals = 2
    NoPaste = NoPaste
    Starts <- MCStarts
SPECIFICATION Spec
INVARIANTS TypeOK UndisturbedReadIsFaithful OwnWriteNotCaptured DeafOnlyAroundPaste UserCopyKept KeysNotIntoPopup NoDoubleBinding RegisteredMeansBound ForeignRowsKept ExitReleasesKeys OneActivationPerPress
PROPERTIES ToggleFlips ExitCompletes
CHECK_DEADLOCK FALSE
