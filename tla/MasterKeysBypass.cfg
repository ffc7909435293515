SPECIFICATION Spec
CONSTANTS
    PhysKeys = {"Shift_Lock", "Control", "x"}
    Keysyms <- AllKeysyms
    Keysym <- KeysymOf
    Vks <- VkSet
    NoVk = NoVk
    Vk <- VkOf
    CtrlKeys = {"Control"}
    ShiftKeys = {"Shift"}
    AltKeys = {"Meta"}
    OrcaMods = {"Shift_Lock"}
    OwnCtrl = {"x"}
    OwnCtrlShift = {"X"}
    OwnAlt = {"x"}
    MaxQueue = 1
    MaxLost = 1
INVARIANTS HeldOnlyWhileDown
