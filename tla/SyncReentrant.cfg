SPECIFICATION Spec
CONSTANTS
    text = text  spine = spine  slot1 = slot1  slot2 = slot2
    Widgets = {text, spine}
    Slots = {slot1, slot2}
    Callbacks = {spine}
INVARIANTS
    NoLostChange
