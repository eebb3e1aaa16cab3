\* Refreshes from Linear with whatever a person wrote there.
SPECIFICATION BridgedSpec
CONSTANTS
    Anchor = {"Spec", "Plan", "Activity Log"}
    Entry = {1}
    Payload <- Payloads
    Remote <- AnyTexts
    MaxLines = 3
    MaxTask = 2
    MaxStep = 2
PROPERTY OthersUntouched
CHECK_DEADLOCK FALSE
