\* Every description of up to four lines, ten payloads.
SPECIFICATION DescSpec
CONSTANTS
    Anchor = {"Spec", "Plan", "Activity Log"}
    Entry = {1}
    Payload <- Payloads
    Remote <- ClosedTexts
    MaxLines = 4
    MaxTask = 2
    MaxStep = 2
INVARIANTS LintMeansTickable CopyIsFresh
PROPERTIES OthersUntouched EntriesStay
CHECK_DEADLOCK FALSE
