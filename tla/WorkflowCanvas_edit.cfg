\* One editor, five blocks with the trigger, four edits between opening and saving while misp-modules comes and goes.
CONSTANTS
    enrich = enrich
    stop = stop
    trigger = trigger
    Module = {enrich, stop}
    Outs <- Outputs
    Fan = {}
    External = {enrich}
    Trigger = trigger
    Blueprint <- Prints
    Frame = {f1}
    MaxId = 5
    MaxEdits = 4
SPECIFICATION Spec
INVARIANTS TypeOK Fresh Wired  StoredRuns SavedShown
PROPERTY NodesSurvive
CHECK_DEADLOCK FALSE
