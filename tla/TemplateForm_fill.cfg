\* Three templates: two galaxy fields; two tag fields and an attribute; an attribute and files. Seven things done.
CONSTANTS
    victim = victim
    tlp = tlp
    phase = phase
    actor = actor
    tool = tool
    sample = sample
    amber = amber
    lure = lure
    apt = apt
    rat = rat
    Attr = {victim}
    Tag = {tlp, phase}
    Galaxy = {actor, tool}
    FileField = {sample}
    Template <- MCTemplate
    Mandatory = {victim, actor, sample}
    Several = {victim, tool, sample}
    Fits <- MCFits
    Comma = Comma
    Typed = {apt, Comma}
    File = {f1, f2}
    None = None
    MaxRows = 2
    MaxPicks = 2
    MaxActs = 7
SPECIFICATION Spec
INVARIANTS FormTypeOK NeverLockedOut NoSecondEvent FilesOwn PickersTell
CHECK_DEADLOCK FALSE
