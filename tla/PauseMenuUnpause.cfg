\* The comment on the resume patch against repeated loads.
SPECIFICATION Spec
INVARIANTS
    UnpauseClears
