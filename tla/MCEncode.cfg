SPECIFICATION Spec
CONSTANT Forms <- MCForms
CHECK_DEADLOCK FALSE
INVARIANT CodeMeansStatement
