SPECIFICATION Spec
INVARIANT UsersFindAll
INVARIANT NothingLeaks
