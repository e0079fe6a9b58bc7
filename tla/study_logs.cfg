SPECIFICATION MCSpec
\* A log ends, and a context is built once.
CHECK_DEADLOCK FALSE
INVARIANTS ReadingsAgree CutHidesWhatFollows
