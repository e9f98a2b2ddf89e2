------------------------------ MODULE MCWasmCache ------------------------------
EXTENDS WasmCache

CONSTANTS a, b

\* Every url has a key of its own.
OwnKeys == [u \in {a, b} |-> u]

================================================================================
