------------------------------ MODULE MCOsStream ------------------------------
EXTENDS OsStream

CONSTANTS a, b

================================================================================
