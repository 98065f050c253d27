SPECIFICATION Spec
CONSTANTS
    Clients = {a, b, c}
INVARIANTS  RequestUnderstood UploadKept TablesConsistent TimeoutsServed 
PROPERTY CallsComplete
CHECK_DEADLOCK FALSE
