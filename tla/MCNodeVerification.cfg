SPECIFICATION NodeFairSpec
CONSTANTS
    Threads = {t1, t2, t3}
    Learning = {t3}
CHECK_DEADLOCK FALSE
 
PROPERTIES VerificationKept CallsEnd
