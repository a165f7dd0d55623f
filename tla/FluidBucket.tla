----------------------------- MODULE FluidBucket ------------------------------
(***************************************************************************)
(* The rate limit one client is promised (middleware/rate_limit.py): a     *)
(* bucket that fills while time passes, whether anybody asks or not, gives *)
(* a token as long as it holds one, and refuses only when it does not.     *)
(***************************************************************************)
EXTENDS Integers

CONSTANTS Size,   \* what the bucket holds
          Flow,   \* what one tick adds
          Token   \* what one request takes

VARIABLES level, reply

vars == <<level, reply>>

Init == level = Size /\ reply = "none"

Drip ==
    /\ level' = IF level + Flow < Size THEN level + Flow ELSE Size
    /\ UNCHANGED reply

Give == level >= Token /\ level' = level - Token /\ reply' = "allowed"

Refuse == level < Token /\ reply' = "refused" /\ UNCHANGED level

Next == Drip \/ Give \/ Refuse

Spec == Init /\ [][Next]_vars
===============================================================================
