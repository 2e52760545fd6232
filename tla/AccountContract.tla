--------------------------- MODULE AccountContract ---------------------------
(***************************************************************************)
(* The account as its callers may think of it: every attempt at a code or  *)
(* a password, every lock and every verification takes effect at once, on  *)
(* the account as it is at that moment, as if it were alone.  There are no *)
(* versions, snapshots or retries here.                                    *)
(*                                                                         *)
(* What is asked of the event handlers is part of the contract: a reported *)
(* failure is open until somebody has found nothing to lock or locked the  *)
(* account, a consumed signup link until the account is verified.  Where   *)
(* nobody listens, both are dropped.                                       *)
(***************************************************************************)
EXTENDS Naturals

CONSTANTS TotpThreshold, PwThreshold

VARIABLES status, window, codeFails, pwFails,
          alarms,       \* failures reported and not yet looked at
          signupDue,    \* a consumed signup link nobody has acted upon
          heard         \* whether anybody listens to either

account      == <<status, window, codeFails, pwFails>>
contractVars == <<account, alarms, signupDue, heard>>

Init ==
    /\ status \in {"unverified", "verified"} /\ window = "none"
    /\ codeFails = 0 /\ pwFails = 0
    /\ alarms = 0 /\ signupDue = FALSE /\ heard \in BOOLEAN

Refused == window = "future"

\* An attempt that succeeds, or is the first after the window, ends the lock.
Unlock == window' = "none" /\ status' = IF status = "locked" THEN "verified" ELSE status
Lock   == window' = "future" /\ status' = "locked"

-----------------------------------------------------------------------------

\* Counted from one, or added to what led to the lock: an attempt that reads
\* the clock at the very end of the window does not end the lock.
WrongCode ==
    /\ ~Refused
    /\ \/ codeFails' = codeFails + 1 /\ UNCHANGED <<status, window>>
       \/ window = "past" /\ codeFails' = 1 /\ Unlock
    /\ alarms' = alarms + 1
    /\ UNCHANGED <<pwFails, signupDue, heard>>

RightCode == ~Refused /\ codeFails' = 0 /\ Unlock /\ UNCHANGED <<pwFails, alarms, signupDue, heard>>

\* Counted from one after a window; locks at the threshold by itself.
WrongPassword ==
    /\ ~Refused
    /\ pwFails' = IF window = "past" THEN 1 ELSE pwFails + 1
    /\ IF pwFails' >= PwThreshold THEN Lock ELSE Unlock
    /\ UNCHANGED <<codeFails, alarms, signupDue, heard>>

RightPassword == ~Refused /\ pwFails' = 0 /\ Unlock /\ UNCHANGED <<codeFails, alarms, signupDue, heard>>

WindowEnds ==
    /\ Refused /\ window' = "past"
    /\ UNCHANGED <<status, codeFails, pwFails, alarms, signupDue, heard>>

-----------------------------------------------------------------------------

NothingToLock == Refused \/ codeFails < TotpThreshold

\* An alarm may sound again after it was answered: events are delivered at
\* least once.
AnswerAlarm ==
    /\ heard /\ alarms > 0
    /\ IF NothingToLock THEN UNCHANGED account ELSE Lock /\ UNCHANGED <<codeFails, pwFails>>
    /\ alarms' \in {alarms - 1, alarms}
    /\ UNCHANGED <<signupDue, heard>>

ConsumeSignup == signupDue' = TRUE /\ UNCHANGED <<account, alarms, heard>>

Verify ==
    /\ heard /\ signupDue
    /\ status' = IF status = "unverified" THEN "verified" ELSE status
    /\ signupDue' \in BOOLEAN
    /\ UNCHANGED <<window, codeFails, pwFails, alarms, heard>>

\* Nobody listens: the report is dropped, and the account stays as it is.
Drop ==
    /\ ~heard
    /\ \/ alarms > 0 /\ alarms' = alarms - 1 /\ UNCHANGED signupDue
       \/ signupDue /\ signupDue' = FALSE /\ UNCHANGED alarms
    /\ UNCHANGED <<account, heard>>

Next ==
    \/ WrongCode \/ RightCode \/ WrongPassword \/ RightPassword \/ WindowEnds
    \/ AnswerAlarm \/ ConsumeSignup \/ Verify \/ Drop

Spec == Init /\ [][Next]_contractVars
=============================================================================
