-------------------------------- MODULE Session --------------------------------
(***************************************************************************)
(* The two doors in front of every request, the demo gate and the login,   *)
(* and the pages that lead a visitor through them to the booking page.     *)
(* Both are cookies with a lifetime: either may end at any moment, on any  *)
(* page.                                                                   *)
(***************************************************************************)

VARIABLES
    screen,  \* the page, and what it shows: "checking", "gate", "login" and
             \* "unreachable" are Home's, "list", "listed", "listError" EventList's
    gate,    \* is the gate cookie valid
    login    \* the login cookie: "none", "valid", or "gone" when its user is

sessionVars == <<screen, gate, login>>

(* The cookies may be those of an earlier session. *)
SessionInit ==
    /\ screen = "checking"
    /\ gate \in BOOLEAN
    /\ login \in {"none", "valid"}

(* The global guard comes before the guard of the route. *)
GateRefuses == ~gate
LoginRefuses == login # "valid"

Refusal ==
    CASE GateRefuses     -> "gate"
      [] login = "none"  -> "login"
      [] login = "gone"  -> "account"
      [] OTHER           -> "none"

(* checkStatus asks /auth/me, and tells the doors apart by the message. *)
CheckStatus ==
    /\ screen = "checking"
    /\ screen' = IF GateRefuses THEN "gate" ELSE IF LoginRefuses THEN "login" ELSE "list"
    /\ UNCHANGED <<gate, login>>

CheckFails ==
    /\ screen = "checking"
    /\ screen' = "unreachable"
    /\ UNCHANGED <<gate, login>>

Refresh ==
    /\ screen = "unreachable"
    /\ screen' = "checking"
    /\ UNCHANGED <<gate, login>>

(* A wrong password leaves the form with its error. *)
EnterGate ==
    /\ screen = "gate"
    /\ gate' = TRUE
    /\ screen' = "checking"
    /\ UNCHANGED login

LogIn ==
    /\ screen = "login"
    /\ login' = "valid"
    /\ screen' = "checking"
    /\ UNCHANGED gate

LoadList ==
    /\ screen = "list"
    /\ screen' = IF Refusal = "none" THEN "listed" ELSE "listError"
    /\ UNCHANGED <<gate, login>>

LogInAgain ==
    /\ screen = "listError"
    /\ screen' = "checking"
    /\ UNCHANGED <<gate, login>>

(* The cookie is cleared if the request passes the gate; the page goes     *)
(* home in any case.                                                       *)
ClearCookie == login' = IF GateRefuses THEN login ELSE "none"

LogOut ==
    /\ screen \in {"list", "listed", "listError"}
    /\ ClearCookie
    /\ screen' = "checking"
    /\ UNCHANGED gate

(* A token runs out, or the user's row is deleted. *)
Lapse ==
    /\ \/ gate' = FALSE /\ UNCHANGED login
       \/ login = "valid" /\ login' \in {"none", "gone"} /\ UNCHANGED gate
    /\ UNCHANGED screen

SessionStep ==
    \/ CheckStatus \/ CheckFails \/ Refresh
    \/ EnterGate \/ LogIn \/ LogOut
    \/ LoadList \/ LogInAgain
=============================================================================
