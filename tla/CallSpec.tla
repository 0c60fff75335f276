------------------------------ MODULE CallSpec ------------------------------
(***************************************************************************)
(* What ChargePoint.Call promises its callers, without numbers, maps,      *)
(* channels or locks: a call that was opened ends either answered, by a    *)
(* reply the charge point made to that very call, or failed.               *)
(***************************************************************************)
CONSTANTS
  Callers,  \* the goroutines that call ChargePoint.Call, once each
  Frames,   \* the messages the charge point sends on the connection
  None      \* no frame

VARIABLES
  status,   \* status[c]: where the call of c stands
  answer,   \* answer[c]: the frame the call of c returned, or None
  heard     \* heard[c]: the frames by which the charge point answered c

vars == <<status, answer, heard>>

Init ==
  /\ status = [c \in Callers |-> "idle"]
  /\ answer = [c \in Callers |-> None]
  /\ heard  = [c \in Callers |-> {}]

(* The caller enters Call. *)
Open(c) ==
  /\ status[c] = "idle"
  /\ status' = [status EXCEPT ![c] = "open"]
  /\ UNCHANGED <<answer, heard>>

(* The charge point answers an open call, or one that was already given    *)
(* up, any number of times.                                                *)
Hear(c, f) ==
  /\ status[c] # "idle"
  /\ \A d \in Callers : f \notin heard[d]
  /\ heard' = [heard EXCEPT ![c] = @ \union {f}]
  /\ UNCHANGED <<status, answer>>

(* Call returns one of the replies to it. *)
Answer(c) ==
  /\ status[c] = "open"
  /\ \E f \in heard[c] : answer' = [answer EXCEPT ![c] = f]
  /\ status' = [status EXCEPT ![c] = "answered"]
  /\ UNCHANGED heard

(* Call returns an error: the write failed, 30 s passed, or the connection *)
(* went away.                                                              *)
Fail(c) ==
  /\ status[c] = "open"
  /\ status' = [status EXCEPT ![c] = "failed"]
  /\ UNCHANGED <<answer, heard>>

Next ==
  \E c \in Callers :
    \/ Open(c)
    \/ \E f \in Frames : Hear(c, f)
    \/ Answer(c)
    \/ Fail(c)

Spec == Init /\ [][Next]_vars
=============================================================================
