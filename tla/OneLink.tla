-------------------------------- MODULE OneLink --------------------------------
(***************************************************************************)
(* What a session that keeps a stream promises: it has one link at a time, *)
(* and each one it loses is tried again once, after a delay that grows     *)
(* with the number lost, until it is stopped or refused.                   *)
(***************************************************************************)
EXTENDS Naturals

VARIABLES
    link,   \* what the session is at
    lost    \* links lost since start, stop or the last frame

vars == <<link, lost>>

Init == link = "off" /\ lost = 0

Start   == link = "off" /\ link' = "dialing" /\ lost' = 0
Stop    == link' = "off" /\ lost' = 0
Connect == link = "dialing" /\ link' = "connecting" /\ UNCHANGED lost
Opened  == link = "connecting" /\ link' = "open" /\ UNCHANGED lost
Hear    == link = "open" /\ UNCHANGED link /\ lost' = 0
Lose    == link \in {"connecting", "open"} /\ link' = "waiting" /\ lost' = lost + 1
Retry   == link = "waiting" /\ link' = "dialing" /\ UNCHANGED lost
Refused == link = "open" /\ link' = "refused" /\ UNCHANGED lost

Next == Start \/ Stop \/ Connect \/ Opened \/ Hear \/ Lose \/ Retry \/ Refused
Spec == Init /\ [][Next]_vars
=============================================================================
