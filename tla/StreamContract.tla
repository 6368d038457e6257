---------------------------- MODULE StreamContract ----------------------------
(***************************************************************************)
(* What a guest that reads a network stream is promised: chunks in order,  *)
(* none skipped, then one end; and the end is "finished" only when the     *)
(* server's response was complete and all of it has been read.             *)
(***************************************************************************)
EXTENDS Naturals

CONSTANTS MaxChunks, None

VARIABLES
    sent,  \* chunks the server's response has had so far
    ended, \* how the response ended: "ok", or "err"
    got,   \* chunks the guest has read
    told   \* the end the guest was told

contract == <<sent, ended, got, told>>

Init == sent = 0 /\ ended = None /\ got = 0 /\ told = None

\* A chunk that cannot be taken fails the response.
Arrive ==
    /\ ended = None /\ sent < MaxChunks
    /\ sent' = sent + 1 /\ ended' \in {None, "err"}
    /\ UNCHANGED <<got, told>>

End == ended = None /\ ended' \in {"ok", "err"} /\ UNCHANGED <<sent, got, told>>

Read == told = None /\ got < sent /\ got' = got + 1 /\ UNCHANGED <<sent, ended, told>>

Tell ==
    /\ told = None
    /\ told' \in {"finished", "failed", "expired", "cancelled"}
    /\ told' = "finished" => ended = "ok" /\ got = sent
    /\ UNCHANGED <<sent, ended, got>>

Next == Arrive \/ End \/ Read \/ Tell

Spec == Init /\ [][Next]_contract
=============================================================================
