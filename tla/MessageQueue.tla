---------------------------- MODULE MessageQueue ----------------------------
(***************************************************************************)
(* What a queue between the host and the GMU promises: messages come out   *)
(* once, whole, and in the order in which they went in.                    *)
(***************************************************************************)
EXTENDS Sequences

CONSTANT Messages

VARIABLES
    content,   \* the messages that were sent and not received
    taken      \* the last one received

Init == content = <<>> /\ taken = <<>>

Send == \E m \in Messages : content' = Append(content, m) /\ UNCHANGED taken

Receive ==
    /\ content # <<>>
    /\ taken' = Head(content)
    /\ content' = Tail(content)

Spec == Init /\ [][Send \/ Receive]_<<content, taken>>
=============================================================================
