---------------------------- MODULE RequestStream ----------------------------
(***************************************************************************)
(* What the asynchronous engine promises to those that call it: a call is  *)
(* refused, or it is a stream of its own request's tokens, in order and    *)
(* from the first, that grows until it ends or fails, once.  An open       *)
(* stream does not stay open for ever.                                     *)
(***************************************************************************)
EXTENDS Naturals, Sequences

CONSTANTS Call, MaxTokens

VARIABLES phase,    \* call -> new, refused, open, ended or failed
          received  \* call -> the tokens its consumer has

streams == <<phase, received>>

Token(c, k) == <<c, k>>
Tokens(c, n) == [k \in 1 .. n |-> Token(c, k)]

Init ==
    /\ phase = [c \in Call |-> "new"]
    /\ received = [c \in Call |-> << >>]

Open(c) ==
    /\ phase[c] = "new"
    /\ phase' = [phase EXCEPT ![c] = "open"]
    /\ UNCHANGED received

Refuse(c) ==
    /\ phase[c] = "new"
    /\ phase' = [phase EXCEPT ![c] = "refused"]
    /\ UNCHANGED received

Grow(c) ==
    /\ phase[c] = "open"
    /\ \E n \in Len(received[c]) .. MaxTokens[c] : received' = [received EXCEPT ![c] = Tokens(c, n)]

Continue(c) == Grow(c) /\ UNCHANGED phase
End(c)      == Grow(c) /\ phase' = [phase EXCEPT ![c] = "ended"]

Fail(c) ==
    /\ phase[c] = "open"
    /\ phase' = [phase EXCEPT ![c] = "failed"]
    /\ UNCHANGED received

Next == \E c \in Call : Open(c) \/ Refuse(c) \/ Continue(c) \/ End(c) \/ Fail(c)

Spec == Init /\ [][Next]_streams /\ \A c \in Call : WF_streams(End(c) \/ Fail(c))
=============================================================================
