----------------------------- MODULE Conversation -----------------------------
(***************************************************************************)
(* What a client of the Bolt server relies on: it may send requests before *)
(* earlier ones are answered, and every request gets one answer, in the    *)
(* order of the requests, of a kind that fits it, unless the connection    *)
(* is closed.                                                              *)
(***************************************************************************)
EXTENDS Naturals, Sequences

CONSTANTS
    Kind,       \* kinds of requests
    Fitting     \* kind -> the answers that fit it

VARIABLES
    waiting,    \* requests without an answer, oldest first: [id, kind]
    answered,   \* the request that was answered last, and how: [id, how]
    open        \* the client has not noticed the connection closed

Init == waiting = <<>> /\ answered = [id |-> 0, how |-> ""] /\ open = TRUE

\* A new request is the last of those that wait.
Ask ==
    LET new == waiting'[Len(waiting')]
    IN  /\ open
        /\ waiting' # <<>> /\ waiting' = Append(waiting, new)
        /\ new.kind \in Kind
        /\ UNCHANGED <<answered, open>>

\* An answer is for the oldest request.
Answer ==
    /\ open /\ waiting # <<>>
    /\ \E how \in Fitting[Head(waiting).kind] : answered' = [id |-> Head(waiting).id, how |-> how]
    /\ waiting' = Tail(waiting)
    /\ UNCHANGED open

HangUp == open /\ open' = FALSE /\ waiting' = <<>> /\ UNCHANGED answered

Next == Ask \/ Answer \/ HangUp

Spec == Init /\ [][Next]_<<waiting, answered, open>>
=============================================================================
