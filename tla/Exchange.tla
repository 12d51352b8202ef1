------------------------------- MODULE Exchange -------------------------------
(***************************************************************************)
(* What a connection promises a client it serves faithfully: the pieces of *)
(* its answers are given in the order of its requests, each piece once, no *)
(* piece before the request it answers was sent; what is given is passed   *)
(* to the kernel as there is room, and a connection is not given up before *)
(* everything given has been passed.  How requests are read, in which      *)
(* pieces and on which event anything happens is not said here.            *)
(***************************************************************************)
EXTENDS Integers, Sequences, SequencesExt

CONSTANT Room      \* pieces the kernel holds for a client that does not read

VARIABLES
    replies,   \* the answer each request of the client calls for, in pieces
    patient,   \* does the client wait for an answer before it asks again?
    asked,     \* how many requests were sent
    given,     \* the pieces given in answer
    passed,    \* how many of them the kernel has taken
    taken,     \* how many of those the client has read
    open       \* is the connection there?

vars == <<replies, patient, asked, given, passed, taken, open>>

(* The answers to the first n requests.                                    *)
Due(n) == FlattenSeq([i \in 1 .. n |-> replies[i]])

Init ==
    /\ asked = 0 /\ given = <<>> /\ passed = 0 /\ taken = 0
    /\ open = TRUE

Ask ==
    /\ open /\ asked < Len(replies)
    /\ patient => taken = Len(Due(asked))
    /\ asked' = asked + 1
    /\ UNCHANGED <<replies, patient, given, passed, taken, open>>

Give ==
    /\ open /\ Len(given) < Len(Due(asked))
    /\ given' = Append(given, Due(asked)[Len(given) + 1])
    /\ UNCHANGED <<replies, patient, asked, passed, taken, open>>

Pass ==
    /\ open
    /\ \E n \in 1 .. Len(given) - passed :
          passed + n <= taken + Room /\ passed' = passed + n
    /\ UNCHANGED <<replies, patient, asked, given, taken, open>>

Take ==
    /\ taken < passed
    /\ taken' = taken + 1
    /\ UNCHANGED <<replies, patient, asked, given, passed, open>>

Quit ==
    /\ open /\ passed = Len(given)
    /\ open' = FALSE
    /\ UNCHANGED <<replies, patient, asked, given, passed, taken>>

Next == Ask \/ Give \/ Pass \/ Take \/ Quit

Spec == Init /\ [][Next]_vars
=============================================================================
