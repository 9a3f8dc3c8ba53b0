-------------------------------- MODULE RootTurn --------------------------------
(***************************************************************************)
(* What the activation of the root agent promises to the conversation of a *)
(* completed job: the model is asked at most once, and the conversation    *)
(* sees either its answer or one message that there is none, never both.   *)
(***************************************************************************)
EXTENDS Naturals

CONSTANT Activation

VARIABLES
    stage, \* "waiting", "asked", "answering", "answered", "owing", "told", "dropped"
    calls, \* model turns run for the activation
    said   \* what the conversation shows: "nothing", "reply", "fallback"

vars == <<stage, calls, said>>

Init ==
    /\ stage = [a \in Activation |-> "waiting"]
    /\ calls = [a \in Activation |-> 0]
    /\ said  = [a \in Activation |-> "nothing"]

Move(a, from, to) ==
    /\ stage[a] = from
    /\ stage' = [stage EXCEPT ![a] = to]
    /\ UNCHANGED <<calls, said>>

\* The decision to ask is recorded before the model is called.
Ask(a) == Move(a, "waiting", "asked")

Call(a) ==
    /\ stage[a] = "asked"
    /\ calls[a] = 0
    /\ calls' = [calls EXCEPT ![a] = 1]
    /\ UNCHANGED <<stage, said>>

Answer(a) == calls[a] = 1 /\ Move(a, "asked", "answering")

\* Without an answer the conversation is owed a message, or, when nobody is
\* allowed to see one, nothing.
GiveUp(a) ==
    \/ Move(a, "waiting", "owing")
    \/ Move(a, "asked", "owing")
    \/ Move(a, "waiting", "dropped")
    \/ Move(a, "answering", "dropped")

\* A message whose post was never confirmed may appear late.
Say(a) ==
    /\ said[a] = "nothing"
    /\ \/ stage[a] \in {"answering", "dropped"} /\ said' = [said EXCEPT ![a] = "reply"]
       \/ stage[a] = "owing" /\ said' = [said EXCEPT ![a] = "fallback"]
    /\ UNCHANGED <<stage, calls>>

Close(a) ==
    \/ said[a] = "reply" /\ Move(a, "answering", "answered")
    \/ said[a] = "fallback" /\ Move(a, "owing", "told")

Next == \E a \in Activation :
            Ask(a) \/ Call(a) \/ Answer(a) \/ GiveUp(a) \/ Say(a) \/ Close(a)

Spec == Init /\ [][Next]_vars
=============================================================================
