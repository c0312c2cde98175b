-------------------------------- MODULE Answers --------------------------------
(***************************************************************************)
(* What the handler of a conversation state answers.  Every handler of     *)
(* app/state_machine/ has the form                                         *)
(*   (user, message, context) -> (response, new_state, context_update)     *)
(* and is modelled by the set of answers it can give, one for each way it  *)
(* can read the message: the state it moves to, the context keys it sets   *)
(* and clears, the operation it performs on the rest of the system, and    *)
(* the keys it reads from the context with a default, as if they could     *)
(* not be missing.  A state is named as in state_machine/states.py.        *)
(***************************************************************************)

Answer(to, put, drop, does, uses) ==
    [to |-> to, put |-> put, drop |-> drop, does |-> does, uses |-> uses]

Show(to) == Answer(to, {}, {}, "nothing", {})

Screens(states) == {Show(s) : s \in states}

Fill(to, put) == Answer(to, put, {}, "nothing", {})

Perform(to, does, uses) == Answer(to, {}, {}, does, uses)

(* A question of a form: an unusable reply is asked for again.             *)
Ask(here, next, put) == {Show(here), Fill(next, put)}

(* The same where the question after this one repeats earlier replies.     *)
AskOver(here, next, put, uses) == {Show(here), [Fill(next, put) EXCEPT !.uses = uses]}

(* The context after an answer: a key set to None is as good as absent.    *)
Updated(ctx, answer) == (ctx \cup answer.put) \ answer.drop

(* What handle_message leaves behind: the state, the context and what was  *)
(* done with which keys missing from the context the handler was given.    *)
Outcome(answer, before, after) ==
    [to |-> answer.to, ctx |-> after, does |-> answer.does, missing |-> answer.uses \ before]

(* transition_to, or force_state when the transition is not declared: both *)
(* merge context_update into the context.                                  *)
Merged(answer, ctx) == Outcome(answer, ctx, Updated(ctx, answer))
================================================================================
