------------------------------ MODULE Delivery ------------------------------
(***************************************************************************)
(* What the control client promises for the commands it is sent, whatever  *)
(* connection they come by: the abstract specification that Control        *)
(* implements.  A command is run unless its result is still remembered.    *)
(* The result is then either kept, until the controller has it, or lent to *)
(* the one direct response that carries it, which may be lost.             *)
(***************************************************************************)
EXTENDS Naturals

CONSTANT Cmds   \* command identifiers

VARIABLES
    remembered, \* commands whose result is remembered
    kept,       \* results kept for the controller
    lent,       \* results in a direct response
    answered,   \* commands whose result the controller has
    runs,       \* how often each command was run
    forgotten,  \* commands that were remembered once and no longer
    dropped     \* commands whose direct response was lost

memory == <<remembered, runs, forgotten>>
deliveryVars == <<memory, kept, lent, answered, dropped>>

DeliveryInit ==
    /\ remembered = {} /\ kept = {} /\ lent = {} /\ answered = {}
    /\ runs = [c \in Cmds |-> 0] /\ forgotten = {} /\ dropped = {}

\* Memory is bounded: others may be forgotten to remember c.
Retain(rest) ==
    /\ remembered' = rest
    /\ forgotten' = forgotten \cup (remembered \ rest)

Recall(c) == c \in remembered /\ UNCHANGED memory
Run(c) ==
    /\ c \notin remembered
    /\ runs' = [runs EXCEPT ![c] = @ + 1]
    /\ \E rest \in SUBSET remembered : Retain(rest \cup {c})

\* A command of a stream or a poll.
Keep(c) ==
    /\ Recall(c) \/ Run(c)
    /\ kept' = kept \cup {c}
    /\ UNCHANGED <<lent, answered, dropped>>

\* A command of a direct request.
Lend(c) ==
    /\ lent = {}
    /\ Recall(c) \/ Run(c)
    /\ lent' = {c}
    /\ UNCHANGED <<kept, answered, dropped>>

\* The controller receives results that are kept ...
Receive ==
    /\ \E ids \in SUBSET kept : answered' = answered \cup ids
    /\ UNCHANGED <<memory, kept, lent, dropped>>

\* ... which need not be kept any longer.
Release ==
    /\ \E ids \in SUBSET (kept \cap answered) : kept' = kept \ ids
    /\ UNCHANGED <<memory, lent, answered, dropped>>

Respond ==
    /\ lent' = {}
    /\ \/ answered' = answered \cup lent /\ UNCHANGED dropped
       \/ dropped' = dropped \cup lent /\ UNCHANGED answered
    /\ UNCHANGED <<memory, kept>>

\* Reports are remembered too, in the place of commands.
Evict ==
    /\ \E rest \in SUBSET remembered : Retain(rest)
    /\ UNCHANGED <<runs, kept, lent, answered, dropped>>

DeliveryNext ==
    \/ \E c \in Cmds : Keep(c) \/ Lend(c)
    \/ Receive \/ Release \/ Respond \/ Evict

DeliverySpec == DeliveryInit /\ [][DeliveryNext]_deliveryVars

-----------------------------------------------------------------------------
(* Properties. *)

\* A command that was run has its result with the controller, kept for it or
\* on its way in a direct response, unless such a response was lost.
ResultRetained ==
    \A c \in Cmds : runs[c] > 0 => c \in answered \cup kept \cup lent \cup dropped

\* A command is run again only after it was forgotten.
AtMostOnce ==
    \A c \in Cmds : runs[c] > 1 => c \in forgotten

=============================================================================
