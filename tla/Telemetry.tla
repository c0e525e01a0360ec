----------------------------- MODULE Telemetry ------------------------------
(***************************************************************************)
(* Telemetry over a negotiated stream (internal/control/stream.go): each   *)
(* sample is sent as a delta against the last snapshot the controller has  *)
(* acknowledged.  One delta is outstanding at a time; samples taken in the *)
(* meantime are dropped.  All of this state belongs to one connection.     *)
(* The controller applies deltas with ApplyObservationDelta, which this    *)
(* repository defines, and acknowledges each by its sequence number.       *)
(***************************************************************************)
EXTENDS Delta

CONSTANTS
    Observations,   \* what a sample can be, before its depth is checked
    MaxSample       \* the largest sequence number of a sample (2^64 - 1 in the code)

ASSUME TelemetryAssumption ==
    /\ MaxSample \in Nat \ {0} /\ MaxDepth \in Nat
    /\ Nil \notin Observations /\ \A o \in Observations : IsObservation(o)

VARIABLES
    telemetryBase,      \* the acknowledged snapshot, Nil before the first
    telemetryPending,   \* the snapshot sent and not acknowledged, or Nil
    telemetryRevision,  \* the acknowledged sequence number
    up,                 \* the stream is open
    sent,               \* the delta in transit, or Nil
    ack,                \* the acknowledgement in transit, 0 when there is none
    seq, view,          \* controller: last applied sequence number, observation
    rejected            \* the controller could not apply a delta

telemetryVars == <<telemetryBase, telemetryPending, telemetryRevision, up, sent, ack, seq, view, rejected>>

Fresh ==
    /\ telemetryBase' = Nil /\ telemetryPending' = Nil /\ telemetryRevision' = 0
    /\ sent' = Nil /\ ack' = 0 /\ seq' = 0 /\ view' = Nil

TelemetryInit ==
    /\ telemetryBase = Nil /\ telemetryPending = Nil /\ telemetryRevision = 0
    /\ up = TRUE /\ sent = Nil /\ ack = 0 /\ seq = 0 /\ view = Nil
    /\ rejected = FALSE

-----------------------------------------------------------------------------
\* A sample is sent when nothing is outstanding, and dropped otherwise.
Sample(o) ==
    /\ up /\ telemetryPending = Nil
    /\ BoundedObservation(o) /\ telemetryRevision < MaxSample
    /\ \E delta \in MakeObservationDelta(telemetryRevision, telemetryBase, o) : sent' = delta
    /\ telemetryPending' = o
    /\ UNCHANGED <<telemetryBase, telemetryRevision, up, ack, seq, view, rejected>>

\* A sample that is nested too deeply, or one number too many, ends the stream.
SampleFails(o) ==
    /\ up /\ telemetryPending = Nil
    /\ ~ BoundedObservation(o) \/ telemetryRevision = MaxSample
    /\ up' = FALSE
    /\ UNCHANGED <<telemetryBase, telemetryPending, telemetryRevision, sent, ack, seq, view, rejected>>

\* The controller applies the delta to its own baseline.
Receive ==
    /\ up /\ sent # Nil
    /\ sent' = Nil
    /\ LET next == ApplyObservationDelta(seq, view, sent) IN
       IF next = Nil
       THEN rejected' = TRUE /\ up' = FALSE /\ UNCHANGED <<ack, seq, view>>
       ELSE /\ view' = next /\ seq' = seq + 1 /\ ack' = seq + 1
            /\ UNCHANGED <<up, rejected>>
    /\ UNCHANGED <<telemetryBase, telemetryPending, telemetryRevision>>

\* The acknowledgement makes the pending snapshot the baseline.
Acknowledge ==
    /\ up /\ ack # 0
    /\ ack' = 0
    /\ IF telemetryPending = Nil \/ ack # telemetryRevision + 1
       THEN up' = FALSE /\ UNCHANGED <<telemetryBase, telemetryPending, telemetryRevision>>
       ELSE /\ telemetryBase' = telemetryPending /\ telemetryPending' = Nil
            /\ telemetryRevision' = ack /\ UNCHANGED up
    /\ UNCHANGED <<sent, seq, view, rejected>>

\* The stream ends for any reason (a lost connection, an acknowledgement that
\* does not come in time) and the next one starts from nothing.
Reconnect == up' = TRUE /\ Fresh /\ UNCHANGED rejected

TelemetryNext ==
    \/ \E o \in Observations : Sample(o) \/ SampleFails(o)
    \/ Receive \/ Acknowledge \/ Reconnect

TelemetrySpec == TelemetryInit /\ [][TelemetryNext]_telemetryVars

-----------------------------------------------------------------------------
(* Properties. *)

\* The controller can apply every delta the agent makes, at the limits of
\* nesting too (observationDiff and ApplyObservationDelta agree), and its
\* observation is exactly the snapshot the agent believes it to be: the
\* baseline, or the pending one when only the acknowledgement is missing ("an
\* unacknowledged baseline is never used", README).
ViewIsSnapshot ==
    /\ ~ rejected
    /\ up => \/ seq = telemetryRevision /\ view = telemetryBase
             \/ seq = telemetryRevision + 1 /\ view = telemetryPending
=============================================================================
