------------------------------ MODULE Identity ------------------------------
(***************************************************************************)
(* Identity and connection settings of the control client:                 *)
(* internal/control/identity.go and connection.go over the configuration   *)
(* file of internal/config/enrollment.go.  A change is written to the file *)
(* and then taken into memory, under Client.mu; the agent may end between  *)
(* the two.  identity.rotate replaces both tokens, which the model numbers *)
(* together, and lets the previous agent token live on until an expiry.    *)
(*                                                                         *)
(* The controller (external) offers one new identity at a time and repeats *)
(* the offer until it has the success of it, whose result says how long    *)
(* the previous token is accepted.                                         *)
(***************************************************************************)
EXTENDS Naturals

CONSTANTS
    MaxIdentity,    \* bound on the identities the controller offers
    MaxTime,        \* bound on the clock
    Grace,          \* the longest life of a previous token (15 minutes)
    ConnModes       \* connection modes

ASSUME IdentityAssumption ==
    /\ MaxIdentity \in Nat /\ MaxTime \in Nat /\ Grace \in Nat
    /\ ConnModes # {}

VARIABLES
    saved,      \* the configuration file
    held,       \* Client.cfg; the same fields
    ipc,        \* "off", "idle", or the step after the file was written
    change,     \* what that step takes into memory
    now,        \* the clock
    offered,    \* controller: the newest identity it has offered
    known,      \* controller: the newest it has a success for
    until       \* controller: the expiry that success announced

identityVars == <<saved, held, ipc, change, now, offered, known, until>>

Settings == [id : 0..MaxIdentity, prev : 0..MaxIdentity, expires : 0..MaxTime + Grace, mode : ConnModes]

\* Identity 0 is the one of the enrolment; it has no previous token.
IdentityInit ==
    /\ saved \in {s \in Settings : s.id = 0 /\ s.prev = 0 /\ s.expires = 0}
    /\ held = saved /\ ipc = "off" /\ change = saved
    /\ now = 0 /\ offered = 0 /\ known = 0 /\ until = 0

\* validAgentToken: the current token, or the previous one until it expires.
ValidAgentToken(id) ==
    id = held.id \/ (id = held.prev /\ now <= held.expires)

-----------------------------------------------------------------------------
\* Mutant: a failure to write is ignored.
PersistUnchecked(settings) ==
    /\ change' = settings /\ ipc' = "adopt"
    /\ saved' = settings \/ UNCHANGED saved

\* writeConfig replaces the whole file atomically, or nothing changes and the
\* command fails.
Persist(settings) ==
    \/ saved' = settings /\ change' = settings /\ ipc' = "adopt"
    \/ UNCHANGED <<saved, change, ipc>>

\* The controller learns of a success; it may also be lost.
Succeed(id, expires) ==
    \/ known' = id /\ until' = expires
    \/ UNCHANGED <<known, until>>

\* Mutant: an offer is carried out again when it is repeated.
RotateAgain(expires) ==
    /\ ipc = "idle" /\ offered # 0 /\ expires <= now + Grace
    /\ Persist([saved EXCEPT !.id = offered, !.prev = held.id, !.expires = expires])
    /\ UNCHANGED <<held, now, offered, known, until>>

\* identity.rotate with the identity offered: RotateCredentials.  expires is
\* the one asked for or the longest there is.
Rotate(expires) ==
    /\ ipc = "idle" /\ offered # held.id /\ expires <= now + Grace
    /\ Persist([saved EXCEPT !.id = offered, !.prev = held.id, !.expires = expires])
    /\ UNCHANGED <<held, now, offered, known, until>>

\* A repeated offer succeeds and changes nothing (line 23).
RotateRepeated ==
    /\ ipc = "idle" /\ offered = held.id /\ known # offered
    /\ Succeed(held.id, held.expires)
    /\ UNCHANGED <<saved, held, ipc, change, now, offered>>

\* setConnectionLocked with another mode: SaveConnection.
SetConnection(m) ==
    /\ ipc = "idle" /\ m # held.mode
    /\ Persist([saved EXCEPT !.mode = m])
    /\ UNCHANGED <<held, now, offered, known, until>>

\* The change is taken into memory and the command reports success.
AdoptChange ==
    /\ ipc = "adopt"
    /\ held' = change /\ ipc' = "idle"
    /\ IF change.id # held.id THEN Succeed(change.id, change.expires) ELSE UNCHANGED <<known, until>>
    /\ UNCHANGED <<saved, change, now, offered>>

-----------------------------------------------------------------------------
LoadIdentity ==
    /\ ipc = "off"
    /\ held' = saved /\ ipc' = "idle" /\ change' = saved
    /\ UNCHANGED <<saved, now, offered, known, until>>

AgentStops ==
    /\ ipc # "off"
    /\ ipc' = "off"
    /\ UNCHANGED <<saved, held, change, now, offered, known, until>>

Tick == now < MaxTime /\ now' = now + 1 /\ UNCHANGED <<saved, held, ipc, change, offered, known, until>>

\* A new identity, once the last one is known to be in place (external).
Offer ==
    /\ known = offered /\ offered < MaxIdentity
    /\ offered' = offered + 1
    /\ UNCHANGED <<saved, held, ipc, change, now, known, until>>

IdentityNext ==
    \/ \E expires \in 0..(now + Grace) : Rotate(expires)
    \/ \E m \in ConnModes : SetConnection(m)
    \/ RotateRepeated \/ AdoptChange \/ LoadIdentity \/ AgentStops \/ Tick \/ Offer

IdentitySpec == IdentityInit /\ [][IdentityNext]_identityVars

-----------------------------------------------------------------------------
(* Properties. *)

\* Wherever a rotation is cut off, and whatever results are lost, the agent's
\* tokens, in memory and after any restart, are ones the controller knows: the
\* last it has a success for or the one it is offering.
NoLockout ==
    /\ saved.id \in {known, offered}
    /\ ipc # "off" => held.id \in {known, offered}

\* README "Direct HTTP accepts the previous Agent Token only until the
\* persisted grace expiry": while no other identity is offered, a running agent
\* accepts the previous token exactly until the time its success announced,
\* although the offer may be repeated, the connection settings change and the
\* agent restart in between.
GraceTrue ==
    ipc \in {"idle", "adopt"} /\ known = offered /\ known > 0 =>
        (ValidAgentToken(known - 1) <=> now <= until)

=============================================================================
