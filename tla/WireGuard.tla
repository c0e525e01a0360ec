----------------------------- MODULE WireGuard ------------------------------
(***************************************************************************)
(* Managed WireGuard and WARP tunnels: internal/runtime/wireguard.go.  A   *)
(* tunnel has a configuration for wg-quick (with its keys), a saved state  *)
(* that makes it the agent's own, and a kernel interface that outlives the *)
(* agent.  The interface is recognised by its public key alone.  apply and *)
(* remove run under Runtime.mu and are cut at every file write and every   *)
(* call of wg-quick, each of which may fail; a call of wg-quick that fails *)
(* may have done its work or not.  Others may create an interface of the   *)
(* same name or delete one between two commands.                           *)
(***************************************************************************)
EXTENDS Naturals

CONSTANTS
    NTunnels,   \* tunnels are numbered in the order of their directories
    Specs,      \* WireGuardSpec values
    KeyOf,      \* the public key of each: [Specs -> keys]
    NoSpec,     \* no file, no interface
    Foreign     \* an interface with a key of its own

ASSUME WireGuardAssumption ==
    /\ NTunnels \in Nat \ {0}
    /\ NoSpec \notin Specs /\ Foreign \notin Specs /\ NoSpec # Foreign

Tunnels == 1..NTunnels

VARIABLES
    conf,       \* the wg-quick configurations
    tunnel,     \* the state.json files
    iface,      \* the kernel's interfaces
    wpc,        \* step of the operation in progress
    cur,        \* its tunnel
    spec,       \* the configuration it applies
    oldConf, existed, clean,    \* locals of applyWireGuard and its rollback
    restored,   \* history: how restoreWireGuard ended
    uncertain   \* history: tunnels whose change was cut off or not undone

tunnelFiles == <<conf, tunnel>>
locals == <<cur, spec, oldConf, existed, clean>>
wgVars == <<tunnelFiles, iface, wpc, locals, restored, uncertain>>

WireGuardSteps == {"off", "restore", "idle", "down", "write", "up", "verify", "keep",
                   "undo_down", "undo_conf", "undo_up", "mark", "unlink", "disown"}

NoTunnel == [spec |-> NoSpec, enabled |-> FALSE]

WireGuardInit ==
    /\ conf = [t \in Tunnels |-> NoSpec] /\ tunnel = [t \in Tunnels |-> NoTunnel]
    /\ iface = [t \in Tunnels |-> NoSpec]
    /\ wpc = "off" /\ cur = 1 /\ spec = NoSpec
    /\ oldConf = NoSpec /\ existed = FALSE /\ clean = TRUE
    /\ restored = "none" /\ uncertain = {}

\* verifyWireGuard compares public keys.
Verified(t, s) == iface[t] \in Specs /\ s \in Specs /\ KeyOf[iface[t]] = KeyOf[s]

Step(next) == wpc' = next /\ UNCHANGED locals
Done == wpc' = "idle" /\ cur' = 1 /\ spec' = NoSpec /\ oldConf' = NoSpec /\ existed' = FALSE /\ clean' = TRUE

-----------------------------------------------------------------------------
(* network.wireguard.apply *)

\* Up to line 224: an interface must be the agent's own.
ApplyTunnel(t, s) ==
    /\ wpc = "idle"
    /\ iface[t] # NoSpec => Verified(t, tunnel[t].spec)
    /\ wpc' = IF iface[t] # NoSpec THEN "down" ELSE "write"
    /\ cur' = t /\ spec' = s /\ oldConf' = conf[t] /\ existed' = (iface[t] # NoSpec)
    /\ UNCHANGED <<clean, tunnelFiles, iface, restored, uncertain>>

\* wg-quick needs the configuration file.  When it fails to take an interface
\* down or to bring it up, the interface may be gone or there all the same.
Down(ok) ==
    \/ ok /\ conf[cur] # NoSpec /\ iface' = [iface EXCEPT ![cur] = NoSpec]
    \/ ~ok /\ \E i \in {iface[cur], NoSpec} : iface' = [iface EXCEPT ![cur] = i]

Up(ok) ==
    \/ ok /\ conf[cur] # NoSpec /\ iface' = [iface EXCEPT ![cur] = conf[cur]]
    \/ ~ok /\ \E i \in {NoSpec, conf[cur]} : iface' = [iface EXCEPT ![cur] = i]

StopPrevious ==
    /\ wpc = "down"
    /\ \/ Down(TRUE) /\ Step("write")
       \/ Down(FALSE) /\ Done
    /\ UNCHANGED <<tunnelFiles, restored, uncertain>>

WriteConfig ==
    /\ wpc = "write"
    /\ \/ conf' = [conf EXCEPT ![cur] = spec] /\ Step("up")
       \/ UNCHANGED conf /\ Step("undo_down")
    /\ UNCHANGED <<tunnel, iface, restored, uncertain>>

Bring ==
    /\ wpc = "up"
    /\ \/ Up(TRUE) /\ Step("verify")
       \/ Up(FALSE) /\ Step("undo_down")
    /\ UNCHANGED <<tunnelFiles, restored, uncertain>>

Verify ==
    /\ wpc = "verify"
    /\ (Verified(cur, spec) /\ Step("keep")) \/ Step("undo_down")
    /\ UNCHANGED <<tunnelFiles, iface, restored, uncertain>>

\* Mutant: a state that cannot be saved does not undo the change.
KeepTunnelUnsaved ==
    /\ wpc = "keep"
    /\ \/ tunnel' = [tunnel EXCEPT ![cur] = [spec |-> spec, enabled |-> TRUE]]
       \/ UNCHANGED tunnel
    /\ uncertain' = uncertain \ {cur} /\ Done
    /\ UNCHANGED <<conf, iface, restored>>

\* The saved state is the last thing to change.
KeepTunnel ==
    /\ wpc = "keep"
    /\ \/ /\ tunnel' = [tunnel EXCEPT ![cur] = [spec |-> spec, enabled |-> TRUE]]
          /\ uncertain' = uncertain \ {cur} /\ Done
       \/ UNCHANGED <<tunnel, uncertain>> /\ Step("undo_down")
    /\ UNCHANGED <<conf, iface, restored>>

-----------------------------------------------------------------------------
(* rollback: take down what runs, put the previous configuration back, bring *)
(* it up again when it was up.  clean says whether all of it worked.         *)

Unclean(next) == wpc' = next /\ clean' = FALSE /\ UNCHANGED <<cur, spec, oldConf, existed>>

\* rollback reports clean; what it could not undo is uncertain from then on.
EndRollback(ok) ==
    /\ uncertain' = IF ok THEN uncertain ELSE uncertain \cup {cur}
    /\ Done

UndoDown ==
    /\ wpc = "undo_down"
    /\ \/ iface[cur] = NoSpec /\ Step("undo_conf") /\ UNCHANGED iface
       \/ iface[cur] # NoSpec /\ Down(TRUE) /\ Step("undo_conf")
       \/ Down(FALSE) /\ Unclean("undo_conf")
    /\ UNCHANGED <<tunnelFiles, restored, uncertain>>

UndoConfig ==
    /\ wpc = "undo_conf"
    /\ \/ /\ conf' = [conf EXCEPT ![cur] = oldConf]
          /\ IF existed /\ clean THEN Step("undo_up") /\ UNCHANGED uncertain ELSE EndRollback(clean)
       \/ UNCHANGED conf /\ EndRollback(FALSE)
    /\ UNCHANGED <<tunnel, iface, restored>>

\* Mutant: the interface is left down and the rollback reported as clean.
UndoUpSkipped ==
    /\ wpc = "undo_up"
    /\ EndRollback(TRUE)
    /\ UNCHANGED <<tunnelFiles, iface, restored>>

UndoUp ==
    /\ wpc = "undo_up"
    /\ \/ Up(TRUE) /\ EndRollback(KeyOf[conf[cur]] = KeyOf[tunnel[cur].spec])
       \/ Up(TRUE) /\ EndRollback(FALSE)
       \/ Up(FALSE) /\ EndRollback(FALSE)
    /\ UNCHANGED <<tunnelFiles, restored>>

-----------------------------------------------------------------------------
(* network.wireguard.remove *)

RemoveTunnel(t) ==
    /\ wpc = "idle" /\ tunnel[t].spec # NoSpec
    /\ cur' = t /\ UNCHANGED <<spec, oldConf, existed, clean>>
    /\ \/ iface[t] = NoSpec /\ wpc' = "mark" /\ UNCHANGED iface
       \/ /\ Verified(t, tunnel[t].spec) /\ conf[t] # NoSpec
          /\ wpc' = "mark" /\ iface' = [iface EXCEPT ![t] = NoSpec]
    /\ UNCHANGED <<tunnelFiles, restored, uncertain>>

\* The interface could not be taken down.
RemoveRefused(t) ==
    /\ wpc = "idle" /\ Verified(t, tunnel[t].spec)
    /\ \E i \in {iface[t], NoSpec} : iface' = [iface EXCEPT ![t] = i]
    /\ UNCHANGED <<tunnelFiles, wpc, locals, restored, uncertain>>

Mark ==
    /\ wpc = "mark"
    /\ \/ tunnel' = [tunnel EXCEPT ![cur].enabled = FALSE] /\ Step("unlink")
       \/ UNCHANGED tunnel /\ Done
    /\ UNCHANGED <<conf, iface, restored, uncertain>>

Unlink ==
    /\ wpc = "unlink"
    /\ \/ conf' = [conf EXCEPT ![cur] = NoSpec] /\ Step("disown")
       \/ UNCHANGED conf /\ Done
    /\ UNCHANGED <<tunnel, iface, restored, uncertain>>

Disown ==
    /\ wpc = "disown"
    /\ \/ /\ tunnel' = [tunnel EXCEPT ![cur] = NoTunnel]
          /\ uncertain' = uncertain \ {cur}
       \/ UNCHANGED <<tunnel, uncertain>>
    /\ Done
    /\ UNCHANGED <<conf, iface, restored>>

-----------------------------------------------------------------------------
(* restoreWireGuard, one tunnel after the other, until one fails. *)

NextTunnel ==
    /\ wpc' = IF cur < NTunnels THEN "restore" ELSE "idle"
    /\ cur' = IF cur < NTunnels THEN cur + 1 ELSE 1
    /\ restored' = IF cur < NTunnels THEN restored ELSE "complete"
    /\ UNCHANGED <<spec, oldConf, existed, clean>>

StartTunnels ==
    /\ wpc = "off"
    /\ Step("restore") /\ restored' = "none"
    /\ UNCHANGED <<tunnelFiles, iface, uncertain>>

\* Mutant: an interface that exists is not looked at.
RestoreTunnelUnverified ==
    /\ wpc = "restore"
    /\ \/ /\ ~tunnel[cur].enabled \/ iface[cur] # NoSpec
          /\ UNCHANGED <<conf, iface>>
       \/ /\ tunnel[cur].enabled /\ iface[cur] = NoSpec
          /\ conf' = [conf EXCEPT ![cur] = tunnel[cur].spec]
          /\ iface' = [iface EXCEPT ![cur] = tunnel[cur].spec]
    /\ NextTunnel
    /\ UNCHANGED <<tunnel, uncertain>>

RestoreTunnel ==
    /\ wpc = "restore"
    /\ \/ /\ ~tunnel[cur].enabled \/ Verified(cur, tunnel[cur].spec)
          /\ UNCHANGED <<conf, iface>>
       \/ /\ tunnel[cur].enabled /\ iface[cur] = NoSpec
          /\ conf' = [conf EXCEPT ![cur] = tunnel[cur].spec]
          /\ iface' = [iface EXCEPT ![cur] = tunnel[cur].spec]
    /\ NextTunnel
    /\ UNCHANGED <<tunnel, uncertain>>

\* It returns at the first failure; the tunnels after it are not looked at.
RestoreFails ==
    /\ wpc = "restore" /\ tunnel[cur].enabled
    /\ \/ UNCHANGED <<conf, iface>>
       \/ /\ iface[cur] = NoSpec
          /\ conf' = [conf EXCEPT ![cur] = tunnel[cur].spec]
          /\ \E i \in {NoSpec, tunnel[cur].spec} : iface' = [iface EXCEPT ![cur] = i]
    /\ restored' = "failed" /\ Done
    /\ UNCHANGED <<tunnel, uncertain>>

-----------------------------------------------------------------------------
(* The host. *)

\* Steps of apply after which the interface, the configuration and the saved
\* state may belong to different configurations.
Exposed == {"up", "verify", "keep", "undo_down", "undo_conf"}

EndAgent ==
    /\ wpc # "off"
    /\ wpc' = "off" /\ cur' = 1 /\ spec' = NoSpec /\ oldConf' = NoSpec
    /\ existed' = FALSE /\ clean' = TRUE
    /\ UNCHANGED <<tunnelFiles, restored>>

\* The agent ends; the interfaces stay.
AgentEnds ==
    /\ EndAgent
    /\ uncertain' = IF wpc \in Exposed THEN uncertain \cup {cur} ELSE uncertain
    /\ UNCHANGED iface

\* The host restarts: no interface is left.
HostRestarts ==
    /\ EndAgent
    /\ iface' = [t \in Tunnels |-> NoSpec]
    /\ uncertain' = IF wpc \in Exposed THEN uncertain \cup {cur} ELSE uncertain

Outsider(t) ==
    /\ wpc = "idle" /\ iface[t] # Foreign
    /\ \E i \in {NoSpec, Foreign} : iface' = [iface EXCEPT ![t] = i]
    /\ UNCHANGED <<tunnelFiles, wpc, locals, restored, uncertain>>

WireGuardNext ==
    \/ \E t \in Tunnels, s \in Specs : ApplyTunnel(t, s)
    \/ StopPrevious \/ WriteConfig \/ Bring \/ Verify \/ KeepTunnel
    \/ UndoDown \/ UndoConfig \/ UndoUp
    \/ \E t \in Tunnels : RemoveTunnel(t) \/ RemoveRefused(t) \/ Outsider(t)
    \/ Mark \/ Unlink \/ Disown
    \/ StartTunnels \/ RestoreTunnel \/ RestoreFails
    \/ AgentEnds \/ HostRestarts

WireGuardSpecification == WireGuardInit /\ [][WireGuardNext]_wgVars

-----------------------------------------------------------------------------
(* Properties. *)

\* Between commands, and unless the last change of the tunnel was cut off by
\* the end of the agent or reported as not rolled back, an interface runs
\* exactly the saved, enabled configuration, and a tunnel without saved state
\* has no interface and no keys on disk (applyWireGuard, removeWireGuard).
TunnelIsSaved ==
    wpc = "idle" => \A t \in Tunnels \ uncertain :
        /\ iface[t] \in Specs => tunnel[t] = [spec |-> iface[t], enabled |-> TRUE]
        /\ tunnel[t] = NoTunnel => conf[t] = NoSpec

\* README "Failed replacement restores the prior configuration and tries to
\* rebuild the prior interface, reporting rollback failure explicitly": after a
\* rollback that is reported as clean an interface that was up is up again,
\* with the key of the saved state, which is unchanged.
RollbackTrue ==
    [][existed /\ wpc \in {"undo_conf", "undo_up"} /\ wpc' = "idle" =>
         \/ cur \in uncertain'
         \/ /\ iface'[cur] \in Specs /\ KeyOf[iface'[cur]] = KeyOf[tunnel'[cur].spec]
            /\ conf'[cur] = oldConf]_wgVars

\* README "Agent startup restores enabled tunnels": when restoreWireGuard
\* returns without an error, every enabled tunnel has an interface with its
\* key, whatever the previous agent was doing when it ended.
RestoreComplete ==
    [][restored' = "complete" /\ restored # "complete" =>
         \A t \in Tunnels : tunnel[t].enabled =>
             iface'[t] \in Specs /\ KeyOf[iface'[t]] = KeyOf[tunnel[t].spec]]_wgVars

=============================================================================
