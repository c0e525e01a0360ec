------------------------------ MODULE Channel -------------------------------
(***************************************************************************)
(* The sequence numbers of an encrypted channel (internal/wire/wire.go and *)
(* stream.go).  A connection starts with JSON packets and goes on with     *)
(* binary ones; both formats take their numbers, and so their nonces, from *)
(* the same two counters.  The cipher is abstracted to what it guarantees: *)
(* a packet opens only as the peer sealed it, with the same number and     *)
(* header.  A sealed packet may be lost, delayed, reordered or delivered   *)
(* again.  The controller's end is the same type.                          *)
(***************************************************************************)
EXTENDS Integers, Sequences

CONSTANT MaxSequence    \* the largest number (2^64 - 1 in the code)

ASSUME ChannelAssumption == MaxSequence \in Nat \ {0}

Ends == {"agent", "controller"}
Peer(e) == CHOOSE f \in Ends : f # e
\* What the code tells apart: payloads that fit, those worth compressing, and
\* those beyond MaxPacket.
Payloads == {"small", "large", "oversize"}

VARIABLES
    sentSeq,        \* Channel.sent of each end
    receivedSeq,    \* Channel.received of each end
    packets,        \* what each end has sealed: the network may deliver any
    sealed,         \* history: payloads each end has sealed, in order
    taken           \* history: payloads each end has accepted, in order

channelVars == <<sentSeq, receivedSeq, packets, sealed, taken>>

ChannelInit ==
    /\ sentSeq = [e \in Ends |-> 0] /\ receivedSeq = [e \in Ends |-> 0]
    /\ packets = [e \in Ends |-> {}]
    /\ sealed = [e \in Ends |-> <<>>] /\ taken = [e \in Ends |-> <<>>]

-----------------------------------------------------------------------------
\* The next number is taken and the packet leaves; at the last number, and for
\* a payload that is too large, sealing fails and changes nothing.
TakeSequence(e, payload, form, zipped) ==
    /\ payload # "oversize" /\ sentSeq[e] # MaxSequence
    /\ sentSeq' = [sentSeq EXCEPT ![e] = @ + 1]
    /\ packets' = [packets EXCEPT ![e] = @ \cup
           {[seq |-> sentSeq[e] + 1, form |-> form, zipped |-> zipped, payload |-> payload]}]
    /\ sealed' = [sealed EXCEPT ![e] = Append(@, payload)]
    /\ UNCHANGED <<receivedSeq, taken>>

Seal(e, payload) == TakeSequence(e, payload, "json", FALSE)

\* Only the agent asks for compression; a large payload may not shrink.
SealBinary(e, payload, compress) ==
    \E zipped \in {FALSE, compress /\ payload = "large"} :
       TakeSequence(e, payload, "binary", zipped)

\* Mutant: any number above the last one is accepted.
InSequenceLater(e, seq) == seq > receivedSeq[e]

\* received + 1 wraps to zero, which is no packet's number.
InSequence(e, seq) == seq # 0 /\ seq = (receivedSeq[e] + 1) % (MaxSequence + 1)

Accept(e, p) ==
    /\ InSequence(e, p.seq)
    /\ receivedSeq' = [receivedSeq EXCEPT ![e] = p.seq]
    /\ taken' = [taken EXCEPT ![e] = Append(@, p.payload)]
    /\ UNCHANGED <<sentSeq, packets, sealed>>

\* A packet of the other format does not authenticate, and the agent accepts
\* no compressed one; a packet that is refused changes nothing.
OpenJSON(e, p) == p.form = "json" /\ Accept(e, p)
OpenBinary(e, p) ==
    /\ p.form = "binary" /\ (p.zipped => e = "controller")
    /\ Accept(e, p)

\* A new connection has a new ephemeral key: its counters start from zero, and
\* no packet of the one before it opens.
NewChannel ==
    /\ sentSeq' = [e \in Ends |-> 0] /\ receivedSeq' = [e \in Ends |-> 0]
    /\ packets' = [e \in Ends |-> {}]
    /\ sealed' = [e \in Ends |-> <<>>] /\ taken' = [e \in Ends |-> <<>>]

ChannelNext ==
    \/ NewChannel
    \/ \E e \in Ends :
          \/ \E payload \in Payloads :
                \/ Seal(e, payload)
                \/ \E compress \in {FALSE, e = "agent"} : SealBinary(e, payload, compress)
          \/ \E p \in packets[Peer(e)] : OpenJSON(e, p) \/ OpenBinary(e, p)

ChannelSpec == ChannelInit /\ [][ChannelNext]_channelVars

-----------------------------------------------------------------------------
(* Properties. *)

\* Whatever the network does to the packets, and wherever the connection
\* changes its format, an end accepts exactly the first payloads its peer
\* sealed, each once and in order, and no end seals two packets under one
\* number, the last one included ("SealBinary preserves the channel's
\* sequence across the v1-to-v2 switch").
StreamExact ==
    \A e \in Ends :
       /\ \E n \in 0..Len(sealed[e]) : taken[Peer(e)] = SubSeq(sealed[e], 1, n)
       /\ \A p, q \in packets[e] : p.seq = q.seq => p = q
=============================================================================
