----------------------------- MODULE PacketPath -----------------------------
(***************************************************************************)
(* What a worker of the engine uses for one packet, side by side: the view *)
(* of its bytes, the parsers and the domain filter (Inspection), the flow  *)
(* table (FlowTable) and the checksums of what it sends (Checksum).  The   *)
(* three share no state; what they mean to each other is in Engine and     *)
(* Strategy.  So a behaviour is one of one of them: subject says which,    *)
(* and the others rest in a final or an initial state of theirs.           *)
(***************************************************************************)
EXTENDS MCInspection, MCChecksum, MCFlowTable

VARIABLE subject            \* "packet", "flow table", "checksum"
pathVars == <<subject, allVars, sumVars, flowVars>>

PacketRests == /\ Init /\ mode_ = "Off" /\ tls = NoTls /\ http = NoRequest
               /\ packet = Out(NoPayload) /\ verdict = "passed"
SumRests    == /\ ip = "v4" /\ proto = "udp" /\ pseudo = <<0, 0>>
               /\ segment = <<0, 0, 0>> /\ phase = "malformed"

PathInit == \/ subject = "packet" /\ InspectInit /\ SumRests /\ TableInit
            \/ subject = "checksum" /\ PacketRests /\ SumInit /\ TableInit
            \/ subject = "flow table" /\ PacketRests /\ SumRests /\ TableInit

Table(A) == subject = "flow table" /\ A /\ UNCHANGED <<subject, allVars, sumVars>>

PathNext ==
    \/ subject = "packet" /\ InspectNext /\ UNCHANGED <<subject, sumVars, flowVars>>
    \/ subject = "checksum" /\ SumNext /\ UNCHANGED <<subject, allVars, flowVars>>
    \/ Table(TableNext)

\* For ReachableIsSwept: time passes, a caller that holds a handle finishes with it, and
\* the flows of a stripe keep being looked up.
PathSpec == /\ PathInit /\ [][PathNext]_pathVars
            /\ WF_pathVars(Table(Tick))
            /\ \A c \in Caller : WF_pathVars(Table(Commit(c) \/ release(c)))
            /\ \A s \in Stripe : SF_pathVars(Table(StripeCall(s)))
=============================================================================
