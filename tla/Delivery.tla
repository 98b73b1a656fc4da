------------------------------ MODULE Delivery ------------------------------
(***************************************************************************)
(* What the shim promises for inbound messages, without saying how:        *)
(* once GOWA has been answered 200 for a message, the message is either    *)
(* held on disk, or the agent has accepted it, or it lies in the           *)
(* dead-letter directory for an operator.  Nothing is forwarded that is    *)
(* not held, and nothing held is let go of before the agent accepted it.   *)
(* Forwarding is at-least-once: a message may be stored and handed over    *)
(* again (docs/AGENT-WHATSAPP-CONTRACT.md, section 2).                     *)
(***************************************************************************)
CONSTANT Ids                  \* WhatsApp message ids

VARIABLES
  promised,                   \* ids GOWA was answered 200 for
  held,                       \* ids with a file in pending/
  delivered,                  \* ids the agent has answered 2xx for
  buried                      \* ids with a file in dead/

vars == <<promised, held, delivered, buried>>

Init ==
  /\ promised = {}
  /\ held = {}
  /\ delivered = {}
  /\ buried = {}

\* The message reaches the disk; the same id may be stored again.
Store(id) ==
  /\ held' = held \cup {id}
  /\ UNCHANGED <<promised, delivered, buried>>

\* GOWA is told it need not send the message again.
Promise(id) ==
  /\ id \in held \cup delivered \cup buried
  /\ promised' = promised \cup {id}
  /\ UNCHANGED <<held, delivered, buried>>

\* The agent accepts the message.
Handover(id) ==
  /\ id \in held
  /\ delivered' = delivered \cup {id}
  /\ UNCHANGED <<promised, held, buried>>

\* The file goes once the agent has the message.
Release(id) ==
  /\ id \in held \cap delivered
  /\ held' = held \ {id}
  /\ UNCHANGED <<promised, delivered, buried>>

\* Given up on: kept for an operator.
Bury(id) ==
  /\ id \in held
  /\ held' = held \ {id}
  /\ buried' = buried \cup {id}
  /\ UNCHANGED <<promised, delivered>>

Next == \E id \in Ids : Store(id) \/ Promise(id) \/ Handover(id) \/ Release(id) \/ Bury(id)

Spec == Init /\ [][Next]_vars
=============================================================================
