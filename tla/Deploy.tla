-------------------------------- MODULE Deploy --------------------------------
(***************************************************************************)
(* The operator's deploy directory: fleet.yaml and tenants/<id>.yaml, and  *)
(* the environment that the scripts make of a tenant's file                *)
(* (src/deploy/fleetctl, provision.sh, channels-env.awk, render-env.sh).   *)
(***************************************************************************)
EXTENDS Routing

CONSTANTS
  TenantIds,        \* the ids that may be in use, as a sequence in their order as strings
  Broken            \* a file that is not valid YAML, or lacks a key it must have

ASSUME IdsAssumption == IsList(TenantIds)

VARIABLES
  index,            \* fleet.yaml: id -> status, or Broken
  files             \* tenants/: id -> the file's fields, NotSet for a key that is not there, or Broken

NotSet == ""       \* a key that is not there, a value that is empty

\* The directory with one of its entries written.
Write(dir, id, value) == [i \in DOMAIN dir \cup {id} |-> IF i = id THEN value ELSE dir[i]]
WithDevice(file, device) == [file EXCEPT !.device_jid = device]

\* A value with a comment on its line keeps it: only the quotes are taken off.
y(file, value) == IF file.commented /\ value # NotSet THEN Garbled ELSE value

OnBox(value) == [direct |-> NotSet, file |-> value]

\* render-env.sh wants a device and the URL of each channel.
Renders(file, device) ==
  device # NotSet /\ \A i \in DOMAIN file.channels : file.channels[i].url # NotSet

\* What the box has rendered: pair and rotate do not hand on the transcription settings.
Rendering(file, device, transcribe) == [file |-> file, device |-> device, transcribe |-> transcribe]

\* The shim's environment of a rendering: the agent is the box's own, whatever agent_inbound_url
\* says, and self_number and debug_sink are not handed on.
Env(rendering) ==
  LET file == rendering.file
  IN  [scalars |-> {"ok"}, gowa_basic_auth |-> OnBox("user:pass"), gowa_device_id |-> rendering.device,
       gowa_webhook_secret |-> OnBox("s"), webhook_token |-> OnBox("w"), gateway_token |-> OnBox("g"),
       agent_url |-> "http://127.0.0.1:3001",
       dm_policy |-> Or(y(file, file.dm_policy), "allowlist"),
       group_policy |-> Or(y(file, file.group_policy), "off"),
       dm_allow |-> {[form |-> IF file.commented THEN "comment" ELSE "bare", user |-> u] : u \in file.dm_allow},
       group_allow |-> {y(file, g) : g \in ToSet(file.group_allow)},
       require_mention |-> Or(y(file, file.require_mention), "on"),
       free_response_chats |-> {y(file, g) : g \in file.free_response_chats},
       channels |-> [i \in DOMAIN file.channels |->
                     [label |-> file.channels[i].label, url |-> file.channels[i].url, token |-> OnBox(NotSet)]],
       group_channels |-> RestrictValues(file.group_channels, LAMBDA g : g.jid # NotSet /\ g.label # NotSet),
       self_number |-> <<>>, debug_sink |-> NotSet, readyz_probe_agent |-> NotSet,
       transcribe |-> IF rendering.transcribe THEN "on" ELSE NotSet, whisper_model |-> "file",
       transcribe_max_secs |-> 0, transcribe_max_bytes |-> 0]
=============================================================================
