-------------------------------- MODULE Fleet ---------------------------------
(***************************************************************************)
(* The operator's side of the system: the deploy directory that he edits,  *)
(* the commands that bring it to a box, and the view that shows it.  What  *)
(* the view shows of the box's tenant is held against the shim that runs   *)
(* there, its configuration (Config) and its routing (Routing).            *)
(***************************************************************************)
EXTENDS FleetCtl, FleetView

CONSTANTS
  TenantFiles,      \* what the operator may write into a tenant's file
  MaxEdits          \* bound: changes of the directory

\* What pair makes of the operator's files: any of them, with any device.
Devices == Jids \cup {file.device_jid : file \in TenantFiles}
BoxFiles == TenantFiles \cup {WithDevice(file, device) : file \in TenantFiles, device \in Devices}
Renderings == {Rendering(file, device, transcribe) :
                 file \in BoxFiles, device \in Devices \cup {Garbled}, transcribe \in BOOLEAN}

\* A file's lists are lists, and each entry of its channel map names a group and a channel.
FileOK(file) ==
  /\ {"device_jid", "transcribe", "channels", "group_channels", "group_allow"} \subseteq DOMAIN file
  /\ file.transcribe \in BOOLEAN
  /\ IsList(file.channels) /\ IsList(file.group_channels) /\ IsList(file.group_allow)
  /\ \A i \in DOMAIN file.group_channels :
       file.group_channels[i].jid # NotSet /\ file.group_channels[i].label # NotSet

\* Broken and Nothing are values of their own.
ASSUME FleetAssumption ==
  /\ MaxEdits \in Nat /\ MaxCommands \in Nat /\ MaxMishaps \in Nat
  /\ NotSet \notin Jids
  /\ \A file \in TenantFiles : FileOK(file)
  /\ Broken \notin BoxFiles /\ Nothing \notin BoxFiles \cup Renderings

VARIABLE edits      \* bounded: changes so far

vars == <<index, files, fleet, view, ctl, edits>>

Init ==
  /\ index = [id \in ToSet(TenantIds) |-> "provisioning"]
  /\ files \in [{Box} -> TenantFiles]
  /\ ViewInit
  /\ CtlInit
  /\ edits = 0

Edit ==
  /\ edits < MaxEdits
  /\ edits' = edits + 1
  /\ \/ \E file \in TenantFiles, id \in ToSet(TenantIds) :      \* a tenant's file is written
          /\ IF id \in DOMAIN files /\ files[id] # Broken
             THEN files' = Write(files, id, WithDevice(file, Or(files[id].device_jid, file.device_jid)))
             ELSE files' = Write(files, id, file)
          /\ UNCHANGED index
     \/ \E id \in DOMAIN files \ {Box} :                        \* another tenant's is removed
          /\ files' = [i \in DOMAIN files \ {id} |-> files[i]]
          /\ UNCHANGED index
     \/ \E id \in ToSet(TenantIds) \ {Box} :                    \* or cannot be read
          /\ files' = Write(files, id, Broken)
          /\ UNCHANGED index
     \/ \E id \in ToSet(TenantIds) :                            \* the index
          /\ index' \in {Write(index, id, "active"), [i \in DOMAIN index \ {id} |-> index[i]]}
          /\ UNCHANGED files
  /\ UNCHANGED <<viewVars, ctl>>

Next ==
  \/ Edit
  \/ CtlNext /\ UNCHANGED <<index, viewVars, edits>>
  \/ ViewNext /\ UNCHANGED <<index, files, ctl, edits>>

Spec == Init /\ [][Next]_vars
-----------------------------------------------------------------------------
\* The view has a tenant selected whenever it has one, through reloads that take tenants away
\* (fleetview/src/main.rs:176-193), and the shim runs only what its box has rendered.
IInv ==
  /\ CtlTypeOK
  /\ edits \in 0 .. MaxEdits
  /\ view.selected \in 0 .. Len(fleet)
  /\ view.selected = 0 <=> fleet = <<>>

\* What is drawn is never past the end of the tenant's lines, though the panel, the tenant and the
\* lines may all have changed since the key was pressed (fleetview/src/main.rs:147-163,
\* 305-308).
ScrollInside ==
  view.scroll + Least(view.viewport_lines, view.content_lines) <= view.content_lines

\* The view has the tenant as the box runs it, whatever its device and its entry in the index.
Seen == fleet[CHOOSE i \in DOMAIN fleet : fleet[i].id = Box]
Policied(t) == [t EXCEPT !.device_jid = NotSet, !.status = NotSet, !.in_fleet = TRUE]
UpToDate ==
  /\ Doing("idle") /\ Active
  /\ \E i \in DOMAIN fleet : fleet[i].id = Box
  /\ Policied(Seen) = Policied(merge(Box, index, [id \in {Box} |-> running.file]))
Wakes(g) == [kind |-> "message", chat_id |-> g, sender |-> Nobody, mentioned |-> TRUE]

\* Where the view has a group go is where the running shim takes it, and the groups it has are those
\* the shim lets in, when groups are let in by the list (fleetview/src/model.rs:200-213
\* against src/policy.rs and src/channel.rs).
ViewShowsRouting ==
  LET config == from_env(Env(running))
      rows == routing_rows(Seen)
  IN  UpToDate /\ Valid(Env(running)) /\ Seen.group_policy = "allowlist" =>
        /\ \A g \in Groups : evaluate_group(config.policy, Wakes(g)) <=> \E row \in rows : row.jid = g
        /\ \A row \in rows : channel_for(config, Wakes(row.jid)) = row.label

\* A box whose shim refuses its channel map is one the view has a gap for (fleetview/src/model.rs:250-260
\* against src/config.rs:401-415).
GapsAreShown ==
  UpToDate /\ ~validate_group_channel_labels(Env(running)) =>
    /\ \E h \in health(Seen) : h.sev = "crit"
    /\ summary(fleet).gaps > 0
=============================================================================
