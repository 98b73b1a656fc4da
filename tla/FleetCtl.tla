------------------------------- MODULE FleetCtl -------------------------------
(***************************************************************************)
(* fleetctl (src/deploy/fleetctl) and what it has the box do               *)
(* (provision.sh, render-env.sh, backup.sh): one tenant, one box, one      *)
(* command at a time, which may end between any two of its steps.          *)
(*                                                                         *)
(* systemd and GOWA are external: enable --now starts what does not run    *)
(* and restarts nothing, a failed unit is started again, GOWA keeps the    *)
(* linked device in its database under /var/lib/wagw.                      *)
(***************************************************************************)
EXTENDS Deploy

CONSTANTS
  Box,              \* the tenant
  Jids,             \* devices that may be linked
  Nothing,          \* not there
  MaxCommands,      \* bound: commands given
  MaxMishaps        \* bound: commands that fail between two steps, backups that fail

VARIABLES
  etc,              \* /etc/wagw-shimmy.env and the credentials: a rendering, or Nothing
  running,          \* the rendering the shim was started with, or Nothing
  jid,              \* the device GOWA has linked, or NotSet
  backups,          \* the devices that a snapshot can bring back
  cmd,              \* the command: where it is, and the file or device it holds
  linked,           \* history: every device linked
  commands, mishaps \* bounded: commands given, what went wrong in them

box == <<etc, running, jid, backups>>
ctl == <<box, cmd, linked, commands, mishaps>>

\* The units run: enabled, started, and started again if they fail.
Active == running # Nothing
Doing(pc) == cmd.pc = pc
Goto(pc) == cmd' = [cmd EXCEPT !.pc = pc]
Prompt == [pc |-> "idle", file |-> Nothing, jid |-> NotSet]
Done == cmd' = Prompt
Mishap(kind) == mishaps' = Append(mishaps, kind)
Went(kinds) == ToSet(mishaps) \cap kinds # {}

CtlTypeOK ==
  /\ jid \in Jids \cup {NotSet}
  /\ backups \subseteq Jids /\ linked \subseteq Jids
  /\ commands \in 0 .. MaxCommands
  /\ cmd.pc \in {"idle", "rendering", "units", "linking", "recording", "rerendering", "saving", "wiping"}
  /\ Active => etc # Nothing

CtlInit ==
  /\ etc = Nothing /\ running = Nothing
  /\ jid = NotSet /\ backups = {} /\ linked = {}
  /\ cmd = Prompt
  /\ commands = 0 /\ mishaps = <<>>

\* Every command reads the tenant's file first.
Begin(pc) ==
  /\ Doing("idle") /\ commands < MaxCommands
  /\ Box \in DOMAIN files /\ files[Box] # Broken
  /\ commands' = commands + 1
  /\ Goto(pc)

\* A step that fails, or an operator who gives up: set -e ends the command where it is.
Interrupted ==
  /\ ~Doing("idle")
  /\ Len(mishaps) < MaxMishaps
  /\ Mishap("interrupted") /\ Done
  /\ UNCHANGED <<files, box, linked, commands>>
-----------------------------------------------------------------------------
(* provision.                                                              *)

\* rsync: the box has the file as it is now.
ProvisionPush ==
  /\ Doing("idle") /\ commands < MaxCommands
  /\ Box \in DOMAIN files /\ files[Box] # Broken
  /\ cmd' = [Prompt EXCEPT !.pc = "rendering", !.file = files[Box]]
  /\ commands' = commands + 1
  /\ UNCHANGED <<files, box, linked, mishaps>>

\* pair writes the whole line of the device, the one that it replaces may have a comment.
Device(file) == IF file.device_jid \in Jids THEN file.device_jid ELSE y(file, file.device_jid)

ProvisionRender ==
  /\ Doing("rendering")
  /\ IF Renders(cmd.file, Device(cmd.file))
     THEN /\ etc' = Rendering(cmd.file, Device(cmd.file), cmd.file.transcribe)
          /\ Goto("units")
     ELSE Done /\ UNCHANGED etc
  /\ UNCHANGED <<files, running, jid, backups, linked, commands, mishaps>>

\* enable --now: units that run already run on with what they have.
ProvisionUnits ==
  /\ Doing("units")
  /\ running' = IF Active THEN running ELSE etc
  /\ IF Active /\ running # etc THEN Mishap("not restarted") ELSE UNCHANGED mishaps
  /\ Done
  /\ UNCHANGED <<files, etc, jid, backups, linked, commands>>
-----------------------------------------------------------------------------
(* render_remote: pair's and rotate's.                                     *)

\* mutant: the units are not restarted
RenderOnly(device) ==
  /\ etc' = Rendering(files[Box], device, FALSE)
  /\ UNCHANGED running

Rerender(device) ==
  /\ etc' = Rendering(files[Box], device, FALSE)
  /\ running' = etc'

\* A comment in a value makes the remote shell drop the rest of its line, the command included, and
\* succeed; a rendering that fails ends the command.
render_remote(device, next) ==
  IF files[Box].commented
  THEN /\ Mishap("commented") /\ cmd' = next /\ UNCHANGED <<etc, running>>
  ELSE IF Renders(files[Box], device)
  THEN /\ Rerender(device) /\ cmd' = next /\ UNCHANGED mishaps
  ELSE /\ Mishap("not rendered") /\ Done /\ UNCHANGED <<etc, running>>
-----------------------------------------------------------------------------
(* pair.                                                                   *)

\* GOWA gives a code when it runs and has no device.
PairCode ==
  /\ Active /\ jid = NotSet
  /\ Begin("linking")
  /\ UNCHANGED <<files, box, linked, mishaps>>

\* The code is entered on a phone, and /devices shows the device.
PairLinked(j) ==
  /\ Doing("linking")
  /\ jid' = j /\ linked' = linked \cup {j}
  /\ cmd' = [cmd EXCEPT !.pc = "recording", !.jid = j]
  /\ UNCHANGED <<files, etc, running, backups, commands, mishaps>>

\* mutant: the device is rendered but not written into the tenant's file
PairForget ==
  /\ Doing("recording")
  /\ Goto("rerendering")
  /\ UNCHANGED <<files, box, linked, commands, mishaps>>

PairRecord ==
  /\ Doing("recording")
  /\ files' = Write(files, Box, WithDevice(files[Box], cmd.jid))
  /\ Goto("rerendering")
  /\ UNCHANGED <<box, linked, commands, mishaps>>

PairRerender ==
  /\ Doing("rerendering")
  /\ render_remote(cmd.jid, [cmd EXCEPT !.pc = "saving"])
  /\ UNCHANGED <<files, jid, backups, linked, commands>>

\* mutant: the snapshot leaves out the database
SaveState == UNCHANGED backups

\* backup.sh snapshots the database, when there is one, and the state directories.
Save == backups' = IF jid = NotSet THEN backups ELSE backups \cup {jid}

\* A backup that fails is a warning.
Backup ==
  \/ Save /\ UNCHANGED mishaps
  \/ Len(mishaps) < MaxMishaps /\ Mishap("no backup") /\ UNCHANGED backups

PairSave ==
  /\ Doing("saving")
  /\ Backup /\ Done
  /\ UNCHANGED <<files, etc, running, jid, linked, commands>>
-----------------------------------------------------------------------------
\* rotate: the device is the one in the box's file.
Rotate ==
  /\ Doing("idle") /\ commands < MaxCommands
  /\ etc # Nothing
  /\ Box \in DOMAIN files /\ files[Box] # Broken
  /\ commands' = commands + 1
  /\ render_remote(etc.device, Prompt)
  /\ UNCHANGED <<files, jid, backups, linked>>

\* remove, confirmed: the backup, then the stop and the wipe, the one having failed or not.
RemoveSave ==
  /\ Begin("wiping")
  /\ Backup
  /\ UNCHANGED <<files, etc, running, jid, linked>>

\* /etc is left as it is.
RemoveWipe ==
  /\ Doing("wiping")
  /\ running' = Nothing /\ jid' = NotSet
  /\ Done
  /\ UNCHANGED <<files, etc, backups, linked, commands, mishaps>>
-----------------------------------------------------------------------------
(* The box and the phone.                                                  *)

\* systemd starts a failed shim again, with the files there are now.
Respawn ==
  /\ Active /\ running # etc
  /\ running' = etc
  /\ UNCHANGED <<files, etc, jid, backups, cmd, linked, commands, mishaps>>

\* The device is unlinked on the phone.
Unlink ==
  /\ jid # NotSet /\ Doing("idle")
  /\ jid' = NotSet
  /\ UNCHANGED <<files, etc, running, backups, cmd, linked, commands, mishaps>>

CtlNext ==
  \/ ProvisionPush \/ ProvisionRender \/ ProvisionUnits
  \/ PairCode \/ (\E j \in Jids : PairLinked(j)) \/ PairRecord \/ PairRerender \/ PairSave
  \/ Rotate \/ RemoveSave \/ RemoveWipe
  \/ Interrupted \/ Respawn \/ Unlink
-----------------------------------------------------------------------------
\* Whatever commands were given and in whatever order, the shim addresses the device that is linked:
\* what pair has learned outlives a later provision and rotate, which take the device from the
\* tenant's file and from the box (fleetctl:209-217, 245-247; provision.sh:112).
DeviceFollowsPairing ==
  Doing("idle") /\ Active /\ jid # NotSet /\ ~Went({"interrupted", "commented", "not rendered"})
    => running.device = jid

\* "so a crash can't lose the pairing" (fleetctl:219): every device linked can be brought back from
\* a snapshot, a removed tenant's too, unless a command did not get that far.
PairingBackedUp ==
  Doing("idle") /\ ~Went({"interrupted", "no backup", "not rendered"}) => linked \subseteq backups

\* The shim that runs has the environment of its box, once the command is done: only provisioning a
\* box again leaves a shim running with the one before, though provision.sh:2-3 has it "restarts
\* cleanly".
RunsWhatIsRendered ==
  Doing("idle") /\ Active /\ ~Went({"interrupted", "not restarted"}) => running = etc
=============================================================================
