------------------------------ MODULE FleetProofs ------------------------------
(***************************************************************************)
(* Proofs about Fleet, for any tenants, files, devices and terminal, and   *)
(* any number of commands, mishaps and edits.                              *)
(***************************************************************************)
EXTENDS Fleet, TLAPS, SequenceTheorems

(***************************************************************************)
(* What went wrong is only ever added to.                                  *)
(***************************************************************************)
LEMMA AppendAddsOne ==
  ASSUME NEW S, NEW s \in Seq(S), NEW e \in S
  PROVE  Append(s, e) \in Seq(S) /\ ToSet(Append(s, e)) = ToSet(s) \cup {e}
  <1>1. /\ Append(s, e) \in Seq(S) /\ DOMAIN Append(s, e) = 1 .. Len(s) + 1
        /\ DOMAIN s = 1 .. Len(s) /\ Len(s) \in Nat
        /\ Append(s, e)[Len(s) + 1] = e
        /\ \A i \in 1 .. Len(s) : Append(s, e)[i] = s[i]
    <2>1. Append(s, e) \in Seq(S) /\ Len(s) \in Nat /\ Len(Append(s, e)) = Len(s) + 1
      BY AppendProperties
    <2>2. DOMAIN s = 1 .. Len(s) /\ DOMAIN Append(s, e) = 1 .. Len(s) + 1
      BY <2>1
    <2>3. Append(s, e)[Len(s) + 1] = e /\ \A i \in 1 .. Len(s) : Append(s, e)[i] = s[i]
      BY AppendProperties
    <2>4. QED
      BY <2>1, <2>2, <2>3
  <1>2. ASSUME NEW x \in ToSet(Append(s, e)) PROVE x \in ToSet(s) \cup {e}
    <2>1. PICK i \in 1 .. Len(s) + 1 : Append(s, e)[i] = x
      BY <1>1, <1>2 DEF ToSet
    <2>2. CASE i = Len(s) + 1
      BY <1>1, <2>1, <2>2
    <2>3. CASE i # Len(s) + 1
      <3>1. i \in 1 .. Len(s)
        BY <1>1, <2>3
      <3>2. QED
        BY <1>1, <2>1, <3>1 DEF ToSet
    <2>4. QED
      BY <2>2, <2>3
  <1>3. ASSUME NEW x \in ToSet(s) PROVE x \in ToSet(Append(s, e))
    <2>1. PICK i \in 1 .. Len(s) : s[i] = x
      BY <1>1, <1>3 DEF ToSet
    <2>2. i \in DOMAIN Append(s, e) /\ Append(s, e)[i] = x
      BY <1>1, <2>1
    <2>3. QED
      BY <2>2 DEF ToSet
  <1>4. e \in ToSet(Append(s, e))
    <2>1. Len(s) + 1 \in DOMAIN Append(s, e)
      BY <1>1
    <2>2. QED
      BY <1>1, <2>1 DEF ToSet
  <1>5. QED
    BY <1>1, <1>2, <1>3, <1>4

Kinds == {"interrupted", "not restarted", "commented", "not rendered", "no backup"}

LEMMA MishapsAdd ==
  ASSUME mishaps \in Seq(Kinds), NEW CONSTANT kind \in Kinds, Mishap(kind)
  PROVE  /\ mishaps' \in Seq(Kinds)
         /\ \A kinds : Went(kinds)' <=> Went(kinds) \/ kind \in kinds
  <1>1. mishaps' \in Seq(Kinds) /\ ToSet(mishaps') = ToSet(mishaps) \cup {kind}
    BY AppendAddsOne DEF Mishap
  <1>2. QED
    BY <1>1 DEF Went

\* A command that has linked a device and is not done with it.
Pairing == {"recording", "rerendering", "saving"}

\* The types that the proofs need, of the box, its file and the command.
BoxOK ==
  /\ Box \in DOMAIN files /\ files[Box] \in BoxFiles
  /\ etc \in Renderings \cup {Nothing} /\ running \in Renderings \cup {Nothing}
  /\ mishaps \in Seq(Kinds)
  /\ cmd \in [pc : {"idle", "rendering", "units", "linking", "recording", "rerendering", "saving", "wiping"},
              file : BoxFiles \cup {Nothing}, jid : Jids \cup {NotSet}]
  /\ Doing("rendering") => cmd.file \in BoxFiles
  /\ cmd.pc \in Pairing => jid = cmd.jid /\ jid # NotSet

CtlInv == CtlTypeOK /\ BoxOK

\* Writing a device into a file changes nothing else of it.
LEMMA WithDeviceParts ==
  ASSUME NEW file, FileOK(file), NEW d
  PROVE  /\ WithDevice(file, d).device_jid = d
         /\ \A k \in DOMAIN file \ {"device_jid"} : WithDevice(file, d)[k] = file[k]
         /\ FileOK(WithDevice(file, d))
         /\ \A e : WithDevice(WithDevice(file, d), e) = WithDevice(file, e)
  <1>1. {"device_jid", "transcribe", "channels", "group_channels", "group_allow"} \subseteq DOMAIN file
    BY DEF FileOK
  <1>2. WithDevice(file, d).device_jid = d
    BY <1>1 DEF WithDevice
  <1>3. \A k \in DOMAIN file \ {"device_jid"} : WithDevice(file, d)[k] = file[k]
    BY <1>1 DEF WithDevice
  <1>4. DOMAIN WithDevice(file, d) = DOMAIN file
    BY DEF WithDevice
  <1>5. /\ WithDevice(file, d).transcribe = file.transcribe
        /\ WithDevice(file, d).channels = file.channels
        /\ WithDevice(file, d).group_channels = file.group_channels
        /\ WithDevice(file, d).group_allow = file.group_allow
    BY <1>1, <1>3
  <1>6. FileOK(WithDevice(file, d))
    BY <1>4, <1>5 DEF FileOK
  <1>7. ASSUME NEW e PROVE WithDevice(WithDevice(file, d), e) = WithDevice(file, e)
    BY Zenon DEF WithDevice
  <1>8. QED
    BY <1>2, <1>3, <1>6, <1>7

LEMMA BoxFilesAre ==
  ASSUME NEW f
  PROVE  f \in BoxFiles <=> f \in TenantFiles \/ \E g \in TenantFiles, d \in Devices : f = WithDevice(g, d)
  <1>1. ASSUME f \in BoxFiles
        PROVE  f \in TenantFiles \/ \E g \in TenantFiles, d \in Devices : f = WithDevice(g, d)
    BY <1>1 DEF BoxFiles
  <1>2. ASSUME NEW g \in TenantFiles, NEW d \in Devices
        PROVE  WithDevice(g, d) \in BoxFiles
    BY DEF BoxFiles
  <1>3. f \in TenantFiles => f \in BoxFiles
    BY DEF BoxFiles
  <1>4. QED
    BY <1>1, <1>2, <1>3

\* A file that a device is written into is still one of the operator's, with that device.
LEMMA DeviceWritten ==
  ASSUME NEW file \in BoxFiles, NEW device \in Devices
  PROVE  /\ WithDevice(file, device) \in BoxFiles
         /\ WithDevice(file, device).device_jid = device
         /\ file.device_jid \in Devices
         /\ FileOK(file)
         /\ file # Broken
  <1>1. \A f \in TenantFiles, d \in Devices :
          /\ WithDevice(f, d) \in BoxFiles
          /\ WithDevice(f, d).device_jid = d
          /\ FileOK(WithDevice(f, d))
          /\ WithDevice(WithDevice(f, d), device) = WithDevice(f, device)
    BY BoxFilesAre, WithDeviceParts, FleetAssumption
  <1>2. CASE file \in TenantFiles
    <2>1. file.device_jid \in Devices
      BY <1>2 DEF Devices
    <2>2. file # Broken
      BY <1>2, BoxFilesAre, FleetAssumption
    <2>3. WithDevice(file, device) \in BoxFiles /\ WithDevice(file, device).device_jid = device
      BY <1>1, <1>2
    <2>4. QED
      BY <1>2, <2>1, <2>2, <2>3, FleetAssumption
  <1>3. CASE file \notin TenantFiles
    <2>1. PICK f \in TenantFiles, d \in Devices : file = WithDevice(f, d)
      BY <1>3, BoxFilesAre
    <2>2. QED
      BY <1>1, <2>1, FleetAssumption
  <1>4. QED
    BY <1>2, <1>3

\* A rendering of such a file is one of the renderings, with its device.
LEMMA Rendered ==
  ASSUME NEW file \in BoxFiles, NEW device \in Devices \cup {Garbled}, NEW transcribe \in BOOLEAN
  PROVE  /\ Rendering(file, device, transcribe) \in Renderings
         /\ Rendering(file, device, transcribe) # Nothing
         /\ Rendering(file, device, transcribe).device = device
         /\ Rendering(file, device, transcribe).file = file
  <1>1. Rendering(file, device, transcribe) \in Renderings
    BY DEF Renderings
  <1>2. QED
    BY <1>1, FleetAssumption DEF Rendering

LEMMA RenderingParts ==
  ASSUME NEW r \in Renderings
  PROVE  r.device \in Devices \cup {Garbled} /\ r.file \in BoxFiles /\ r # Nothing
  <1>1. PICK file \in BoxFiles, device \in Devices \cup {Garbled}, transcribe \in BOOLEAN :
          r = Rendering(file, device, transcribe)
    BY DEF Renderings
  <1>2. QED
    BY <1>1, FleetAssumption DEF Rendering

(***************************************************************************)
(* The types of the box and of the command.                                *)
(***************************************************************************)
LEMMA BoxFileParts ==
  ASSUME NEW file \in BoxFiles
  PROVE  file.device_jid \in Devices /\ FileOK(file) /\ file.transcribe \in BOOLEAN /\ file # Broken
  <1>1. Devices # {}
    BY BoxFilesAre DEF Devices
  <1>2. QED
    BY <1>1, DeviceWritten DEF FileOK

LEMMA DeviceTyped ==
  ASSUME NEW file \in BoxFiles
  PROVE  /\ Device(file) \in Devices \cup {Garbled}
         /\ file.device_jid \in Jids => Device(file) = file.device_jid
  BY BoxFileParts DEF Device, y

\* The operator's edits leave the box a file that can be read, and a device in it that was there.
LEMMA EditKeepsDevice ==
  ASSUME BoxOK, Edit
  PROVE  /\ Box \in DOMAIN files' /\ files'[Box] \in BoxFiles
         /\ files[Box].device_jid # NotSet => files'[Box].device_jid = files[Box].device_jid
         /\ UNCHANGED ctl
  <1>1. files[Box] # Broken /\ files[Box].device_jid \in Devices
    BY BoxFileParts DEF BoxOK
  <1>2. ASSUME NEW file \in TenantFiles, NEW id \in ToSet(TenantIds),
               IF id \in DOMAIN files /\ files[id] # Broken
               THEN files' = Write(files, id, WithDevice(file, Or(files[id].device_jid, file.device_jid)))
               ELSE files' = Write(files, id, file)
        PROVE  /\ Box \in DOMAIN files' /\ files'[Box] \in BoxFiles
               /\ files[Box].device_jid # NotSet => files'[Box].device_jid = files[Box].device_jid
    <2>1. CASE id = Box
      <3> DEFINE d == Or(files[Box].device_jid, file.device_jid)
      <3>1. files' = Write(files, Box, WithDevice(file, d))
        BY <1>1, <1>2, <2>1 DEF BoxOK
      <3>2. file \in BoxFiles
        BY BoxFilesAre
      <3>3. d \in Devices /\ (files[Box].device_jid # NotSet => d = files[Box].device_jid)
        <4>1. file.device_jid \in Devices
          BY <3>2, BoxFileParts
        <4>2. QED
          BY <1>1, <4>1, Zenon DEF Or, NotSet
      <3>4. Box \in DOMAIN files' /\ files'[Box] = WithDevice(file, d)
        BY <3>1 DEF Write
      <3>5. QED
        BY <3>2, <3>3, <3>4, DeviceWritten
    <2>2. CASE id # Box
      <3>1. Box \in DOMAIN files' /\ files'[Box] = files[Box]
        BY <1>2, <2>2 DEF Write, BoxOK
      <3>2. QED
        BY <3>1 DEF BoxOK
    <2>3. QED
      BY <2>1, <2>2
  <1>3. ASSUME NEW id \in DOMAIN files \ {Box}, files' = [i \in DOMAIN files \ {id} |-> files[i]]
        PROVE  Box \in DOMAIN files' /\ files'[Box] = files[Box]
    BY <1>3 DEF BoxOK
  <1>4. ASSUME NEW id \in ToSet(TenantIds) \ {Box}, files' = Write(files, id, Broken)
        PROVE  Box \in DOMAIN files' /\ files'[Box] = files[Box]
    BY <1>4 DEF BoxOK, Write
  <1>5. UNCHANGED ctl
    BY DEF Edit
  <1>6. QED
    BY <1>2, <1>3, <1>4, <1>5 DEF Edit, BoxOK

LEMMA CtlTypedInit == Init => CtlInv
  <1> SUFFICES ASSUME Init PROVE CtlInv
    OBVIOUS
  <1>1. Box \in DOMAIN files /\ files[Box] \in BoxFiles
    BY BoxFilesAre DEF Init
  <1>2. <<>> \in Seq(Kinds)
    OBVIOUS
  <1>3. QED
    <2>1. CtlTypeOK
      <3>1. MaxCommands \in Nat
        BY FleetAssumption
      <3>2. QED
        BY <3>1 DEF Init, CtlInit, CtlTypeOK, Prompt, Active
    <2>2. BoxOK
      BY <1>1, <1>2 DEF Init, CtlInit, BoxOK, Prompt, Doing, Pairing
    <2>3. QED
      BY <2>1, <2>2 DEF CtlInv

\* What render_remote does to the box, in the three ways it ends.
LEMMA RemoteRenders ==
  ASSUME BoxOK, NEW STATE device, device \in Devices \cup {Garbled}, NEW STATE next, render_remote(device, next)
  PROVE  \/ Mishap("commented") /\ cmd' = next /\ UNCHANGED <<etc, running>>
         \/ /\ etc' \in Renderings /\ etc'.device = device /\ running' = etc'
            /\ cmd' = next /\ UNCHANGED mishaps
         \/ Mishap("not rendered") /\ Done /\ UNCHANGED <<etc, running>>
  <1>1. FALSE \in BOOLEAN
    OBVIOUS
  <1>2. /\ Rendering(files[Box], device, FALSE) \in Renderings
        /\ Rendering(files[Box], device, FALSE).device = device
    BY <1>1, Rendered DEF BoxOK
  <1>3. QED
    BY <1>2, Zenon DEF render_remote, Rerender

LEMMA OneMoreCommand ==
  ASSUME commands \in 0 .. MaxCommands, commands < MaxCommands, commands' = commands + 1
  PROVE  commands' \in 0 .. MaxCommands
  <1>1. MaxCommands \in Nat
    BY FleetAssumption
  <1>2. QED
    BY <1>1

LEMMA CtlTypedStep == CtlInv /\ [Next]_vars => CtlInv'
  <1> SUFFICES ASSUME CtlInv, [Next]_vars PROVE CtlInv'
    OBVIOUS
  <1>0. /\ "interrupted" \in Kinds /\ "not restarted" \in Kinds /\ "commented" \in Kinds
        /\ "not rendered" \in Kinds /\ "no backup" \in Kinds
    BY DEF Kinds
  <1> USE DEF CtlInv, CtlTypeOK, BoxOK, Doing, Pairing, Active
  <1>1. CASE Edit
    <2>1. Box \in DOMAIN files' /\ files'[Box] \in BoxFiles /\ UNCHANGED ctl
      BY <1>1, EditKeepsDevice
    <2>2. QED
      BY <2>1 DEF ctl, box
  <1>2. CASE ProvisionPush
    <2>1. commands' \in 0 .. MaxCommands
      BY <1>2, OneMoreCommand DEF ProvisionPush
    <2>2. QED
      BY <1>2, <2>1 DEF ProvisionPush, Prompt, box
  <1>3. CASE ProvisionRender
    <2>1. Device(cmd.file) \in Devices \cup {Garbled} /\ cmd.file.transcribe \in BOOLEAN
      BY <1>3, DeviceTyped, BoxFileParts DEF ProvisionRender
    <2>2. etc' \in Renderings \cup {Nothing} /\ (etc # Nothing => etc' # Nothing)
      BY <1>3, <2>1, Rendered DEF ProvisionRender
    <2>3. QED
      BY <1>3, <2>2 DEF ProvisionRender, Goto, Done, Prompt
  <1>4. CASE ProvisionUnits
    <2>1. mishaps' \in Seq(Kinds)
      BY <1>4, <1>0, MishapsAdd DEF ProvisionUnits
    <2>2. QED
      BY <1>4, <2>1 DEF ProvisionUnits, Done, Prompt
  <1>5. CASE PairCode
    <2>1. commands' \in 0 .. MaxCommands
      BY <1>5, OneMoreCommand DEF PairCode, Begin
    <2>2. QED
      BY <1>5, <2>1 DEF PairCode, Begin, Goto, box
  <1>6. ASSUME NEW j \in Jids, PairLinked(j) PROVE CtlInv'
    BY <1>6, FleetAssumption DEF PairLinked
  <1>7. CASE PairRecord
    <2>1. Box \in DOMAIN files' /\ files'[Box] \in BoxFiles
      BY <1>7, DeviceWritten DEF PairRecord, Write, Devices
    <2>2. QED
      BY <1>7, <2>1 DEF PairRecord, Goto, box
  <1>8. CASE PairRerender
    <2>1. cmd.jid \in Devices
      BY <1>8 DEF PairRerender, Devices
    <2>2. /\ etc' \in Renderings \cup {Nothing} /\ running' \in Renderings \cup {Nothing}
          /\ running' # Nothing => etc' # Nothing
          /\ mishaps' \in Seq(Kinds)
          /\ cmd' \in {[cmd EXCEPT !.pc = "saving"], Prompt}
      BY <1>8, <2>1, RemoteRenders, RenderingParts, <1>0, MishapsAdd DEF PairRerender, Done
    <2>3. QED
      BY <1>8, <2>2 DEF PairRerender, Prompt
  <1>9. CASE PairSave
    <2>1. mishaps' \in Seq(Kinds) /\ backups' \subseteq Jids
      BY <1>9, <1>0, MishapsAdd DEF PairSave, Backup, Save
    <2>2. QED
      BY <1>9, <2>1 DEF PairSave, Done, Prompt
  <1>10. CASE Rotate
    <2>1. etc.device \in Devices \cup {Garbled}
      BY <1>10, RenderingParts DEF Rotate
    <2>2. /\ etc' \in Renderings \cup {Nothing} /\ running' \in Renderings \cup {Nothing}
          /\ running' # Nothing => etc' # Nothing
          /\ mishaps' \in Seq(Kinds)
          /\ cmd' = Prompt
      BY <1>10, <2>1, RemoteRenders, RenderingParts, <1>0, MishapsAdd DEF Rotate, Done
    <2>3. commands' \in 0 .. MaxCommands
      BY <1>10, OneMoreCommand DEF Rotate
    <2>4. QED
      BY <1>10, <2>2, <2>3 DEF Rotate, Prompt
  <1>11. CASE RemoveSave
    <2>1. mishaps' \in Seq(Kinds) /\ backups' \subseteq Jids
      BY <1>11, <1>0, MishapsAdd DEF RemoveSave, Backup, Save
    <2>2. commands' \in 0 .. MaxCommands
      BY <1>11, OneMoreCommand DEF RemoveSave, Begin
    <2>3. QED
      BY <1>11, <2>1, <2>2 DEF RemoveSave, Begin, Goto
  <1>12. CASE RemoveWipe
    BY <1>12 DEF RemoveWipe, Done, Prompt
  <1>13. CASE Interrupted
    <2>1. mishaps' \in Seq(Kinds)
      BY <1>13, <1>0, MishapsAdd DEF Interrupted
    <2>2. QED
      BY <1>13, <2>1 DEF Interrupted, Done, Prompt, box
  <1>14. CASE Respawn
    BY <1>14 DEF Respawn
  <1>15. CASE Unlink
    BY <1>15 DEF Unlink
  <1>16. CASE UNCHANGED <<files, ctl>>
    BY <1>16 DEF ctl, box
  <1>17. QED
    BY <1>1, <1>2, <1>3, <1>4, <1>5, <1>6, <1>7, <1>8, <1>9, <1>10, <1>11, <1>12, <1>13, <1>14, <1>15, <1>16
      DEF Next, CtlNext, vars

(***************************************************************************)
(* What is excused stays excused.                                          *)
(***************************************************************************)
LEMMA OneMishapAtMost ==
  ASSUME CtlInv, [Next]_vars
  PROVE  UNCHANGED mishaps \/ \E kind \in Kinds : Mishap(kind)
  <1>1. /\ "interrupted" \in Kinds /\ "not restarted" \in Kinds /\ "commented" \in Kinds
        /\ "not rendered" \in Kinds /\ "no backup" \in Kinds
    BY DEF Kinds
  <1>2. CASE CtlNext
    <2>1. CASE PairRerender \/ Rotate
      BY <1>1, <2>1 DEF PairRerender, Rotate, render_remote
    <2>2. CASE ProvisionUnits \/ Interrupted \/ PairSave \/ RemoveSave
      BY <1>1, <2>2 DEF ProvisionUnits, Interrupted, PairSave, RemoveSave, Backup
    <2>3. CASE ~(PairRerender \/ Rotate \/ ProvisionUnits \/ Interrupted \/ PairSave \/ RemoveSave)
      BY <1>2, <2>3 DEF CtlNext, ProvisionPush, ProvisionRender, PairCode, PairLinked, PairRecord,
                        RemoveWipe, Respawn, Unlink
    <2>4. QED
      BY <2>1, <2>2, <2>3
  <1>3. CASE UNCHANGED ctl
    BY <1>3 DEF ctl
  <1>4. QED
    BY <1>2, <1>3 DEF Next, Edit, vars

LEMMA ExcusesStay ==
  ASSUME CtlInv, [Next]_vars, NEW kinds, ~Went(kinds)'
  PROVE  /\ ~Went(kinds)
         /\ \A kind \in kinds \cap Kinds : ~Mishap(kind)
  <1>1. mishaps \in Seq(Kinds)
    BY DEF CtlInv, BoxOK
  <1>2. \A kind \in kinds \cap Kinds : ~Mishap(kind)
    BY <1>1, MishapsAdd
  <1>3. ~Went(kinds)
    BY <1>1, MishapsAdd, OneMishapAtMost DEF Went
  <1>4. QED
    BY <1>2, <1>3

(***************************************************************************)
(* Every device linked is in a snapshot, or is the one being paired.       *)
(***************************************************************************)
Backed ==
  ~Went({"interrupted", "no backup", "not rendered"}) =>
    linked \subseteq backups \cup IF cmd.pc \in Pairing THEN {jid} ELSE {}

LEMMA BackedStep == CtlInv /\ Backed /\ [Next]_vars => Backed'
  <1> DEFINE Excuse == {"interrupted", "no backup", "not rendered"}
  <1> SUFFICES ASSUME CtlInv, Backed, [Next]_vars, ~Went(Excuse)'
               PROVE  (linked \subseteq backups \cup IF cmd.pc \in Pairing THEN {jid} ELSE {})'
    BY DEF Backed
  <1>1. /\ linked \subseteq backups \cup IF cmd.pc \in Pairing THEN {jid} ELSE {}
        /\ ~Mishap("interrupted") /\ ~Mishap("no backup") /\ ~Mishap("not rendered")
    BY ExcusesStay DEF Backed, Kinds
  <1> USE DEF Pairing, Doing
  <1>2. CASE Edit
    BY <1>1, <1>2 DEF Edit, ctl, box
  <1>3. CASE PairSave
    BY <1>1, <1>3 DEF PairSave, Backup, Save, Done, Prompt, CtlInv, BoxOK
  <1>4. CASE RemoveSave
    BY <1>1, <1>4 DEF RemoveSave, Begin, Goto, Backup, Save, CtlInv, BoxOK
  <1>5. ASSUME NEW j \in Jids, PairLinked(j)
        PROVE  (linked \subseteq backups \cup IF cmd.pc \in Pairing THEN {jid} ELSE {})'
    BY <1>1, <1>5 DEF PairLinked, CtlInv, BoxOK
  <1>6. CASE PairRecord
    BY <1>1, <1>6 DEF PairRecord, Goto, CtlInv, BoxOK, box
  <1>7. CASE PairRerender
    BY <1>1, <1>7 DEF PairRerender, render_remote, CtlInv, BoxOK
  <1>8. CASE Rotate
    BY <1>1, <1>8 DEF Rotate, render_remote, Prompt, CtlInv, BoxOK
  <1>9. CASE ProvisionPush \/ ProvisionRender \/ ProvisionUnits
    BY <1>1, <1>9 DEF ProvisionPush, ProvisionRender, ProvisionUnits, Goto, Done, Prompt, CtlInv, BoxOK, box
  <1>10. CASE PairCode \/ RemoveWipe \/ Interrupted
    BY <1>1, <1>10 DEF PairCode, Begin, RemoveWipe, Interrupted, Goto, Done, Prompt, CtlInv, BoxOK, box
  <1>11. CASE Respawn \/ Unlink
    BY <1>1, <1>11 DEF Respawn, Unlink
  <1>12. CASE UNCHANGED ctl
    BY <1>1, <1>12 DEF ctl, box
  <1>13. QED
    BY <1>2, <1>3, <1>4, <1>5, <1>6, <1>7, <1>8, <1>9, <1>10, <1>11, <1>12 DEF Next, CtlNext, vars

(***************************************************************************)
(* The shim that runs has what its box has rendered, or is about to.       *)
(***************************************************************************)
Ran ==
  ~Went({"interrupted", "not restarted"}) /\ Active => running = etc \/ Doing("units")

LEMMA RanStep == CtlInv /\ Ran /\ [Next]_vars => Ran'
  <1> DEFINE Excuse == {"interrupted", "not restarted"}
  <1> SUFFICES ASSUME CtlInv, Ran, [Next]_vars, ~Went(Excuse)', Active'
               PROVE  (running = etc \/ Doing("units"))'
    BY DEF Ran
  <1>1. /\ Active => running = etc \/ Doing("units")
        /\ ~Mishap("interrupted") /\ ~Mishap("not restarted")
    <2>1. ~Went(Excuse) /\ \A kind \in Excuse \cap Kinds : ~Mishap(kind)
      BY ExcusesStay
    <2>2. QED
      BY <2>1 DEF Ran, Kinds
  <1> USE DEF Doing, Active
  <1>2. CASE Edit
    BY <1>1, <1>2 DEF Edit, ctl, box
  <1>3. CASE ProvisionPush \/ ProvisionRender \/ ProvisionUnits
    BY <1>1, <1>3 DEF ProvisionPush, ProvisionRender, ProvisionUnits, Goto, Done, Prompt, CtlInv, BoxOK, box
  <1>4. CASE PairRerender \/ Rotate
    BY <1>1, <1>4 DEF PairRerender, Rotate, render_remote, Rerender
  <1>5. CASE PairCode \/ PairRecord \/ PairSave \/ (\E j \in Jids : PairLinked(j))
    BY <1>1, <1>5 DEF PairCode, Begin, PairRecord, PairSave, PairLinked, box
  <1>6. CASE RemoveSave \/ RemoveWipe \/ Interrupted
    BY <1>1, <1>6 DEF RemoveSave, Begin, RemoveWipe, Interrupted, box
  <1>7. CASE Respawn \/ Unlink
    BY <1>1, <1>7 DEF Respawn, Unlink
  <1>8. CASE UNCHANGED ctl
    BY <1>1, <1>8 DEF ctl, box
  <1>9. QED
    BY <1>2, <1>3, <1>4, <1>5, <1>6, <1>7, <1>8 DEF Next, CtlNext, vars

(***************************************************************************)
(* The device that is linked is the one in the tenant's file, on the box   *)
(* and in the shim, once pair has got that far.                            *)
(***************************************************************************)
Paired ==
  /\ files[Box].device_jid = jid
  /\ etc # Nothing /\ etc.device = jid
  /\ Active => running.device = jid
  /\ Doing("rendering") => cmd.file.device_jid = jid

Followed ==
  ~Went({"interrupted", "commented", "not rendered"}) /\ jid # NotSet =>
    /\ Doing("rerendering") => files[Box].device_jid = jid
    /\ cmd.pc \notin {"recording", "rerendering"} => Paired

LEMMA PromptIsIdle == Prompt.pc = "idle"
  BY DEF Prompt

\* Provisioning renders the device of the file.
LEMMA ProvisionRendered ==
  ASSUME CtlInv, ProvisionRender, cmd.file.device_jid \in Jids
  PROVE  etc' = etc \/ (etc' # Nothing /\ etc'.device = cmd.file.device_jid)
  <1>1. cmd.file \in BoxFiles
    BY DEF ProvisionRender, CtlInv, BoxOK
  <1>2. /\ Device(cmd.file) = cmd.file.device_jid
        /\ Device(cmd.file) \in Devices \cup {Garbled}
        /\ cmd.file.transcribe \in BOOLEAN
    BY <1>1, DeviceTyped, BoxFileParts
  <1>3. /\ Rendering(cmd.file, Device(cmd.file), cmd.file.transcribe) # Nothing
        /\ Rendering(cmd.file, Device(cmd.file), cmd.file.transcribe).device = Device(cmd.file)
    BY <1>1, <1>2, Rendered
  <1>4. QED
    BY <1>2, <1>3 DEF ProvisionRender

LEMMA FollowedStep == CtlInv /\ Followed /\ [Next]_vars => Followed'
  <1> DEFINE Excuse == {"interrupted", "commented", "not rendered"}
             Follows == /\ Doing("rerendering") => files[Box].device_jid = jid
                        /\ cmd.pc \notin {"recording", "rerendering"} => Paired
  <1> SUFFICES ASSUME CtlInv, Followed, [Next]_vars, ~Went(Excuse)', jid' # NotSet
               PROVE  Follows'
    BY DEF Followed
  <1>1. /\ jid # NotSet => Follows
        /\ ~Mishap("interrupted") /\ ~Mishap("commented") /\ ~Mishap("not rendered")
    <2>1. ~Went(Excuse) /\ \A kind \in Excuse \cap Kinds : ~Mishap(kind)
      BY ExcusesStay
    <2>2. QED
      BY <2>1 DEF Followed, Kinds
  <1> USE DEF Doing, Active, Paired, CtlInv, BoxOK
  <1>2. CASE Edit
    <2>1. files[Box].device_jid # NotSet => files'[Box].device_jid = files[Box].device_jid
      BY <1>2, EditKeepsDevice
    <2>2. UNCHANGED ctl
      BY <1>2, EditKeepsDevice
    <2>3. QED
      BY <1>1, <2>1, <2>2 DEF ctl, box
  <1>3. CASE ProvisionPush
    BY <1>1, <1>3 DEF ProvisionPush, Prompt, box
  <1>4. CASE ProvisionRender
    <2>1. Doing("rendering") /\ UNCHANGED <<files, running, jid>> /\ cmd'.pc \in {"idle", "units"}
      <3>1. Doing("rendering") /\ UNCHANGED <<files, running, jid>> /\ (Goto("units") \/ Done)
        BY <1>4 DEF ProvisionRender
      <3>2. Goto("units") => cmd'.pc = "units"
        BY DEF Goto
      <3>3. Done => cmd'.pc = "idle"
        BY PromptIsIdle DEF Done
      <3>4. QED
        BY <3>1, <3>2, <3>3
    <2>2. jid \in Jids /\ Paired
      BY <1>1, <2>1 DEF CtlTypeOK
    <2>3. etc' # Nothing /\ etc'.device = jid
      BY <1>4, <2>1, <2>2, ProvisionRendered
    <2>4. QED
      BY <2>1, <2>2, <2>3
  <1>5. CASE ProvisionUnits
    BY <1>1, <1>5 DEF ProvisionUnits, Done, Prompt
  <1>6. ASSUME NEW j \in Jids, PairLinked(j) PROVE Follows'
    BY <1>6 DEF PairLinked
  <1>7. CASE PairRecord
    <2>1. cmd.jid = jid /\ jid \in Devices
      BY <1>7 DEF PairRecord, Pairing, CtlTypeOK, Devices
    <2>2. files'[Box].device_jid = jid
      BY <1>7, <2>1, DeviceWritten DEF PairRecord, Write
    <2>3. QED
      BY <1>7, <2>2 DEF PairRecord, Goto, box
  <1>8. CASE PairRerender
    <2>1. cmd.jid = jid /\ jid \in Devices
      BY <1>8 DEF PairRerender, Pairing, CtlTypeOK, Devices
    <2>2. etc' \in Renderings /\ etc'.device = jid /\ running' = etc' /\ cmd' = [cmd EXCEPT !.pc = "saving"]
      BY <1>1, <1>8, <2>1, RemoteRenders DEF PairRerender
    <2>3. QED
      BY <1>1, <1>8, <2>1, <2>2, RenderingParts DEF PairRerender
  <1>9. CASE PairSave
    BY <1>1, <1>9 DEF PairSave, Done, Prompt
  <1>10. CASE Rotate
    <2>1. etc.device \in Devices \cup {Garbled} /\ etc.device = jid
      BY <1>1, <1>10, RenderingParts DEF Rotate
    <2>2. etc' \in Renderings /\ etc'.device = jid /\ running' = etc' /\ cmd' = Prompt
      BY <1>1, <1>10, <2>1, RemoteRenders DEF Rotate
    <2>3. QED
      BY <1>1, <1>10, <2>2, RenderingParts DEF Rotate, Prompt
  <1>11. CASE PairCode
    BY <1>11 DEF PairCode, box
  <1>12. CASE RemoveSave
    BY <1>1, <1>12 DEF RemoveSave, Begin, Goto
  <1>13. CASE RemoveWipe \/ Interrupted \/ Unlink
    BY <1>1, <1>13 DEF RemoveWipe, Interrupted, Unlink
  <1>14. CASE Respawn
    BY <1>1, <1>14 DEF Respawn
  <1>15. CASE UNCHANGED <<files, ctl>>
    BY <1>1, <1>15 DEF ctl, box
  <1>16. QED
    BY <1>2, <1>3, <1>4, <1>5, <1>6, <1>7, <1>8, <1>9, <1>10, <1>11, <1>12, <1>13, <1>14, <1>15
      DEF Next, CtlNext, vars

(***************************************************************************)
(* The inductive invariant, and what follows from it.                      *)
(***************************************************************************)
FleetInv == CtlInv /\ Backed /\ Ran /\ Followed

LEMMA FleetInvInit == Init => FleetInv
  <1> SUFFICES ASSUME Init PROVE FleetInv
    OBVIOUS
  <1>1. CtlInv
    BY CtlTypedInit
  <1>2. linked = {} /\ jid = NotSet /\ ~Active
    BY DEF Init, CtlInit, Active
  <1>3. QED
    BY <1>1, <1>2 DEF FleetInv, Backed, Ran, Followed

LEMMA FleetInvStep == FleetInv /\ [Next]_vars => FleetInv'
  BY CtlTypedStep, BackedStep, RanStep, FollowedStep DEF FleetInv

LEMMA FleetInvariant == Spec => []FleetInv
  BY FleetInvInit, FleetInvStep, PTL DEF Spec

\* Every device linked can be brought back from a snapshot when the commands are done: pair does not
\* finish, nor remove wipe the box, without a backup, or without a warning (fleetctl:219-221,
\* 234-237).
THEOREM PairingIsBackedUp == Spec => []PairingBackedUp
  <1>1. FleetInv => PairingBackedUp
    BY DEF FleetInv, Backed, PairingBackedUp, Doing, Pairing
  <1>2. QED
    BY <1>1, FleetInvariant, PTL

\* The shim addresses the device that is linked, whatever was edited and run since the device was
\* paired (fleetctl:209-217, 245-247; provision.sh:112).
THEOREM DeviceIsFollowed == Spec => []DeviceFollowsPairing
  <1>1. FleetInv => DeviceFollowsPairing
    BY DEF FleetInv, Followed, Paired, DeviceFollowsPairing, Doing
  <1>2. QED
    BY <1>1, FleetInvariant, PTL

\* A shim runs what its box has rendered, but for the one that provision left running.
THEOREM RunsTheRendering == Spec => []RunsWhatIsRendered
  <1>1. FleetInv => RunsWhatIsRendered
    BY DEF FleetInv, Ran, RunsWhatIsRendered, Doing
  <1>2. QED
    BY <1>1, FleetInvariant, PTL
=============================================================================
