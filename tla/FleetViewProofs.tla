---------------------------- MODULE FleetViewProofs ----------------------------
(***************************************************************************)
(* Proofs about what the view of Fleet shows, for any tenants, files and   *)
(* terminal.                                                               *)
(***************************************************************************)
EXTENDS FleetProofs, ConfigProofs

\* A tenant of the view, however little of it is known, has lists for lists.
TenantOK(t) == IsList(t.channels) /\ IsList(t.group_channels) /\ IsList(t.group_allow)

LEMMA ChannelRowsCounted ==
  ASSUME NEW t, TenantOK(t)
  PROVE  Len(channel_rows(t)) \in Nat
  <1> DEFINE R == {ChannelRow(t.channels[i].label, t.channels[i].url, Cardinality(Mapped(t, t.channels[i].label)), FALSE) :
                     i \in DOMAIN t.channels}
             own == ChannelRow(DEFAULT_CHANNEL, t.agent_inbound_url, 0, t.debug_sink)
             rows == [i \in DOMAIN t.channels |->
                        ChannelRow(t.channels[i].label, t.channels[i].url, Cardinality(Mapped(t, t.channels[i].label)), FALSE)]
  <1>1. Len(t.channels) \in Nat /\ DOMAIN t.channels = 1 .. Len(t.channels)
    BY ListParts DEF TenantOK
  <1>2. rows \in Seq(R \cup {own}) /\ <<own>> \in Seq(R \cup {own})
    <2>1. \A i \in DOMAIN t.channels : rows[i] \in R \cup {own}
      OBVIOUS
    <2>2. DOMAIN rows = 1 .. Len(t.channels) /\ rows = [i \in 1 .. Len(t.channels) |-> rows[i]]
      BY <1>1
    <2> HIDE DEF own, rows, R
    <2>3. QED
      BY <1>1, <2>1, <2>2
  <1>3. channel_rows(t) = <<own>> \o rows
    BY DEF channel_rows
  <1> HIDE DEF own, rows, R
  <1>4. QED
    BY <1>2, <1>3, ConcatProperties

LEMMA RoutingRowsFinite ==
  ASSUME NEW t, TenantOK(t)
  PROVE  IsFiniteSet(routing_rows(t))
  <1>1. /\ IsFiniteSet(DOMAIN t.group_channels)
        /\ IsFiniteSet(DOMAIN t.group_allow)
    BY ListParts DEF TenantOK
  <1>2. IsFiniteSet(MappedRows(t))
    <2> DEFINE f == [i \in DOMAIN t.group_channels |->
                       Row(t.group_channels[i].jid, t.group_channels[i].label, "channel map", i)]
    <2>1. IsFiniteSet({f[i] : i \in DOMAIN t.group_channels})
      BY <1>1, FiniteImage
    <2>2. MappedRows(t) = {f[i] : i \in DOMAIN t.group_channels}
      BY DEF MappedRows
    <2>3. QED
      BY <2>1, <2>2
  <1>3. IsFiniteSet(ListedRows(t, Unmapped(t)))
    <2> DEFINE f == [i \in Unmapped(t) |-> Row(t.group_allow[i], DEFAULT_CHANNEL, "allowlist", i)]
    <2>1. IsFiniteSet(Unmapped(t))
      BY <1>1, FS_Subset DEF Unmapped
    <2>2. IsFiniteSet({f[i] : i \in Unmapped(t)})
      BY <2>1, FiniteImage
    <2>3. ListedRows(t, Unmapped(t)) = {f[i] : i \in Unmapped(t)}
      BY DEF ListedRows
    <2>4. QED
      BY <2>2, <2>3
  <1>4. QED
    BY <1>2, <1>3, FS_Union DEF routing_rows

LEMMA FlagIfFinite ==
  ASSUME NEW condition, NEW sev, NEW what
  PROVE  IsFiniteSet(FlagIf(condition, sev, what))
  <1>1. FlagIf(condition, sev, what) \in {{}, {Flag(sev, what, 0)}}
    BY DEF FlagIf
  <1>2. IsFiniteSet({}) /\ IsFiniteSet({Flag(sev, what, 0)})
    BY FS_EmptySet, FS_Singleton
  <1>3. QED
    BY <1>1, <1>2

LEMMA HealthFinite ==
  ASSUME NEW t, TenantOK(t)
  PROVE  IsFiniteSet(health(t)) /\ IsFiniteSet(Gaps(t))
  <1>1. IsFiniteSet(DOMAIN t.group_channels)
    BY ListParts DEF TenantOK
  <1> DEFINE Marks(sev, what, S) == {Flag(sev, what, i) : i \in S}
  <1>2. ASSUME NEW S \in SUBSET DOMAIN t.group_channels, NEW sev, NEW what
        PROVE  IsFiniteSet(Marks(sev, what, S))
    <2> DEFINE f == [i \in S |-> Flag(sev, what, i)]
    <2>1. IsFiniteSet(S)
      BY <1>1, FS_Subset
    <2>2. IsFiniteSet({f[i] : i \in S})
      BY <2>1, FiniteImage
    <2>3. QED
      BY <2>2
  <1>3. IsFiniteSet(MapFlags(t))
    <2> DEFINE map == t.group_channels
               S1 == {j \in DOMAIN map : map[j].label \notin defined_labels(t)}
               S2 == {j \in DOMAIN map : map[j].jid \in ToSet(t.group_allow)}
    <2>1. MapFlags(t) = Marks("crit", "undefined channel", S1) \cup Marks("info", "redundant", S2)
      BY DEF MapFlags
    <2> HIDE DEF Marks
    <2>2. IsFiniteSet(Marks("crit", "undefined channel", S1)) /\ IsFiniteSet(Marks("info", "redundant", S2))
      BY <1>2
    <2>3. QED
      BY <2>1, <2>2, FS_Union
  <1>4. IsFiniteSet(health(t))
    BY <1>3, FlagIfFinite, FS_Union DEF health
  <1>5. QED
    BY <1>4, FS_Subset DEF Gaps

(***************************************************************************)
(* The lines of the detail panel, and the tenants that are loaded.         *)
(***************************************************************************)
LEMMA DetailLinesCounted ==
  ASSUME NEW t, TenantOK(t)
  PROVE  detail_lines(t) \in Nat
  <1>1. Len(channel_rows(t)) \in Nat
    BY ChannelRowsCounted
  <1>2. OrOne(routing_rows(t)) \in Nat
    BY RoutingRowsFinite, FS_CardinalityType DEF OrOne
  <1>3. Cardinality(health(t)) \in Nat
    BY HealthFinite, FS_CardinalityType
  <1>4. /\ IdentityLines(t) \in Nat /\ RouteLines(t) \in Nat /\ PolicyLines \in Nat
        /\ ChannelLines(t) \in Nat /\ SecretLines(t) \in Nat
    BY <1>1 DEF IdentityLines, RouteLines, PolicyLines, ChannelLines, SecretLines, Section
  <1>5. GroupLines(t) \in Nat /\ HealthLines(t) \in Nat
    BY <1>2, <1>3 DEF GroupLines, HealthLines, Section
  <1>6. QED
    BY <1>4, <1>5 DEF detail_lines

LEMMA MergeOK ==
  ASSUME NEW id, NEW idx, NEW fs, \A f \in DOMAIN fs : FileOK(fs[f])
  PROVE  TenantOK(merge(id, idx, fs))
  <1> DEFINE file == IF id \in DOMAIN fs THEN fs[id] ELSE NoFile
  <1>1. IsList(<<>>)
    BY DEF IsList
  <1>2. IsList(file.channels) /\ IsList(file.group_channels) /\ IsList(file.group_allow)
    BY <1>1 DEF FileOK, NoFile
  <1>3. /\ merge(id, idx, fs).channels = file.channels
        /\ merge(id, idx, fs).group_channels = file.group_channels
        /\ merge(id, idx, fs).group_allow = file.group_allow
    BY DEF merge
  <1>4. QED
    BY <1>2, <1>3 DEF TenantOK

\* What is shown: a list of tenants, none of them short of a list.
TenantsOK(ts) ==
  /\ Len(ts) \in Nat /\ DOMAIN ts = 1 .. Len(ts)
  /\ ts = <<>> <=> Len(ts) = 0
  /\ \A i \in DOMAIN ts : TenantOK(ts[i])

LEMMA LoadOK ==
  ASSUME NEW idx, NEW fs, \A f \in DOMAIN fs : FileOK(fs[f])
  PROVE  TenantsOK(load(idx, fs))
  <1> DEFINE at == {i \in DOMAIN TenantIds : TenantIds[i] \in DOMAIN idx \cup DOMAIN fs}
             ts == [n \in 1 .. Cardinality(at) |-> merge(TenantIds[Ascending(at)[n]], idx, fs)]
  <1>1. Cardinality(at) \in Nat
    <2>1. IsFiniteSet(DOMAIN TenantIds)
      BY IdsAssumption, ListParts
    <2>2. IsFiniteSet(at)
      BY <2>1, FS_Subset
    <2>3. QED
      BY <2>2, FS_CardinalityType
  <1>2. load(idx, fs) = ts
    BY DEF load, Ascending
  <1>3. \A n \in 1 .. Cardinality(at) : TenantOK(ts[n])
    BY MergeOK
  <1>4. ts = [n \in 1 .. Cardinality(at) |-> ts[n]]
    OBVIOUS
  <1> HIDE DEF ts, at
  <1>5. /\ Len(ts) = Cardinality(at) /\ DOMAIN ts = 1 .. Cardinality(at)
        /\ ts \in Seq({ts[n] : n \in 1 .. Cardinality(at)})
    BY <1>1, <1>4, FunctionIsList
  <1>6. QED
    BY <1>1, <1>2, <1>3, <1>5, EmptySeq DEF TenantsOK

(***************************************************************************)
(* The files can be read or are Broken, and the view stays in its bounds.  *)
(***************************************************************************)
FilesOK == \A id \in DOMAIN files : files[id] \in BoxFiles \cup {Broken}

LEMMA FilesOKInit == Init => FilesOK
  BY BoxFilesAre DEF Init, FilesOK

LEMMA FilesOKStep ==
  ASSUME CtlInv, FilesOK, [Next]_vars
  PROVE  FilesOK'
  <1>1. ASSUME NEW id, NEW STATE file, file \in BoxFiles \cup {Broken}, files' = Write(files, id, file)
        PROVE  FilesOK'
    BY <1>1 DEF Write, FilesOK
  <1>2. CASE Edit
    <2>1. ASSUME NEW file \in TenantFiles, NEW id \in ToSet(TenantIds),
                 IF id \in DOMAIN files /\ files[id] # Broken
                 THEN files' = Write(files, id, WithDevice(file, Or(files[id].device_jid, file.device_jid)))
                 ELSE files' = Write(files, id, file)
          PROVE  FilesOK'
      <3>1. file \in BoxFiles /\ file.device_jid \in Devices
        BY BoxFilesAre, BoxFileParts
      <3>2. CASE id \in DOMAIN files /\ files[id] # Broken
        <4> DEFINE d == Or(files[id].device_jid, file.device_jid)
        <4>1. files[id].device_jid \in Devices
          BY <3>2, BoxFileParts DEF FilesOK
        <4>2. d \in Devices
          BY <3>1, <4>1 DEF Or
        <4>3. WithDevice(file, d) \in BoxFiles
          BY <3>1, <4>2, DeviceWritten
        <4>4. QED
          BY <2>1, <3>2, <4>3, <1>1
      <3>3. CASE ~(id \in DOMAIN files /\ files[id] # Broken)
        BY <2>1, <3>1, <3>3, <1>1
      <3>4. QED
        BY <3>2, <3>3
    <2>2. ASSUME NEW id \in DOMAIN files \ {Box}, files' = [i \in DOMAIN files \ {id} |-> files[i]]
          PROVE  FilesOK'
      BY <2>2 DEF FilesOK
    <2>3. ASSUME NEW id \in ToSet(TenantIds) \ {Box}, files' = Write(files, id, Broken)
          PROVE  FilesOK'
      BY <2>3, <1>1
    <2>4. CASE UNCHANGED files
      BY <2>4 DEF FilesOK
    <2>5. QED
      BY <1>2, <2>1, <2>2, <2>3, <2>4 DEF Edit
  <1>3. CASE PairRecord
    <2>1. files[Box] \in BoxFiles /\ cmd.jid \in Devices
      BY <1>3 DEF PairRecord, CtlInv, BoxOK, CtlTypeOK, Devices, Doing, Pairing
    <2>2. WithDevice(files[Box], cmd.jid) \in BoxFiles
      BY <2>1, DeviceWritten
    <2>3. QED
      BY <1>3, <2>2, <1>1 DEF PairRecord
  <1>4. CASE UNCHANGED files
    BY <1>4 DEF FilesOK
  <1>5. CASE CtlNext /\ ~PairRecord
    <2>1. UNCHANGED files
      BY <1>5 DEF CtlNext, ProvisionPush, ProvisionRender, ProvisionUnits, PairCode, PairLinked, PairRerender,
                  PairSave, Rotate, RemoveSave, RemoveWipe, Interrupted, Respawn, Unlink
    <2>2. QED
      BY <1>4, <2>1
  <1>6. QED
    BY <1>2, <1>3, <1>4, <1>5 DEF Next, vars

LEMMA LoadedOK ==
  ASSUME FilesOK, Loads(index, files)
  PROVE  TenantsOK(load(index, files))
  <1>1. \A id \in DOMAIN files : FileOK(files[id])
    BY BoxFileParts DEF FilesOK, Loads
  <1>2. QED
    BY <1>1, LoadOK

View == [selected : Nat, scroll : Nat, content_lines : Nat, viewport_lines : Nat]

\* A drawn view has its tenant still, and does not show what is past the last line.
LEMMA DrawnOK ==
  ASSUME NEW ts, TenantsOK(ts), NEW v \in View, NEW w \in Drawn(v, ts)
  PROVE  /\ w \in View /\ w.selected = v.selected
         /\ w.scroll + Least(w.viewport_lines, w.content_lines) <= w.content_lines
  <1> DEFINE content == IF v.selected \in DOMAIN ts THEN detail_lines(ts[v.selected]) ELSE 0
  <1>1. content \in Nat
    BY DetailLinesCounted DEF TenantsOK
  <1> HIDE DEF content
  <1>2. PICK height \in Heights :
          w = [v EXCEPT !.content_lines = content, !.viewport_lines = height,
                        !.scroll = Clamp(v.scroll, Less(content, height))]
    BY DEF Drawn, content
  <1>3. height \in Nat
    BY HeightsAssumption
  <1>4. /\ Clamp(v.scroll, Less(content, height)) \in Nat
        /\ Clamp(v.scroll, Less(content, height)) + Least(height, content) <= content
    BY <1>1, <1>3 DEF Clamp, Least, Less, View
  <1>5. QED
    BY <1>1, <1>2, <1>3, <1>4 DEF View

Selected(v, ts) == v.selected \in 0 .. Len(ts) /\ (v.selected = 0 <=> Len(ts) = 0)
ViewInv == TenantsOK(fleet) /\ view \in View /\ Selected(view, fleet) /\ ScrollInside

\* A turn that starts from a tenant of the list, or from none of none, ends in the invariant.
LEMMA TurnOK ==
  ASSUME NEW STATE v, v \in View, NEW STATE ts, TenantsOK(ts), Selected(v, ts), view' \in Drawn(v, ts), fleet' = ts
  PROVE  ViewInv'
  BY DrawnOK DEF ViewInv, Selected, ScrollInside

LEMMA ViewInvInit == Init => ViewInv
  <1> SUFFICES ASSUME Init PROVE ViewInv
    OBVIOUS
  <1> DEFINE v == [selected |-> IF fleet = <<>> THEN 0 ELSE 1, scroll |-> 0, content_lines |-> 0, viewport_lines |-> 0]
  <1>1. TenantsOK(fleet)
    BY FilesOKInit, LoadedOK DEF Init, ViewInit
  <1>2. v \in View /\ Selected(v, fleet)
    BY <1>1 DEF View, Selected, TenantsOK
  <1>3. view \in Drawn(v, fleet)
    BY DEF Init, ViewInit
  <1> HIDE DEF v
  <1>4. QED
    BY <1>1, <1>2, <1>3, DrawnOK DEF ViewInv, Selected, ScrollInside

LEMMA ViewInvStep ==
  ASSUME FilesOK, ViewInv, [Next]_vars
  PROVE  ViewInv'
  <1>1. CASE UNCHANGED viewVars
    BY <1>1 DEF viewVars, ViewInv, ScrollInside
  <1>2. CASE OtherEvent
    <2>1. fleet' = fleet /\ view' \in Drawn(view, fleet)
      BY <1>2 DEF OtherEvent, Turn
    <2>2. QED
      BY <2>1, TurnOK DEF ViewInv
  <1>3. ASSUME NEW delta \in {1, -1}, SelectDelta(delta)
        PROVE  ViewInv'
    <2> DEFINE v == [view EXCEPT !.selected = ((view.selected - 1 + delta) % Len(fleet)) + 1, !.scroll = 0]
    <2>1. fleet' = fleet /\ view' \in Drawn(v, fleet) /\ fleet # <<>>
      BY <1>3 DEF SelectDelta, Turn
    <2>2. Len(fleet) \in Nat /\ Len(fleet) > 0 /\ view.selected \in Nat
      BY <2>1 DEF ViewInv, TenantsOK, View
    <2>3. (view.selected - 1 + delta) % Len(fleet) \in 0 .. Len(fleet) - 1
      BY <2>2
    <2> DEFINE next == ((view.selected - 1 + delta) % Len(fleet)) + 1
    <2>4. next \in 1 .. Len(fleet) /\ next \in Nat
      BY <2>2, <2>3
    <2> HIDE DEF next
    <2>5. [view EXCEPT !.selected = next, !.scroll = 0] \in View
      BY <2>2, <2>4 DEF View, ViewInv
    <2>6. [view EXCEPT !.selected = next, !.scroll = 0].selected = next
      BY <2>2 DEF View, ViewInv
    <2>7. v \in View /\ Selected(v, fleet)
      BY <2>2, <2>4, <2>5, <2>6 DEF next, Selected
    <2> HIDE DEF v
    <2>8. QED
      BY <2>1, <2>7, TurnOK DEF ViewInv
  <1>4. CASE Scroll
    <2>1. PICK scroll \in {Least(view.scroll + Page, max_scroll), Less(view.scroll, Page), 0, max_scroll} :
            view' \in Drawn([view EXCEPT !.scroll = scroll], fleet)
      BY <1>4 DEF Scroll, Turn
    <2>2. scroll \in Nat
      BY <2>1 DEF Least, Less, Page, max_scroll, ViewInv, View
    <2>3. [view EXCEPT !.scroll = scroll] \in View /\ Selected([view EXCEPT !.scroll = scroll], fleet)
      BY <2>2 DEF View, Selected, ViewInv
    <2>4. fleet' = fleet
      BY <1>4 DEF Scroll
    <2>5. QED
      BY <2>1, <2>3, <2>4, TurnOK DEF ViewInv
  <1>5. CASE Reload
    <2>1. CASE ~Loads(index, files)
      <3>1. fleet' = fleet /\ view' \in Drawn(view, fleet)
        BY <1>5, <2>1 DEF Reload, Turn
      <3>2. QED
        BY <3>1, TurnOK DEF ViewInv
    <2>2. CASE Loads(index, files)
      <3> DEFINE ts == load(index, files)
                 v == [view EXCEPT !.selected = Kept(view.selected, ts), !.scroll = 0]
      <3>1. fleet' = ts /\ view' \in Drawn(v, ts)
        BY <1>5, <2>2 DEF Reload, Turn
      <3>2. TenantsOK(ts)
        BY <2>2, LoadedOK
      <3> HIDE DEF ts
      <3>3. Kept(view.selected, ts) \in 0 .. Len(ts) /\ (Kept(view.selected, ts) = 0 <=> Len(ts) = 0)
        BY <3>2 DEF Kept, Least, TenantsOK, ViewInv, View
      <3> DEFINE kept == Kept(view.selected, ts)
      <3>4. kept \in Nat
        BY <3>2, <3>3 DEF TenantsOK
      <3> HIDE DEF kept
      <3>5. [view EXCEPT !.selected = kept, !.scroll = 0] \in View
        BY <3>4 DEF View, ViewInv
      <3>6. [view EXCEPT !.selected = kept, !.scroll = 0].selected = kept
        BY DEF View, ViewInv
      <3>7. v \in View /\ Selected(v, ts)
        BY <3>3, <3>5, <3>6 DEF kept, Selected
      <3> HIDE DEF v
      <3>8. QED
        BY <3>1, <3>2, <3>7, TurnOK
    <2>3. QED
      BY <2>1, <2>2
  <1>6. CASE SelectDelta(1) \/ SelectDelta(-1)
    BY <1>3, <1>6
  <1>7. CASE Edit \/ UNCHANGED vars
    <2>1. UNCHANGED viewVars
      BY <1>7 DEF Edit, vars, viewVars
    <2>2. QED
      BY <1>1, <2>1
  <1>8. QED
    BY <1>1, <1>2, <1>4, <1>5, <1>6, <1>7 DEF Next, ViewNext

LEMMA EditsBounded ==
  ASSUME edits \in 0 .. MaxEdits, [Next]_vars
  PROVE  edits' \in 0 .. MaxEdits
  <1>1. MaxEdits \in Nat
    BY FleetAssumption
  <1>2. CASE Edit
    BY <1>1, <1>2 DEF Edit
  <1>3. CASE UNCHANGED edits
    BY <1>3
  <1>4. QED
    BY <1>2, <1>3 DEF Next, vars

FleetViewInv == FleetInv /\ FilesOK /\ ViewInv /\ edits \in 0 .. MaxEdits

LEMMA FleetViewInvariant == Spec => []FleetViewInv
  <1>1. Init => FleetViewInv
    <2>1. MaxEdits \in Nat
      BY FleetAssumption
    <2>2. Init => FleetInv
      BY FleetInvInit
    <2>3. Init => edits \in 0 .. MaxEdits
      BY <2>1 DEF Init
    <2>4. QED
      BY <2>2, <2>3, FilesOKInit, ViewInvInit DEF FleetViewInv
  <1>2. FleetViewInv /\ [Next]_vars => FleetViewInv'
    BY FleetInvStep, FilesOKStep, ViewInvStep, EditsBounded DEF FleetViewInv, FleetInv
  <1>3. QED
    BY <1>1, <1>2, PTL DEF Spec

\* The selection stays on a tenant through every key and reload (fleetview/src/main.rs:165-193), and
\* the box and the command stay what they may be.
THEOREM ViewKeepsASelection == Spec => []IInv
  <1>1. FleetViewInv => IInv
    BY DEF FleetViewInv, FleetInv, CtlInv, ViewInv, Selected, TenantsOK, IInv
  <1>2. QED
    BY <1>1, FleetViewInvariant, PTL

\* What is drawn ends at the tenant's last line, whatever was resized, selected, scrolled or reloaded
\* before (fleetview/src/main.rs:147-163, 305-308).
THEOREM NothingIsDrawnPastTheEnd == Spec => []ScrollInside
  <1>1. FleetViewInv => ScrollInside
    BY DEF FleetViewInv, ViewInv
  <1>2. QED
    BY <1>1, FleetViewInvariant, PTL

(***************************************************************************)
(* The view of a tenant against the shim that its box runs.                *)
(***************************************************************************)
LEMMA OrParts ==
  ASSUME NEW raw, NEW default
  PROVE  /\ raw = NotSet => Or(raw, default) = default
         /\ raw # NotSet => Or(raw, default) = raw
  BY Zenon DEF Or, NotSet

LEMMA Words ==
  /\ "allowlist" # NotSet /\ "off" # NotSet /\ Garbled # NotSet
  /\ Garbled \notin GroupPolicies \cup {NotSet}
  <1>1. "allowlist" # NotSet /\ "off" # NotSet /\ Garbled # NotSet
    BY Zenon DEF NotSet, Garbled
  <1>2. Garbled \notin GroupPolicies
    BY DEF Garbled, GroupPolicies
  <1>3. QED
    BY <1>1, <1>2

LEMMA PoliciesNotSet == \A env : PoliciesParse(env) => env.group_policy \in GroupPolicies \cup {NotSet}
  BY Zenon DEF PoliciesParse, NotSet

\* What Policied keeps of a tenant.
LEMMA SamePolicies ==
  ASSUME NEW t, NEW u, Policied(t) = Policied(u), NEW k \in DOMAIN u \ {"device_jid", "status", "in_fleet"}
  PROVE  t[k] = u[k]
  <1>1. DOMAIN Policied(t) = DOMAIN t /\ DOMAIN Policied(u) = DOMAIN u
    BY DEF Policied
  <1>2. k \in DOMAIN t
    BY <1>1
  <1>3. Policied(t)[k] = t[k] /\ Policied(u)[k] = u[k]
    BY <1>2 DEF Policied
  <1>4. QED
    BY <1>3

\* The tenant that is seen has the running file's policies and channels.
LEMMA SeenIsRunning ==
  ASSUME FleetViewInv, UpToDate
  PROVE  /\ FileOK(running.file)
         /\ Seen.group_policy = Or(running.file.group_policy, "off")
         /\ Seen.group_allow = running.file.group_allow
         /\ Seen.channels = running.file.channels
         /\ Seen.group_channels = running.file.group_channels
  <1>1. running \in Renderings /\ running.file \in BoxFiles
    BY RenderingParts DEF UpToDate, Active, FleetViewInv, FleetInv, CtlInv, BoxOK
  <1> DEFINE u == merge(Box, index, [id \in {Box} |-> running.file])
  <1>2. /\ {"group_policy", "group_allow", "channels", "group_channels"} \subseteq DOMAIN u
        /\ u.group_policy = Or(running.file.group_policy, "off")
        /\ u.group_allow = running.file.group_allow
        /\ u.channels = running.file.channels
        /\ u.group_channels = running.file.group_channels
    BY DEF merge
  <1>3. Policied(Seen) = Policied(u)
    BY DEF UpToDate
  <1> HIDE DEF u
  <1>4. /\ Seen["group_policy"] = u["group_policy"] /\ Seen["group_allow"] = u["group_allow"]
        /\ Seen["channels"] = u["channels"] /\ Seen["group_channels"] = u["group_channels"]
    BY <1>2, <1>3, SamePolicies
  <1>5. QED
    BY <1>1, <1>2, <1>4, BoxFileParts

\* The shim's channels and channel map are the file's.
LEMMA EnvChannels ==
  ASSUME NEW r, FileOK(r.file)
  PROVE  /\ Env(r).group_channels = [i \in DOMAIN r.file.group_channels |-> r.file.group_channels[i]]
         /\ label_set(Env(r)) = {DEFAULT_CHANNEL} \cup {r.file.channels[i].label : i \in DOMAIN r.file.channels}
  <1> DEFINE map == r.file.group_channels
  <1>1. Env(r).group_channels = RestrictValues(map, LAMBDA g : g.jid # NotSet /\ g.label # NotSet)
    BY DEF Env
  <1>2. Env(r).group_channels = [i \in DOMAIN map |-> map[i]]
    BY <1>1 DEF RestrictValues, Restrict, FileOK
  <1>3. /\ DOMAIN Env(r).channels = DOMAIN r.file.channels
        /\ \A i \in DOMAIN r.file.channels : Env(r).channels[i].label = r.file.channels[i].label
    BY DEF Env
  <1>4. QED
    BY <1>2, <1>3 DEF label_set

\* A shim that starts with its groups listed has the file's list of them, and lets in those and the
\* mapped ones.
LEMMA EnvGroups ==
  ASSUME NEW r, FileOK(r.file), PoliciesParse(Env(r)), Or(r.file.group_policy, "off") = "allowlist"
  PROVE  /\ from_env(Env(r)).policy.group_policy = "allowlist"
         /\ from_env(Env(r)).policy.group_allow =
              ToSet(r.file.group_allow) \cup {r.file.group_channels[i].jid : i \in DOMAIN r.file.group_channels}
  <1> DEFINE file == r.file
  <1>1. file.group_policy = "allowlist"
    BY OrParts, Words
  <1>2. Env(r).group_policy = Or(y(file, file.group_policy), "off")
    BY DEF Env
  <1>3. Env(r).group_policy \in GroupPolicies \cup {NotSet}
    BY PoliciesNotSet
  <1>4. ~file.commented
    <2> SUFFICES ASSUME file.commented PROVE FALSE
      OBVIOUS
    <2>1. y(file, file.group_policy) = Garbled
      BY <1>1, Words DEF y
    <2>2. Env(r).group_policy = Garbled
      BY <1>2, <2>1, OrParts, Words
    <2>3. QED
      BY <1>3, <2>2, Words
  <1>5. \A value : y(file, value) = value
    BY <1>4 DEF y
  <1>6. Env(r).group_policy = "allowlist"
    BY <1>1, <1>2, <1>5, OrParts, Words
  <1>7. Env(r).group_allow = ToSet(file.group_allow)
    <2>1. Env(r).group_allow = {y(file, g) : g \in ToSet(file.group_allow)}
      BY DEF Env
    <2>2. QED
      BY <1>5, <2>1
  <1>8. from_env(Env(r)).policy.group_policy = Or(Env(r).group_policy, "off")
    BY DEF from_env, Policy
  <1>9. from_env(Env(r)).policy.group_allow =
          Env(r).group_allow \cup {Env(r).group_channels[i].jid : i \in DOMAIN Env(r).group_channels}
    BY DEF from_env, Policy, group_allow
  <1>10. {Env(r).group_channels[i].jid : i \in DOMAIN Env(r).group_channels}
           = {file.group_channels[i].jid : i \in DOMAIN file.group_channels}
    <2> DEFINE map == Env(r).group_channels
    <2>1. map = [i \in DOMAIN file.group_channels |-> file.group_channels[i]]
      BY EnvChannels
    <2> HIDE DEF map
    <2>2. DOMAIN map = DOMAIN file.group_channels /\ \A i \in DOMAIN file.group_channels : map[i] = file.group_channels[i]
      BY <2>1
    <2>3. {map[i].jid : i \in DOMAIN map} = {file.group_channels[i].jid : i \in DOMAIN file.group_channels}
      BY <2>2
    <2>4. QED
      BY <2>3 DEF map
  <1>11. QED
    BY <1>6, <1>7, <1>8, <1>9, <1>10, OrParts, Words

\* Of a channel map that the shim takes, each entry's group has that entry's channel.
LEMMA MapIsFollowed ==
  ASSUME NEW r, FileOK(r.file), parse_group_channels(Env(r))
  PROVE  LET config == from_env(Env(r))
             map == r.file.group_channels
         IN  /\ DOMAIN config.group_channels = {map[i].jid : i \in DOMAIN map}
             /\ \A i \in DOMAIN map : map[i].jid \in Groups /\ config.group_channels[map[i].jid] = map[i].label
  <1> DEFINE config == from_env(Env(r))
             map == r.file.group_channels
             e == Env(r)
  <1>1. e.group_channels = [i \in DOMAIN map |-> map[i]]
    BY EnvChannels
  <1>2. config.group_channels =
          [g \in {e.group_channels[i].jid : i \in DOMAIN e.group_channels} |-> GroupLabel(e, g)]
    BY DEF from_env
  <1>3. /\ \A i \in DOMAIN e.group_channels : e.group_channels[i].jid \in Groups
        /\ \A i, j \in DOMAIN e.group_channels :
             e.group_channels[i].jid = e.group_channels[j].jid => i = j
    BY DEF parse_group_channels
  <1> HIDE DEF config, e
  <1>4. ASSUME NEW i \in DOMAIN e.group_channels
        PROVE  GroupLabel(e, e.group_channels[i].jid) = e.group_channels[i].label
    <2>1. (CHOOSE j \in DOMAIN e.group_channels : e.group_channels[j].jid = e.group_channels[i].jid) = i
      BY <1>3
    <2>2. QED
      BY <2>1 DEF GroupLabel
  <1>5. /\ DOMAIN e.group_channels = DOMAIN map
        /\ \A i \in DOMAIN map : e.group_channels[i] = map[i]
    BY <1>1
  <1>6. DOMAIN config.group_channels = {map[i].jid : i \in DOMAIN map}
    BY <1>2, <1>5
  <1>7. ASSUME NEW i \in DOMAIN map
        PROVE  map[i].jid \in Groups /\ config.group_channels[map[i].jid] = map[i].label
    <2>1. config.group_channels[e.group_channels[i].jid] = GroupLabel(e, e.group_channels[i].jid)
      BY <1>2, <1>5
    <2>2. QED
      BY <1>3, <1>4, <1>5, <2>1
  <1>8. QED
    BY <1>6, <1>7 DEF config

\* The rows are the map's entries, and the listed groups that are not in it.
RowsOf(rows, map, list) ==
  /\ \A row \in rows :
       \/ \E i \in DOMAIN map : row.jid = map[i].jid /\ row.label = map[i].label
       \/ /\ \E i \in DOMAIN list : row.jid = list[i]
          /\ \A i \in DOMAIN map : row.jid # map[i].jid
          /\ row.label = DEFAULT_CHANNEL
  /\ \A i \in DOMAIN map : \E row \in rows : row.jid = map[i].jid
  /\ \A i \in DOMAIN list : \E row \in rows : row.jid = list[i]

LEMMA RowsAre ==
  ASSUME NEW t, NEW map, NEW list, t.group_channels = map, t.group_allow = list
  PROVE  RowsOf(routing_rows(t), map, list)
  <1> DEFINE M(i) == Row(map[i].jid, map[i].label, "channel map", i)
             L(i) == Row(list[i], DEFAULT_CHANNEL, "allowlist", i)
  <1>1. routing_rows(t) = {M(i) : i \in DOMAIN map} \cup {L(i) : i \in Unmapped(t)}
    BY DEF routing_rows, MappedRows, ListedRows
  <1>2. /\ \A i : M(i).jid = map[i].jid /\ M(i).label = map[i].label
        /\ \A i : L(i).jid = list[i] /\ L(i).label = DEFAULT_CHANNEL
    BY DEF Row
  <1>3. Unmapped(t) = {i \in DOMAIN list : \A j \in DOMAIN map : map[j].jid # list[i]}
    BY DEF Unmapped
  <1> HIDE DEF M, L
  <1>4. /\ \A row \in routing_rows(t) :
             \/ \E i \in DOMAIN map : row.jid = map[i].jid /\ row.label = map[i].label
             \/ /\ \E i \in DOMAIN list : row.jid = list[i]
                /\ \A i \in DOMAIN map : row.jid # map[i].jid
                /\ row.label = DEFAULT_CHANNEL
        /\ \A i \in DOMAIN map : \E row \in routing_rows(t) : row.jid = map[i].jid
        /\ \A i \in Unmapped(t) : \E row \in routing_rows(t) : row.jid = list[i]
    BY <1>1, <1>2, <1>3
  <1>5. \A i \in DOMAIN list : \E row \in routing_rows(t) : row.jid = list[i]
    BY <1>3, <1>4
  <1>6. QED
    BY <1>4, <1>5 DEF RowsOf

\* Where the view has a group go is where the shim that runs takes it, and the groups that it has a row
\* for are those the shim lets in, when groups are let in by the list (fleetview/src/model.rs:200-213
\* against src/policy.rs and src/channel.rs).
THEOREM ViewShowsTheRouting == Spec => []ViewShowsRouting
  <1>1. FleetViewInv => ViewShowsRouting
    <2> SUFFICES ASSUME FleetViewInv, UpToDate, Valid(Env(running)), Seen.group_policy = "allowlist"
                 PROVE  LET config == from_env(Env(running))
                            rows == routing_rows(Seen)
                        IN  /\ \A g \in Groups : evaluate_group(config.policy, Wakes(g)) <=> \E row \in rows : row.jid = g
                            /\ \A row \in rows : channel_for(config, Wakes(row.jid)) = row.label
      BY DEF ViewShowsRouting
    <2> DEFINE config == from_env(Env(running))
               map == running.file.group_channels
               list == running.file.group_allow
    <2>1. FileOK(running.file) /\ Seen.group_allow = list /\ Seen.group_channels = map
      BY SeenIsRunning
    <2>2. Or(running.file.group_policy, "off") = "allowlist"
      BY SeenIsRunning
    <2>3. PoliciesParse(Env(running)) /\ parse_group_channels(Env(running))
      BY DEF Valid
    <2>4. /\ config.policy.group_policy = "allowlist"
          /\ config.policy.group_allow = ToSet(list) \cup {map[i].jid : i \in DOMAIN map}
      BY <2>1, <2>2, <2>3, EnvGroups
    <2>5. /\ DOMAIN config.group_channels = {map[i].jid : i \in DOMAIN map}
          /\ \A i \in DOMAIN map : map[i].jid \in Groups /\ config.group_channels[map[i].jid] = map[i].label
      BY <2>1, <2>3, MapIsFollowed
    <2> HIDE DEF config, map, list
    <2> DEFINE rows == routing_rows(Seen)
    <2>6. RowsOf(rows, map, list)
      BY <2>1, RowsAre
    <2> HIDE DEF rows
    <2>7. ASSUME NEW g \in Groups
          PROVE  evaluate_group(config.policy, Wakes(g)) <=> \E row \in rows : row.jid = g
      <3>1. evaluate_group(config.policy, Wakes(g)) <=> g \in config.policy.group_allow
        BY <2>4 DEF evaluate_group, Wakes
      <3>2. g \in config.policy.group_allow <=>
              (\E i \in DOMAIN list : list[i] = g) \/ (\E i \in DOMAIN map : map[i].jid = g)
        BY <2>4 DEF ToSet
      <3>3. (\E row \in rows : row.jid = g) <=>
              (\E i \in DOMAIN list : list[i] = g) \/ (\E i \in DOMAIN map : map[i].jid = g)
        BY <2>6 DEF RowsOf
      <3>4. QED
        BY <3>1, <3>2, <3>3
    <2>8. ASSUME NEW row \in rows
          PROVE  channel_for(config, Wakes(row.jid)) = row.label
      <3>1. Wakes(row.jid).chat_id = row.jid
        BY DEF Wakes
      <3>2. \/ \E i \in DOMAIN map : row.jid = map[i].jid /\ row.label = map[i].label
            \/ (\A i \in DOMAIN map : row.jid # map[i].jid) /\ row.label = DEFAULT_CHANNEL
        BY <2>6 DEF RowsOf
      <3>3. CASE \E i \in DOMAIN map : row.jid = map[i].jid /\ row.label = map[i].label
        BY <2>5, <3>1, <3>3 DEF channel_for, is_group
      <3>4. CASE (\A i \in DOMAIN map : row.jid # map[i].jid) /\ row.label = DEFAULT_CHANNEL
        <4>1. row.jid \notin DOMAIN config.group_channels
          BY <2>5, <3>4
        <4>2. QED
          BY <3>1, <3>4, <4>1 DEF channel_for
      <3>5. QED
        BY <3>2, <3>3, <3>4
    <2>9. QED
      BY <2>7, <2>8 DEF config, rows
  <1>2. QED
    BY <1>1, FleetViewInvariant, PTL

(***************************************************************************)
(* What is counted of the tenants together.                                *)
(***************************************************************************)
LEMMA EachFinite ==
  ASSUME NEW ts, IsFiniteSet(DOMAIN ts), \A i \in DOMAIN ts : IsFiniteSet(Gaps(ts[i]))
  PROVE  IsFiniteSet(Each(ts, Gaps))
  <1> DEFINE f == [i \in DOMAIN ts |-> {i} \X Gaps(ts[i])]
  <1>1. \A i \in DOMAIN ts : IsFiniteSet(f[i])
    BY FS_Singleton, FS_Product
  <1>2. Each(ts, Gaps) = UNION {f[i] : i \in DOMAIN ts}
    BY DEF Each
  <1>3. DOMAIN f = DOMAIN ts
    OBVIOUS
  <1> HIDE DEF f
  <1>4. IsFiniteSet({f[i] : i \in DOMAIN ts})
    BY <1>3, FiniteImage
  <1>5. QED
    BY <1>1, <1>2, <1>4, FS_UNION

\* A box whose shim would refuse its channel map is one that the view has a gap for, on the tenant and in
\* the number at the top (fleetview/src/model.rs:250-260, 462-502 against src/config.rs:401-415).
THEOREM RefusedMapsAreGaps == Spec => []GapsAreShown
  <1>1. FleetViewInv => GapsAreShown
    <2> SUFFICES ASSUME FleetViewInv, UpToDate, ~validate_group_channel_labels(Env(running))
                 PROVE  (\E h \in health(Seen) : h.sev = "crit") /\ summary(fleet).gaps > 0
      BY DEF GapsAreShown
    <2>1. /\ FileOK(running.file)
          /\ Seen.channels = running.file.channels /\ Seen.group_channels = running.file.group_channels
      BY SeenIsRunning
    <2> DEFINE map == running.file.group_channels
               env == Env(running)
    <2>2. /\ env.group_channels = [i \in DOMAIN map |-> map[i]]
          /\ label_set(env) = {DEFAULT_CHANNEL} \cup {running.file.channels[i].label : i \in DOMAIN running.file.channels}
      BY <2>1, EnvChannels
    <2>3. PICK i \in DOMAIN env.group_channels : env.group_channels[i].label \notin label_set(env)
      BY DEF validate_group_channel_labels
    <2> HIDE DEF env
    <2>4. i \in DOMAIN map /\ map[i].label \notin defined_labels(Seen)
      BY <2>1, <2>2, <2>3 DEF defined_labels
    <2> DEFINE h == Flag("crit", "undefined channel", i)
    <2>5. h \in MapFlags(Seen)
      BY <2>1, <2>4 DEF MapFlags
    <2>6. h \in health(Seen) /\ h.sev = "crit"
      BY <2>5 DEF health, Flag
    <2>7. h \in Gaps(Seen)
      BY <2>6 DEF Gaps
    <2>8. PICK n \in DOMAIN fleet : Seen = fleet[n]
      BY DEF UpToDate, Seen
    <2> HIDE DEF h
    <2>9. <<n, h>> \in Each(fleet, Gaps)
      <3>1. Each(fleet, Gaps) = UNION {{j} \X Gaps(fleet[j]) : j \in DOMAIN fleet}
        BY DEF Each
      <3>2. <<n, h>> \in {n} \X Gaps(fleet[n])
        BY <2>7, <2>8
      <3>3. QED
        BY <2>8, <3>1, <3>2
    <2>10. IsFiniteSet(Each(fleet, Gaps))
      <3>1. TenantsOK(fleet)
        BY DEF FleetViewInv, ViewInv
      <3>2. IsFiniteSet(DOMAIN fleet)
        BY <3>1, FS_Interval DEF TenantsOK
      <3>3. QED
        BY <3>1, <3>2, HealthFinite, EachFinite DEF TenantsOK
    <2>11. Cardinality(Each(fleet, Gaps)) > 0
      BY <2>9, <2>10, FS_EmptySet, FS_CardinalityType
    <2>12. summary(fleet).gaps = Cardinality(Each(fleet, Gaps))
      BY DEF summary
    <2>13. QED
      BY <2>6, <2>11, <2>12
  <1>2. QED
    BY <1>1, FleetViewInvariant, PTL
=============================================================================
