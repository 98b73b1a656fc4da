------------------------------ MODULE FleetView -------------------------------
(***************************************************************************)
(* The operator's terminal view of the deploy directory (src/fleetview):   *)
(* the tenants merged from fleet.yaml and tenants/, what the view derives  *)
(* of each, and the application around it: a key, then what is drawn.      *)
(***************************************************************************)
EXTENDS Deploy

CONSTANTS
  Heights           \* lines that the terminal may give the detail panel

ASSUME HeightsAssumption == Heights \subseteq Nat

VARIABLES
  fleet,            \* App.fleet: the tenants of the directory as it was last read
  view              \* [selected, scroll, content_lines, viewport_lines]; selected is 0 for no tenant

viewVars == <<fleet, view>>
-----------------------------------------------------------------------------
(* model.rs: the merged tenants.                                           *)

\* A key given twice in fleet.yaml, or a file in tenants/ that is not .yaml, is not modelled.
Loads(idx, fs) == idx # Broken /\ \A id \in DOMAIN fs : fs[id] # Broken

NoFile ==
  [dm_policy |-> NotSet, dm_allow |-> {}, group_policy |-> NotSet, group_allow |-> <<>>,
   require_mention |-> NotSet, free_response_chats |-> {}, channels |-> <<>>, group_channels |-> <<>>,
   agent_inbound_url |-> NotSet, debug_sink |-> FALSE, transcribe |-> FALSE, device_jid |-> NotSet,
   secrets |-> FALSE, commented |-> FALSE]

Shown(status, hasConfig) ==
  IF status = NotSet THEN IF hasConfig THEN "hand-built" ELSE "no config" ELSE status

\* Comments are the parser's, not the value's; a policy that is not there is shown as off.
merge(id, idx, fs) ==
  LET file == IF id \in DOMAIN fs THEN fs[id] ELSE NoFile
      status == IF id \in DOMAIN idx THEN idx[id] ELSE NotSet
  IN  [id |-> id, in_fleet |-> id \in DOMAIN idx, has_config |-> id \in DOMAIN fs,
       status |-> Shown(status, id \in DOMAIN fs),
       dm_policy |-> Or(file.dm_policy, "off"), dm_allow |-> file.dm_allow,
       group_policy |-> Or(file.group_policy, "off"), group_allow |-> file.group_allow,
       require_mention |-> file.require_mention # "off",
       channels |-> file.channels, group_channels |-> file.group_channels,
       agent_inbound_url |-> file.agent_inbound_url, debug_sink |-> file.debug_sink,
       device_jid |-> file.device_jid, secrets |-> file.secrets]

\* Fleet::load, when it succeeds: every id of either, in order.
load(idx, fs) ==
  LET at == Ascending({i \in DOMAIN TenantIds : TenantIds[i] \in DOMAIN idx \cup DOMAIN fs})
  IN  [n \in DOMAIN at |-> merge(TenantIds[at[n]], idx, fs)]
-----------------------------------------------------------------------------
(* What is derived of a tenant.                                            *)

ChannelRow(label, url, groups, sink) == [label |-> label, url |-> url, groups |-> groups, sink |-> sink]
Mapped(t, label) == {i \in DOMAIN t.group_channels : t.group_channels[i].label = label}

\* The default channel comes first, whatever groups the map sends to it.
channel_rows(t) ==
  << ChannelRow(DEFAULT_CHANNEL, t.agent_inbound_url, 0, t.debug_sink) >>
    \o [i \in DOMAIN t.channels |->
          ChannelRow(t.channels[i].label, t.channels[i].url, Cardinality(Mapped(t, t.channels[i].label)), FALSE)]

\* The rows of the routing table and the flags of a tenant, each with its place (at) in the list that
\* it is made from; the order that they are shown in is not modelled.
Row(group, label, via, at) == [jid |-> group, label |-> label, via |-> via, at |-> at]
MappedRows(t) ==
  {Row(t.group_channels[i].jid, t.group_channels[i].label, "channel map", i) : i \in DOMAIN t.group_channels}
ListedRows(t, places) == {Row(t.group_allow[i], DEFAULT_CHANNEL, "allowlist", i) : i \in places}

\* mutant: a listed group has a row of its own, mapped or not
AllRows(t) == MappedRows(t) \cup ListedRows(t, DOMAIN t.group_allow)

Unmapped(t) == {i \in DOMAIN t.group_allow : \A j \in DOMAIN t.group_channels : t.group_channels[j].jid # t.group_allow[i]}
routing_rows(t) == MappedRows(t) \cup ListedRows(t, Unmapped(t))

Flag(sev, what, at) == [sev |-> sev, what |-> what, at |-> at]
FlagIf(condition, sev, what) == {Flag(sev, what, at) : at \in IF condition THEN {0} ELSE {}}

\* mutant: a label that some group is mapped to counts as defined
AnyLabel(t) == {t.group_channels[i].label : i \in DOMAIN t.group_channels}

defined_labels(t) == {t.channels[i].label : i \in DOMAIN t.channels}

MapFlags(t) ==
  LET map == t.group_channels
  IN  {Flag("crit", "undefined channel", i) : i \in {j \in DOMAIN map : map[j].label \notin defined_labels(t)}}
        \cup {Flag("info", "redundant", i) : i \in {j \in DOMAIN map : map[j].jid \in ToSet(t.group_allow)}}

health(t) ==
  FlagIf(t.debug_sink, "crit", "debug sink")
    \cup FlagIf(t.dm_policy = "allowlist" /\ t.dm_allow = {}, "warn", "no sender is admitted")
    \cup FlagIf(t.dm_policy = "open", "warn", "anybody is admitted")
    \cup FlagIf(t.group_policy = "open", "warn", "any group is admitted")
    \cup FlagIf(~t.require_mention, "info", "every group message is answered")
    \cup MapFlags(t)
    \cup FlagIf(t.in_fleet /\ ~t.has_config, "warn", "no config")
    \cup FlagIf(t.has_config /\ ~t.in_fleet, "info", "hand-built")

Gaps(t) == {h \in health(t) : h.sev \in {"warn", "crit"}}

\* What each tenant has, of all of them.
Each(ts, Of(_)) == UNION {{i} \X Of(ts[i]) : i \in DOMAIN ts}

summary(ts) ==
  [tenants |-> Len(ts),
   live |-> Cardinality({i \in DOMAIN ts : ts[i].status \in {"active", "hand-built"}}),
   targets |-> Cardinality(UNION {{row.url : row \in ToSet(channel_rows(t))} : t \in ToSet(ts)} \ {NotSet}),
   groups |-> Cardinality(Each(ts, routing_rows)),
   gaps |-> Cardinality(Each(ts, Gaps))]

\* How many lines detail_lines makes, section by section, each but the last with a blank one.
Section(shown, lines) == IF shown THEN lines + 1 ELSE 0
OrOne(rows) == IF rows = {} THEN 1 ELSE Cardinality(rows)

IdentityLines(t) == Section(TRUE, IF t.device_jid = NotSet THEN 1 ELSE 2)
RouteLines(t) == Section(TRUE, 2 + Len(channel_rows(t)))
PolicyLines == Section(TRUE, 6)
GroupLines(t) == Section(TRUE, 1 + OrOne(routing_rows(t)))
ChannelLines(t) == Section(TRUE, 2 + Len(channel_rows(t)))
SecretLines(t) == Section(t.secrets, 2)
HealthLines(t) == Section(health(t) # {}, 1 + Cardinality(health(t)))

detail_lines(t) ==
  IdentityLines(t) + RouteLines(t) + PolicyLines + GroupLines(t) + ChannelLines(t)
    + SecretLines(t) + HealthLines(t) + 1       \* the last is the source
-----------------------------------------------------------------------------
(* main.rs: App.  Quitting ends the process, and needs no action: a view   *)
(* that does nothing more is one that was left.                            *)

Less(m, n) == IF m > n THEN m - n ELSE 0        \* saturating_sub
Least(m, n) == IF m < n THEN m ELSE n

\* mutant: the scroll of another size of panel is kept
NoClamp(scroll, max) == scroll

Clamp(scroll, max) == Least(scroll, max)

\* The panel is drawn, its height the terminal's at that time.
Drawn(v, tenants) ==
  LET content == IF v.selected \in DOMAIN tenants THEN detail_lines(tenants[v.selected]) ELSE 0
  IN  {[v EXCEPT !.content_lines = content, !.viewport_lines = height,
                 !.scroll = Clamp(@, Less(content, height))] : height \in Heights}

\* App::new and the first draw; no directory that does not load is shown.
ViewInit ==
  /\ Loads(index, files)
  /\ fleet = load(index, files)
  /\ view \in Drawn([selected |-> IF fleet = <<>> THEN 0 ELSE 1, scroll |-> 0,
                     content_lines |-> 0, viewport_lines |-> 0], fleet)

\* A turn of run's loop: what the key leaves, drawn.
Turn(after, tenants) == view' \in Drawn(after, tenants)

\* An event that is no key, a resize for one.
OtherEvent == Turn(view, fleet) /\ UNCHANGED fleet

\* Down and up, around the ends.
SelectDelta(delta) ==
  /\ fleet # <<>>
  /\ Turn([view EXCEPT !.selected = ((@ - 1 + delta) % Len(fleet)) + 1, !.scroll = 0], fleet)
  /\ UNCHANGED fleet

max_scroll == Less(view.content_lines, view.viewport_lines)
Page == 10

Scroll ==
  /\ \E scroll \in {Least(view.scroll + Page, max_scroll), Less(view.scroll, Page), 0, max_scroll} :
       Turn([view EXCEPT !.scroll = scroll], fleet)
  /\ UNCHANGED fleet

\* mutant: the selection stays where it was
Unmoved(selected, tenants) == selected

\* The selection stays at its place in the list, or at the last one.
Kept(selected, tenants) ==
  IF tenants = <<>> THEN 0 ELSE Least(IF selected = 0 THEN 1 ELSE selected, Len(tenants))

\* r: the directory is read again; what does not load leaves what is shown as it is.
Reload ==
  IF Loads(index, files)
  THEN /\ fleet' = load(index, files)
       /\ Turn([view EXCEPT !.selected = Kept(@, fleet'), !.scroll = 0], fleet')
  ELSE Turn(view, fleet) /\ UNCHANGED fleet

ViewNext == OtherEvent \/ SelectDelta(1) \/ SelectDelta(-1) \/ Scroll \/ Reload
=============================================================================
