------------------------------- MODULE MCFleet --------------------------------
\* Instances of Fleet for TLC: files that render, files that do not, files that the shim refuses.
EXTENDS Fleet

To(group, label) == [jid |-> group, label |-> label]
Ops(url) == << [label |-> "ops", url |-> url] >>

\* The placeholder device of a file that was never paired.
Plain ==
  [NoFile EXCEPT !.dm_policy = "allowlist", !.dm_allow = {"u1"}, !.group_policy = "allowlist",
                 !.group_allow = <<"g1", "g2">>, !.device_jid = "none yet", !.agent_inbound_url = "agent"]

MCTenantFiles ==
  {[Plain EXCEPT !.channels = Ops("url"), !.group_channels = <<To("g1", "ops")>>, !.transcribe = TRUE],
   [Plain EXCEPT !.channels = Ops("url"), !.group_channels = <<To("g3", "hr"), To("g1", "default")>>],
   [NoFile EXCEPT !.channels = Ops(""), !.secrets = TRUE, !.require_mention = "off"],
   [Plain EXCEPT !.commented = TRUE, !.debug_sink = TRUE]}
Symmetry == Permutations(Jids)
MCTenantIds == <<"acme", "demo">>
=============================================================================
