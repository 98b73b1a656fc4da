------------------------------ MODULE MCHermes --------------------------------
\* An instance of HermesAdapter: two messages of one conversation, one of the same chat on another
\* channel, a voice note without a transcript.
EXTENDS HermesAdapter, TLC

CONSTANTS first, second, other, note, t1, t2

Text(channel) ==
  [chat |-> "chat", channel |-> channel, body |-> TRUE, media |-> {}, dropped |-> FALSE]
MCMessage ==
  first :> Text("hermes") @@ second :> Text("unlisted") @@ other :> Text("ops")
    @@ note :> [Text("hermes") EXCEPT !.body = FALSE, !.media = {"audio"}]
MCProfiles == [hermes |-> "wagw", default |-> "wagw", ops |-> "opsbot"]

Aborted == [Well EXCEPT !.clean = FALSE]
Failed == [clean |-> FALSE, session |-> FALSE, text |-> FALSE, stale |-> FALSE]
Silent == [Well EXCEPT !.text = FALSE]
NotFound == [Failed EXCEPT !.clean = TRUE, !.text = TRUE, !.stale = TRUE]
MCOutcomes == {Well, Aborted, Failed, Silent, NotFound}
Symmetric == Permutations(Threads)
=============================================================================
