----------------------------- MODULE EventFeed -----------------------------
(***************************************************************************)
(* What the event daemon promises the pages of the site: messages are      *)
(* posted to channels under growing numbers, and a page is handed messages *)
(* of its own channel, each once and in the order of their numbers, none   *)
(* older than the page itself.  A page may miss messages: a page whose     *)
(* connection breaks is told nothing more.                                 *)
(***************************************************************************)
EXTENDS Naturals

CONSTANTS Channels, Pages, ChannelOf

VARIABLES posted,   \* the messages posted so far: [id, channel]
          last,     \* page -> the number it has been told up to
          seen      \* page -> the messages handed to its onmessage

feedVars == <<posted, last, seen>>

FeedInit ==
    /\ posted = {}
    /\ last = [p \in Pages |-> 0]
    /\ seen = [p \in Pages |-> {}]

(* A page is rendered: it takes messages from here on. *)
FeedLoad(p) ==
    /\ last[p] = 0
    /\ last' = [last EXCEPT ![p] = last'[p]]
    /\ \A m \in posted : m.id <= last'[p]
    /\ UNCHANGED <<posted, seen>>

(* A message is posted under a number greater than every earlier one. *)
FeedPost(c) ==
    /\ \E m \in posted' \ posted : /\ m.channel = c
                                  /\ \A n \in posted : n.id < m.id
                                  /\ posted' = posted \union {m}
    /\ UNCHANGED <<last, seen>>

(* A page is handed the next message, or one after it. *)
FeedHand(p) ==
    \E m \in posted :
        /\ m.channel = ChannelOf[p]
        /\ m.id > last[p]
        /\ last' = [last EXCEPT ![p] = m.id]
        /\ seen' = [seen EXCEPT ![p] = @ \union {m}]
        /\ UNCHANGED posted

FeedNext ==
    \/ \E p \in Pages : FeedLoad(p) \/ FeedHand(p)
    \/ \E c \in Channels : FeedPost(c)

FeedSpec == FeedInit /\ [][FeedNext]_feedVars
=============================================================================
